---------------------------- MODULE BufferProofs ----------------------------
(***************************************************************************)
(* Proofs about module CmuxBuffer, for every size of ring, every set of    *)
(* headers with any payload lengths, every payload and noise that          *)
(* BytesAssumption allows, and any chunks.                                 *)
(***************************************************************************)
EXTENDS CmuxBuffer, SequenceTheorems, WellFoundedInduction, TLAPS

(* The bytes that occur, and what is due of them. *)
Octets ==
  Payload \cup Noise \cup {Flag}
    \cup {Byte(k, h) : k \in {"address", "control", "length", "fcs"}, h \in Headers}
Items == Frames \cup Noise

Encoding(x) == IF IsFrame(x) THEN Build(x) ELSE <<x>>
ItemLength(x) == IF IsFrame(x) THEN FrameLength(x.header) ELSE 1

----------------------------------------------------------------------------
(* A set of natural numbers has a least element. *)
LEMMA LeastElement ==
  ASSUME NEW T, T \subseteq Nat, T # {}
  PROVE  \E m \in T : \A k \in T : m <= k
<1>1. PICK m \in T : \A k \in T : ~(<<k, m>> \in OpToRel(<, Nat))
  BY NatLessThanWellFounded, WFMin
<1>2. ASSUME NEW k \in T PROVE m <= k
  <2>1. <<k, m>> \notin OpToRel(<, Nat)
    BY <1>1
  <2>2. k \in Nat /\ m \in Nat
    OBVIOUS
  <2>3. ~(k < m)
    BY <2>1, <2>2 DEF OpToRel
  <2> QED BY <2>2, <2>3
<1> QED BY <1>2

(* The first frame of a sequence. *)
LEMMA FirstFrame ==
  ASSUME NEW S, NEW d \in Seq(S)
  PROVE  LET m == SelectInSeq(d, IsFrame)
         IN  /\ m \in 0 .. Len(d)
             /\ m = 0 => \A k \in 1 .. Len(d) : ~IsFrame(d[k])
             /\ m # 0 => IsFrame(d[m]) /\ \A k \in 1 .. m - 1 : ~IsFrame(d[k])
<1> DEFINE I == {i \in 1 .. Len(d) : IsFrame(d[i])}
<1>1. Len(d) \in Nat
  BY LenProperties
<1>2. SelectInSeq(d, IsFrame) = IF I # {} THEN Min(I) ELSE 0
  BY DEF SelectInSeq
<1>3. CASE I = {}
  BY <1>1, <1>2, <1>3
<1>4. CASE I # {}
  <2>1. I \subseteq Nat
    BY <1>1
  <2>2. \E m \in I : \A k \in I : m <= k
    BY <1>4, <2>1, LeastElement
  <2>3. Min(I) \in I /\ \A k \in I : Min(I) <= k
    BY <2>2 DEF Min
  <2> DEFINE m == Min(I)
  <2>4. SelectInSeq(d, IsFrame) = m
    BY <1>2, <1>4
  <2>5. m \in 1 .. Len(d) /\ IsFrame(d[m])
    BY <2>3
  <2>6. ASSUME NEW k \in 1 .. m - 1 PROVE ~IsFrame(d[k])
    <3>1. k \in 1 .. Len(d) /\ ~(m <= k)
      BY <1>1, <2>5
    <3> QED BY <2>3, <3>1
  <2> HIDE DEF m
  <2> QED BY <1>1, <2>4, <2>5, <2>6
<1> QED BY <1>3, <1>4

(* Noise is not a frame. *)
LEMMA NoiseIsNoFrame ==
  ASSUME NEW b \in Noise
  PROVE  ~IsFrame(b)
<1>1. b = Byte(b.kind, b.value)
  BY BytesAssumption
<1>2. "kind" \in DOMAIN b
  BY <1>1 DEF Byte
<1>3. ASSUME NEW f \in Frames PROVE DOMAIN f = {"header", "payload"}
  BY DEF Frames
<1> QED BY <1>2, <1>3 DEF IsFrame

(* A frame has a header and as much payload as it says. *)
LEMMA FrameType ==
  ASSUME NEW f \in Frames
  PROVE  /\ f.header \in Headers
         /\ PayloadLen[f.header] \in Nat
         /\ f.payload \in [1 .. PayloadLen[f.header] -> Payload]
         /\ f = [header |-> f.header, payload |-> f.payload]
         /\ FrameLength(f.header) \in Nat
<1>1. PICK h \in Headers : f \in [header : {h}, payload : [1 .. PayloadLen[h] -> Payload]]
  BY DEF Frames
<1>2. f.header = h
  BY <1>1
<1>3. PayloadLen[h] \in Nat
  BY HeadersAssumption
<1> QED BY <1>1, <1>2, <1>3 DEF FrameLength

LEMMA PayloadBytes ==
  ASSUME NEW f \in Frames
  PROVE  f.payload \in Seq(Octets) /\ Len(f.payload) = PayloadLen[f.header]
<1> DEFINE p == f.payload
           n == PayloadLen[f.header]
<1>1. p \in [1 .. n -> Payload] /\ n \in Nat
  BY FrameType
<1>2. Payload \subseteq Octets
  BY DEF Octets
<1> HIDE DEF p, n
<1>3. p \in [1 .. n -> Octets]
  BY <1>1, <1>2
<1>4. p \in Seq(Octets) /\ Len(p) = n
  BY <1>1, <1>3
<1> QED BY <1>4 DEF p, n

(* The bytes of a built frame, one by one. *)
LEMMA Joined ==
  ASSUME NEW S, NEW s \in Seq(S), NEW t \in Seq(S)
  PROVE  /\ s \o t \in Seq(S) /\ Len(s \o t) = Len(s) + Len(t)
         /\ \A i \in 1 .. Len(s) : (s \o t)[i] = s[i]
         /\ \A i \in 1 .. Len(t) : (s \o t)[Len(s) + i] = t[i]
<1> DEFINE m == Len(s)
           n == Len(t)
<1> m \in Nat /\ n \in Nat
  BY LenProperties
<1> DEFINE c == s \o t
<1>1. c \in Seq(S) /\ Len(c) = Len(s) + Len(t)
  BY ConcatProperties
<1>2. \A i \in 1 .. Len(s) + Len(t) : c[i] = IF i <= Len(s) THEN s[i] ELSE t[i - Len(s)]
  BY ConcatProperties
<1> HIDE DEF c
<1>3. ASSUME NEW i \in 1 .. m PROVE c[i] = s[i]
  <2>1. i \in 1 .. Len(s) + Len(t) /\ i <= Len(s)
    OBVIOUS
  <2> QED BY <1>2, <2>1
<1>4. ASSUME NEW i \in 1 .. n PROVE c[m + i] = t[i]
  <2>1. m + i \in 1 .. Len(s) + Len(t) /\ ~(m + i <= Len(s)) /\ (m + i) - Len(s) = i
    OBVIOUS
  <2>2. c[m + i] = t[(m + i) - Len(s)]
    BY <1>2, <2>1
  <2> QED BY <2>1, <2>2
<1>5. c \in Seq(S) /\ Len(c) = m + n
  BY <1>1
<1> QED BY <1>3, <1>4, <1>5 DEF c

(* A part of a sequence. *)
LEMMA Slice ==
  ASSUME NEW S, NEW s \in Seq(S), NEW m \in Nat \ {0}, NEW e \in Nat,
         m <= e + 1, e <= Len(s)
  PROVE  /\ SubSeq(s, m, e) \in Seq(S)
         /\ Len(SubSeq(s, m, e)) = e - m + 1
         /\ \A k \in 1 .. e - m + 1 : SubSeq(s, m, e)[k] = s[k + (m - 1)]
<1> DEFINE t == SubSeq(s, m, e)
<1>1. Len(s) \in Nat
  BY LenProperties
<1>2. \A i \in m .. e : s[i] \in S
  BY <1>1, ElementOfSeq
<1>3. /\ t \in Seq(S)
      /\ Len(t) = IF m <= e THEN e - m + 1 ELSE 0
      /\ \A k \in 1 .. e - m + 1 : t[k] = s[m + k - 1]
  BY <1>2, SubSeqProperties
<1>4. \A k \in 1 .. e - m + 1 : m + k - 1 = k + (m - 1)
  OBVIOUS
<1>5. (IF m <= e THEN e - m + 1 ELSE 0) = e - m + 1
  OBVIOUS
<1> HIDE DEF t
<1>6. /\ t \in Seq(S) /\ Len(t) = e - m + 1
      /\ \A k \in 1 .. e - m + 1 : t[k] = s[k + (m - 1)]
  BY <1>3, <1>4, <1>5
<1> QED BY <1>6 DEF t

LEMMA BuildBytes ==
  ASSUME NEW f \in Frames
  PROVE  LET h == f.header
             n == PayloadLen[h]
             b == Build(f)
         IN  /\ b \in Seq(Octets)
             /\ Len(b) = FrameLength(h)
             /\ b[1] = Flag /\ b[2] = Byte("address", h)
             /\ b[3] = Byte("control", h) /\ b[4] = Byte("length", h)
             /\ \A k \in 1 .. n : b[4 + k] = f.payload[k]
             /\ b[5 + n] = Fcs(h) /\ b[6 + n] = Flag
<1> DEFINE h == f.header
           n == PayloadLen[h]
           p == f.payload
           x == <<Flag>>
           y == HeaderBytes(h)
           z == <<Fcs(h), Flag>>
<1>1. h \in Headers /\ n \in Nat /\ p \in [1 .. n -> Payload] /\ FrameLength(h) = n + 6
  BY FrameType DEF FrameLength
<1>2. x \in Seq(Octets) /\ Len(x) = 1 /\ x[1] = Flag
  BY DEF Octets
<1>3. /\ Byte("address", h) \in Octets /\ Byte("control", h) \in Octets
      /\ Byte("length", h) \in Octets /\ Fcs(h) \in Octets /\ Flag \in Octets
  BY <1>1 DEF Octets, Fcs
<1>4. /\ y \in Seq(Octets) /\ Len(y) = 3 /\ y[1] = Byte("address", h)
      /\ y[2] = Byte("control", h) /\ y[3] = Byte("length", h)
  BY <1>3 DEF HeaderBytes
<1>5. z \in Seq(Octets) /\ Len(z) = 2 /\ z[1] = Fcs(h) /\ z[2] = Flag
  BY <1>3
<1>6. p \in Seq(Octets) /\ Len(p) = n
  BY PayloadBytes
<1>7. Build(f) = ((x \o y) \o p) \o z
  BY DEF Build
<1> HIDE DEF h, n, p, x, y, z
<1>8. /\ x \o y \in Seq(Octets) /\ Len(x \o y) = Len(x) + Len(y)
      /\ \A i \in 1 .. Len(x) : (x \o y)[i] = x[i]
      /\ \A i \in 1 .. Len(y) : (x \o y)[Len(x) + i] = y[i]
  <2>1. x \in Seq(Octets) /\ y \in Seq(Octets)
    BY <1>2, <1>4
  <2> QED BY <2>1, Joined
<1> DEFINE xy == x \o y
<1>81. /\ xy \in Seq(Octets) /\ Len(xy) = 4
       /\ xy[1] = x[1] /\ xy[2] = y[1] /\ xy[3] = y[2] /\ xy[4] = y[3]
  BY <1>2, <1>4, <1>8
<1> HIDE DEF xy
<1>9. /\ xy \o p \in Seq(Octets) /\ Len(xy \o p) = Len(xy) + Len(p)
      /\ \A i \in 1 .. Len(xy) : (xy \o p)[i] = xy[i]
      /\ \A i \in 1 .. Len(p) : (xy \o p)[Len(xy) + i] = p[i]
  <2>1. xy \in Seq(Octets) /\ p \in Seq(Octets)
    BY <1>6, <1>81
  <2> QED BY <2>1, Joined
<1> DEFINE xyp == xy \o p
<1>91. /\ xyp \in Seq(Octets) /\ Len(xyp) = 4 + n
       /\ \A i \in 1 .. 4 : xyp[i] = xy[i]
       /\ \A i \in 1 .. n : xyp[4 + i] = p[i]
  BY <1>1, <1>6, <1>81, <1>9
<1> HIDE DEF xyp
<1>10. /\ xyp \o z \in Seq(Octets) /\ Len(xyp \o z) = Len(xyp) + Len(z)
       /\ \A i \in 1 .. Len(xyp) : (xyp \o z)[i] = xyp[i]
       /\ \A i \in 1 .. Len(z) : (xyp \o z)[Len(xyp) + i] = z[i]
  <2>1. xyp \in Seq(Octets) /\ z \in Seq(Octets)
    BY <1>5, <1>91
  <2> QED BY <2>1, Joined
<1>101. Build(f) = xyp \o z
  BY <1>7 DEF xyp, xy
<1>11. \A i \in 1 .. 4 + n : Build(f)[i] = xyp[i]
  BY <1>10, <1>91, <1>101
<1>12. \A k \in 1 .. n : Build(f)[4 + k] = p[k]
  <2> TAKE k \in 1 .. n
  <2>1. 4 + k \in 1 .. 4 + n
    BY <1>1
  <2> QED BY <1>11, <1>91, <2>1
<1>13. Build(f)[5 + n] = z[1] /\ Build(f)[6 + n] = z[2]
  <2>1. (4 + n) + 1 = 5 + n /\ (4 + n) + 2 = 6 + n
    BY <1>1
  <2> QED BY <1>5, <1>10, <1>91, <1>101, <2>1
<1>14. /\ Build(f)[1] = x[1] /\ Build(f)[2] = y[1] /\ Build(f)[3] = y[2]
       /\ Build(f)[4] = y[3]
  <2>1. 1 \in 1 .. 4 + n /\ 2 \in 1 .. 4 + n /\ 3 \in 1 .. 4 + n /\ 4 \in 1 .. 4 + n
    BY <1>1
  <2> QED BY <1>11, <1>81, <1>91, <2>1
<1>15. Len(Build(f)) = FrameLength(h)
  BY <1>1, <1>5, <1>10, <1>91, <1>101
<1> QED BY <1>2, <1>4, <1>5, <1>10, <1>101, <1>12, <1>13, <1>14, <1>15 DEF h, n, p

----------------------------------------------------------------------------
(* What is due, byte by byte. *)
LEMMA ItemBytes ==
  ASSUME NEW x \in Items
  PROVE  /\ ItemLength(x) \in Nat \ {0}
         /\ Encoding(x) \in Seq(Octets)
         /\ Len(Encoding(x)) = ItemLength(x)
<1>1. CASE IsFrame(x)
  <2>1. x \in Frames
    BY <1>1 DEF IsFrame
  <2>2. Build(x) \in Seq(Octets) /\ Len(Build(x)) = FrameLength(x.header)
    BY <2>1, BuildBytes
  <2>3. FrameLength(x.header) \in Nat \ {0}
    BY <2>1, FrameType DEF FrameLength
  <2> QED BY <1>1, <2>2, <2>3 DEF ItemLength, Encoding
<1>2. CASE ~IsFrame(x)
  <2>1. x \in Octets
    BY <1>2 DEF Items, IsFrame, Octets
  <2> QED BY <1>2, <2>1 DEF ItemLength, Encoding
<1> QED BY <1>1, <1>2

(* The address of a header occurs only in a frame with it, as its second   *)
(* byte.                                                                   *)
LEMMA AddressIsUnique ==
  ASSUME NEW x \in Items, NEW h \in Headers, NEW k \in 1 .. ItemLength(x),
         Encoding(x)[k] = Byte("address", h)
  PROVE  IsFrame(x) /\ x.header = h /\ k = 2
<1>1. \A b \in Payload \cup Noise : b # Byte("address", h)
  BY BytesAssumption DEF Byte
<1>2. CASE IsFrame(x)
  <2> DEFINE g == x.header
             n == PayloadLen[g]
  <2>1. x \in Frames /\ Encoding(x) = Build(x) /\ ItemLength(x) = n + 6
    BY <1>2 DEF IsFrame, Encoding, ItemLength, FrameLength
  <2>2. n \in Nat /\ x.payload \in [1 .. n -> Payload]
    BY <2>1, FrameType
  <2>3. /\ Build(x)[1] = Flag /\ Build(x)[2] = Byte("address", g)
        /\ Build(x)[3] = Byte("control", g) /\ Build(x)[4] = Byte("length", g)
        /\ \A l \in 1 .. n : Build(x)[4 + l] = x.payload[l]
        /\ Build(x)[5 + n] = Fcs(g) /\ Build(x)[6 + n] = Flag
    BY <2>1, BuildBytes
  <2>4. k \in 1 .. n + 6 /\ Build(x)[k] = Byte("address", h)
    BY <2>1
  <2>5. \/ k = 1 \/ k = 2 \/ k = 3 \/ k = 4 \/ k = 5 + n \/ k = 6 + n
        \/ k - 4 \in 1 .. n /\ 4 + (k - 4) = k
    BY <2>2, <2>4
  <2>6. /\ Flag # Byte("address", h) /\ Fcs(g) # Byte("address", h)
        /\ Byte("control", g) # Byte("address", h)
        /\ Byte("length", g) # Byte("address", h)
    BY DEF Flag, Fcs, Byte
  <2>7. ASSUME k - 4 \in 1 .. n, 4 + (k - 4) = k PROVE FALSE
    <3>1. Build(x)[4 + (k - 4)] = x.payload[k - 4]
      BY <2>3, <2>7
    <3>2. x.payload[k - 4] \in Payload
      BY <2>2, <2>7
    <3> QED BY <1>1, <2>4, <2>7, <3>1, <3>2
  <2>8. k = 2
    BY <2>3, <2>4, <2>5, <2>6, <2>7
  <2>9. Byte("address", g) = Byte("address", h)
    BY <2>3, <2>4, <2>8
  <2>10. g = h
    BY <2>9 DEF Byte
  <2> QED BY <1>2, <2>8, <2>10
<1>3. CASE ~IsFrame(x)
  <2>1. x \in Noise /\ k = 1 /\ Encoding(x) = <<x>>
    BY <1>3 DEF Items, IsFrame, Encoding, ItemLength
  <2> QED BY <1>1, <2>1
<1> QED BY <1>2, <1>3

----------------------------------------------------------------------------
(* off is where the items of d lie in s, one after the other and with no   *)
(* gap: a byte of s belongs to an item, and bytes of noise in a row have   *)
(* offsets in a row.                                                       *)
Offsets(s, d, off) ==
  /\ off \in [1 .. Len(d) + 1 -> Nat]
  /\ off[1] = 0 /\ off[Len(d) + 1] = Len(s)
  /\ \A j \in 1 .. Len(d) : off[j + 1] = off[j] + ItemLength(d[j])
Ordered(d, off) == \A i, j \in 1 .. Len(d) + 1 : i <= j => off[i] <= off[j]
Filled(s, d, off) == \A j \in 1 .. Len(d) : \A k \in 1 .. ItemLength(d[j]) :
                       s[off[j] + k] = Encoding(d[j])[k]
Covered(s, d, off) ==
  \A p \in 1 .. Len(s) : \E j \in 1 .. Len(d) : off[j] < p /\ p <= off[j + 1]
InARow(d, off) ==
  \A i, j \in 1 .. Len(d) + 1 :
    i <= j /\ (\A k \in i .. j - 1 : ~IsFrame(d[k])) => off[j] = off[i] + (j - i)

LaidOut(s, d, off) ==
  /\ Offsets(s, d, off) /\ Ordered(d, off) /\ Filled(s, d, off)
  /\ Covered(s, d, off) /\ InARow(d, off)

(* The bytes that make s hold a valid frame with header h from i on. *)
Matches(s, i, h) ==
  /\ s[i + 1] = Flag /\ s[i + 2] = Byte("address", h)
  /\ s[i + 3] = Byte("control", h) /\ s[i + 4] = Byte("length", h)
  /\ s[i + FrameLength(h) - 1] = Fcs(h) /\ s[i + FrameLength(h)] = Flag

LEMMA HeaderLength ==
  ASSUME NEW h \in Headers
  PROVE  PayloadLen[h] \in Nat /\ FrameLength(h) = PayloadLen[h] + 6 /\ FrameLength(h) \in Nat
BY HeadersAssumption DEF FrameLength

(* check_valid_frame looks at those bytes, within the block. *)
LEMMA StartsAt ==
  ASSUME NEW S, NEW s \in Seq(S), NEW e \in 0 .. Len(s), NEW i \in 0 .. e - 1,
         NEW h \in Headers
  PROVE  StartsWith(SubSeq(s, i + 1, e), h) <=> i + FrameLength(h) <= e /\ Matches(s, i, h)
<1> DEFINE t == SubSeq(s, i + 1, e)
           n == FrameLength(h)
<1>1. Len(s) \in Nat /\ e \in Nat /\ i \in Nat /\ i < e /\ e <= Len(s)
  BY LenProperties
<1>2. n \in Nat /\ n >= 6
  BY HeaderLength
<1>3. \A k \in i + 1 .. e : s[k] \in S
  BY <1>1, ElementOfSeq
<1>4. /\ t \in Seq(S) /\ Len(t) = e - i
      /\ \A k \in 1 .. e - i : t[k] = s[i + k]
  <2>1. /\ SubSeq(s, i + 1, e) \in Seq(S)
        /\ Len(SubSeq(s, i + 1, e)) = IF i + 1 <= e THEN e - (i + 1) + 1 ELSE 0
        /\ \A k \in 1 .. e - (i + 1) + 1 : SubSeq(s, i + 1, e)[k] = s[(i + 1) + k - 1]
    BY <1>1, <1>3, SubSeqProperties
  <2>2. e - (i + 1) + 1 = e - i /\ \A k \in Int : (i + 1) + k - 1 = i + k
    BY <1>1
  <2> QED BY <1>1, <2>1, <2>2
<1> HIDE DEF t, n
<1>5. CASE n <= Len(t)
  <2>1. \A k \in 1 .. n : t[k] = s[i + k]
    BY <1>1, <1>2, <1>4, <1>5
  <2>2. /\ SubSeq(t, 2, 4) \in Seq(S) /\ Len(SubSeq(t, 2, 4)) = 3
        /\ SubSeq(t, 2, 4)[1] = t[2] /\ SubSeq(t, 2, 4)[2] = t[3]
        /\ SubSeq(t, 2, 4)[3] = t[4]
    <3>1. \A k \in 2 .. 4 : t[k] \in S
      BY <1>1, <1>2, <1>4, <1>5, ElementOfSeq
    <3>2. /\ SubSeq(t, 2, 4) \in Seq(S)
          /\ Len(SubSeq(t, 2, 4)) = IF 2 <= 4 THEN 4 - 2 + 1 ELSE 0
          /\ \A k \in 1 .. 4 - 2 + 1 : SubSeq(t, 2, 4)[k] = t[2 + k - 1]
      BY <3>1, SubSeqProperties
    <3> QED BY <3>2
  <2>3. SubSeq(t, 2, 4) = HeaderBytes(h) <=>
          t[2] = Byte("address", h) /\ t[3] = Byte("control", h) /\ t[4] = Byte("length", h)
    <3> DEFINE u == SubSeq(t, 2, 4)
    <3>1. u = <<u[1], u[2], u[3]>>
      <4>1. u \in Seq(S) /\ Len(u) = 3
        BY <2>2
      <4> HIDE DEF u
      <4> QED BY <4>1
    <3>2. HeaderBytes(h) = <<Byte("address", h), Byte("control", h), Byte("length", h)>>
      BY DEF HeaderBytes
    <3> QED BY <2>2, <3>1, <3>2
  <2>4. /\ t[1] = s[i + 1] /\ t[2] = s[i + 2] /\ t[3] = s[i + 3] /\ t[4] = s[i + 4]
        /\ t[n - 1] = s[i + (n - 1)] /\ t[n] = s[i + n]
    BY <1>2, <2>1
  <2>5. i + (n - 1) = i + n - 1 /\ (n <= Len(t) <=> i + n <= e)
    BY <1>1, <1>2, <1>4
  <2> QED BY <1>5, <2>3, <2>4, <2>5 DEF StartsWith, Matches, t, n
<1>6. CASE ~(n <= Len(t))
  <2>1. ~(Len(t) >= n) /\ ~(i + n <= e)
    BY <1>1, <1>2, <1>4, <1>6
  <2> QED BY <2>1 DEF StartsWith, t, n
<1> QED BY <1>5, <1>6

----------------------------------------------------------------------------
(* An address byte of what is laid out is that of a frame, two bytes on.   *)
LEMMA FoundItem ==
  ASSUME NEW s, NEW d \in Seq(Items), NEW off, LaidOut(s, d, off), Len(s) \in Nat,
         NEW i \in Nat, i + 2 <= Len(s), NEW h \in Headers,
         s[i + 2] = Byte("address", h)
  PROVE  \E j \in 1 .. Len(d) : off[j] = i /\ IsFrame(d[j]) /\ d[j].header = h
<1>1. Len(d) \in Nat
  BY LenProperties
<1> DEFINE p == i + 2
<1>20. p \in 1 .. Len(s)
  OBVIOUS
<1>2. PICK j \in 1 .. Len(d) : off[j] < p /\ p <= off[j + 1]
  <2> HIDE DEF p
  <2> QED BY <1>20 DEF LaidOut, Covered
<1>3. d[j] \in Items /\ ItemLength(d[j]) \in Nat
  BY ElementOfSeq, ItemBytes
<1>4. off[j] \in Nat /\ off[j + 1] = off[j] + ItemLength(d[j])
  BY <1>1, SMTT(30) DEF LaidOut, Offsets
<1> DEFINE k == i + 2 - off[j]
<1>5. k \in 1 .. ItemLength(d[j]) /\ off[j] + k = i + 2
  BY <1>2, <1>3, <1>4, SMTT(30)
<1>6. Encoding(d[j])[k] = Byte("address", h)
  <2>1. s[off[j] + k] = Encoding(d[j])[k]
    BY <1>5 DEF LaidOut, Filled
  <2> QED BY <1>5, <2>1
<1>7. IsFrame(d[j]) /\ d[j].header = h /\ k = 2
  <2> HIDE DEF k
  <2> QED BY <1>3, <1>5, <1>6, AddressIsUnique
<1>8. off[j] = i
  BY <1>4, <1>7
<1> QED BY <1>7, <1>8

(* A frame that is laid out matches where it lies. *)
LEMMA FrameMatches ==
  ASSUME NEW s, NEW d \in Seq(Items), NEW off, LaidOut(s, d, off),
         NEW j \in 1 .. Len(d), IsFrame(d[j])
  PROVE  /\ d[j].header \in Headers
         /\ off[j] \in Nat
         /\ off[j + 1] = off[j] + FrameLength(d[j].header)
         /\ Matches(s, off[j], d[j].header)
<1> DEFINE h == d[j].header
           n == PayloadLen[h]
           o == off[j]
<1>1. d[j] \in Frames
  BY DEF IsFrame
<1>2. h \in Headers /\ n \in Nat /\ FrameLength(h) = n + 6
  BY <1>1, FrameType, HeaderLength
<1>3. o \in Nat
  BY LenProperties DEF LaidOut, Offsets
<1>4. ItemLength(d[j]) = n + 6 /\ Encoding(d[j]) = Build(d[j])
  BY <1>2 DEF ItemLength, Encoding
<1>5. /\ Build(d[j])[1] = Flag /\ Build(d[j])[2] = Byte("address", h)
      /\ Build(d[j])[3] = Byte("control", h) /\ Build(d[j])[4] = Byte("length", h)
      /\ Build(d[j])[5 + n] = Fcs(h) /\ Build(d[j])[6 + n] = Flag
  BY <1>1, BuildBytes
<1>6. \A k \in 1 .. n + 6 : s[o + k] = Build(d[j])[k]
  BY <1>4 DEF LaidOut, Filled
<1>7. off[j + 1] = o + (n + 6)
  BY <1>4 DEF LaidOut, Offsets
<1> HIDE DEF h, n, o
<1>8. /\ s[o + 1] = Flag /\ s[o + 2] = Byte("address", h)
      /\ s[o + 3] = Byte("control", h) /\ s[o + 4] = Byte("length", h)
      /\ s[o + (5 + n)] = Fcs(h) /\ s[o + (6 + n)] = Flag
  BY <1>2, <1>5, <1>6
<1>9. o + FrameLength(h) - 1 = o + (5 + n) /\ o + FrameLength(h) = o + (6 + n)
  BY <1>2, <1>3
<1> QED BY <1>2, <1>3, <1>7, <1>8, <1>9 DEF Matches, h, o

(* The least match in a block of what is laid out is the first frame due,  *)
(* and the offset is the number of noise bytes before it.                  *)
LEMMA FirstMatch ==
  ASSUME NEW s, NEW d \in Seq(Items), NEW off, LaidOut(s, d, off), Len(s) \in Nat,
         NEW e \in 0 .. Len(s), NEW i \in Nat, NEW h \in Headers,
         i + FrameLength(h) <= e, Matches(s, i, h),
         \A k \in 0 .. i - 1 : \A g \in Headers :
            ~(k + FrameLength(g) <= e /\ Matches(s, k, g))
  PROVE  LET m == SelectInSeq(d, IsFrame)
         IN  m \in 1 .. Len(d) /\ off[m] = i /\ i = m - 1 /\ d[m].header = h
<1> DEFINE m == SelectInSeq(d, IsFrame)
<1>1. Len(d) \in Nat /\ FrameLength(h) \in Nat /\ FrameLength(h) >= 6
  BY LenProperties, HeaderLength
<1>2. PICK j \in 1 .. Len(d) : off[j] = i /\ IsFrame(d[j]) /\ d[j].header = h
  <2>1. i + 2 <= Len(s) /\ s[i + 2] = Byte("address", h)
    BY <1>1 DEF Matches
  <2> QED BY <2>1, FoundItem
<1>3. /\ m \in 1 .. j /\ m \in 1 .. Len(d) /\ IsFrame(d[m])
      /\ \A k \in 1 .. m - 1 : ~IsFrame(d[k])
  <2>1. /\ m \in 0 .. Len(d)
        /\ m = 0 => \A k \in 1 .. Len(d) : ~IsFrame(d[k])
        /\ m # 0 => IsFrame(d[m]) /\ \A k \in 1 .. m - 1 : ~IsFrame(d[k])
    BY FirstFrame
  <2> HIDE DEF m
  <2> QED BY <1>1, <1>2, <2>1
<1> HIDE DEF m
<1>4. CASE m = j
  <2>1. off[m] = off[1] + (m - 1)
    <3>1. 1 \in 1 .. Len(d) + 1 /\ m \in 1 .. Len(d) + 1 /\ 1 <= m
      BY <1>1, <1>3
    <3> QED BY <1>3, <3>1 DEF LaidOut, InARow
  <2>2. off[1] = 0
    BY DEF LaidOut, Offsets
  <2> QED BY <1>2, <1>3, <1>4, <2>1, <2>2 DEF m
<1>5. CASE m < j
  <2> DEFINE g == d[m].header
             k == off[m]
  <2>1. g \in Headers /\ k \in Nat /\ off[m + 1] = k + FrameLength(g) /\ Matches(s, k, g)
    BY <1>3, FrameMatches
  <2>2. FrameLength(g) \in Nat /\ FrameLength(g) >= 6
    BY <2>1, HeaderLength
  <2>3. off[m + 1] <= off[j]
    <3>1. m + 1 \in 1 .. Len(d) + 1 /\ j \in 1 .. Len(d) + 1 /\ m + 1 <= j
      BY <1>1, <1>3, <1>5
    <3> QED BY <3>1 DEF LaidOut, Ordered
  <2> HIDE DEF g, k
  <2>4. k \in 0 .. i - 1 /\ k + FrameLength(g) <= e
    BY <1>1, <1>2, <2>1, <2>2, <2>3
  <2> QED BY <2>1, <2>4
<1> QED BY <1>3, <1>4, <1>5

(* parse_frame gives back the frame that lies there. *)
LEMMA Parsed ==
  ASSUME NEW s \in Seq(Octets), NEW d \in Seq(Items), NEW off, NEW rest,
         LaidOut(s \o rest, d, off), rest \in Seq(Octets),
         NEW j \in 1 .. Len(d), IsFrame(d[j]),
         off[j] + FrameLength(d[j].header) <= Len(s)
  PROVE  Parse(SubSeq(s, off[j] + 1, Len(s)), d[j].header) = d[j]
<1> DEFINE f == d[j]
           h == f.header
           n == PayloadLen[h]
           i == off[j]
           t == SubSeq(s, i + 1, Len(s))
           p == SubSeq(t, 5, 4 + n)
           c == s \o rest
<1>1. f \in Frames
  BY DEF IsFrame
<1>2. /\ h \in Headers /\ n \in Nat /\ FrameLength(h) = n + 6
      /\ f.payload \in [1 .. n -> Payload]
      /\ f = [header |-> h, payload |-> f.payload]
  <2>1. /\ f.header \in Headers
        /\ f.payload \in [1 .. PayloadLen[f.header] -> Payload]
        /\ f = [header |-> f.header, payload |-> f.payload]
    BY <1>1, FrameType
  <2> QED BY <2>1, HeaderLength
<1>3. i \in Nat /\ Len(s) \in Nat
  BY FrameMatches, LenProperties
<1>4. \A k \in 1 .. n + 6 : c[i + k] = Build(f)[k]
  <2>1. ItemLength(f) = n + 6 /\ Encoding(f) = Build(f)
    BY <1>2 DEF ItemLength, Encoding
  <2> QED BY <2>1 DEF LaidOut, Filled
<1>5. \A k \in 1 .. n : Build(f)[4 + k] = f.payload[k]
  BY <1>1, BuildBytes
<1>6. \A k \in 1 .. Len(s) : c[k] = s[k]
  BY Joined
<1>7. i + (n + 6) <= Len(s)
  BY <1>2
<1> HIDE DEF i, c, n, h, f
<1>8. /\ t \in Seq(Octets) /\ Len(t) = Len(s) - i
      /\ \A k \in 1 .. Len(s) - i : t[k] = s[k + i]
  <2>1. i + 1 \in Nat \ {0} /\ i + 1 <= Len(s) + 1
    BY <1>2, <1>3, <1>7
  <2>2. Len(s) - (i + 1) + 1 = Len(s) - i /\ (i + 1) - 1 = i
    BY <1>3
  <2>3. /\ t \in Seq(Octets) /\ Len(t) = Len(s) - (i + 1) + 1
        /\ \A k \in 1 .. Len(s) - (i + 1) + 1 : t[k] = s[k + ((i + 1) - 1)]
    BY <1>3, <2>1, Slice
  <2> HIDE DEF t
  <2> QED BY <2>2, <2>3
<1> HIDE DEF t
<1>9. p \in Seq(Octets) /\ Len(p) = n /\ \A k \in 1 .. n : p[k] = t[k + 4]
  <2>1. /\ t \in Seq(Octets) /\ 4 + n \in Nat /\ 5 \in Nat \ {0}
        /\ 5 <= (4 + n) + 1 /\ 4 + n <= Len(t)
    BY <1>2, <1>3, <1>7, <1>8
  <2>2. (4 + n) - 5 + 1 = n /\ 5 - 1 = 4
    BY <1>2
  <2>3. /\ p \in Seq(Octets) /\ Len(p) = (4 + n) - 5 + 1
        /\ \A k \in 1 .. (4 + n) - 5 + 1 : p[k] = t[k + (5 - 1)]
    BY <2>1, Slice
  <2> HIDE DEF p
  <2> QED BY <2>2, <2>3
<1> HIDE DEF p
<1>10. \A k \in 1 .. n : p[k] = f.payload[k]
  <2> TAKE k \in 1 .. n
  <2>1. p[k] = t[k + 4] /\ k + 4 \in 1 .. Len(s) - i
    BY <1>2, <1>3, <1>7, <1>9
  <2>2. t[k + 4] = s[(k + 4) + i]
    BY <1>8, <2>1
  <2>3. /\ (k + 4) + i = i + (4 + k) /\ i + (4 + k) \in 1 .. Len(s)
        /\ 4 + k \in 1 .. n + 6
    BY <1>2, <1>3, <1>7
  <2>4. s[i + (4 + k)] = Build(f)[4 + k]
    BY <1>4, <1>6, <2>3
  <2> QED BY <1>5, <2>1, <2>2, <2>3, <2>4
<1>11. p = f.payload
  <2> DEFINE q == f.payload
  <2>1. \A k \in 1 .. n : p[k] = q[k]
    BY <1>10
  <2>2. q \in Seq(Octets) /\ Len(q) = n
    BY <1>1, PayloadBytes DEF n, h
  <2> HIDE DEF q
  <2>3. p \in Seq(Octets) /\ Len(p) = Len(q) /\ \A k \in 1 .. Len(p) : p[k] = q[k]
    BY <1>9, <2>1, <2>2
  <2>4. p = q
    BY <2>2, <2>3, SeqEqual
  <2> QED BY <2>4 DEF q
<1>12. [header |-> h, payload |-> p] = f
  BY <1>2, <1>11
<1> QED BY <1>12 DEF Parse, p, t, i, n, h, f

----------------------------------------------------------------------------
(* One more item at the end. *)
LEMMA LaidOutAppend ==
  ASSUME NEW s \in Seq(Octets), NEW d \in Seq(Items), NEW off, LaidOut(s, d, off),
         NEW x \in Items
  PROVE  \E new : LaidOut(s \o Encoding(x), Append(d, x), new)
<1> DEFINE n == Len(d)
           l == Len(s)
           w == ItemLength(x)
           y == Encoding(x)
           t == s \o y
           c == Append(d, x)
           new == [j \in 1 .. n + 2 |-> IF j = n + 2 THEN l + w ELSE off[j]]
<1>1. n \in Nat /\ l \in Nat
  BY LenProperties
<1>2. w \in Nat \ {0} /\ y \in Seq(Octets) /\ Len(y) = w
  BY ItemBytes
<1>3. /\ c \in Seq(Items) /\ Len(c) = n + 1 /\ c[n + 1] = x
      /\ \A j \in 1 .. n : c[j] = d[j]
  BY AppendProperties
<1>4. /\ Len(t) = l + w
      /\ \A i \in 1 .. l : t[i] = s[i]
      /\ \A k \in 1 .. w : t[l + k] = y[k]
  <2>1. s \in Seq(Octets) /\ y \in Seq(Octets)
    BY <1>2
  <2>2. /\ Len(s \o y) = Len(s) + Len(y)
        /\ \A i \in 1 .. Len(s) : (s \o y)[i] = s[i]
        /\ \A k \in 1 .. Len(y) : (s \o y)[Len(s) + k] = y[k]
    BY <2>1, Joined
  <2> HIDE DEF y
  <2> QED BY <1>2, <2>2
<1>5. /\ off \in [1 .. n + 1 -> Nat] /\ off[1] = 0 /\ off[n + 1] = l
      /\ \A j \in 1 .. n : off[j + 1] = off[j] + ItemLength(d[j])
  BY DEF LaidOut, Offsets
<1>6. /\ new[n + 2] = l + w /\ \A j \in 1 .. n + 1 : new[j] = off[j]
      /\ new \in [1 .. n + 2 -> Nat]
  BY <1>1, <1>2, <1>5
<1> HIDE DEF n, l, w, y, t, c, new
<1>7. \A j \in 1 .. n : off[j + 1] <= l
  <2> TAKE j \in 1 .. n
  <2>1. j + 1 \in 1 .. n + 1 /\ n + 1 \in 1 .. n + 1 /\ j + 1 <= n + 1
    BY <1>1
  <2>2. off[j + 1] <= off[n + 1]
    BY <2>1 DEF LaidOut, Ordered, n
  <2> QED BY <1>5, <2>2
<1>8. Offsets(t, c, new)
  <2>1. new \in [1 .. Len(c) + 1 -> Nat] /\ new[1] = 0 /\ new[Len(c) + 1] = Len(t)
    BY <1>1, <1>3, <1>4, <1>5, <1>6
  <2>2. ASSUME NEW j \in 1 .. Len(c) PROVE new[j + 1] = new[j] + ItemLength(c[j])
    <3>1. CASE j \in 1 .. n
      <4>1. j \in 1 .. n + 1 /\ j + 1 \in 1 .. n + 1
        BY <1>1, <3>1
      <4> QED BY <1>3, <1>5, <1>6, <3>1, <4>1
    <3>2. CASE j = n + 1
      <4>1. (n + 1) + 1 = n + 2 /\ n + 1 \in 1 .. n + 1
        BY <1>1
      <4> QED BY <1>3, <1>5, <1>6, <3>2, <4>1 DEF w
    <3> QED BY <1>1, <1>3, <3>1, <3>2
  <2> QED BY <2>1, <2>2 DEF Offsets
<1>9. Ordered(c, new)
  <2> SUFFICES ASSUME NEW i \in 1 .. n + 2, NEW j \in 1 .. n + 2, i <= j
               PROVE  new[i] <= new[j]
    BY <1>1, <1>3 DEF Ordered
  <2>1. CASE j \in 1 .. n + 1
    <3>1. i \in 1 .. n + 1
      BY <1>1, <2>1
    <3>2. off[i] <= off[j]
      BY <2>1, <3>1 DEF LaidOut, Ordered, n
    <3> QED BY <1>6, <2>1, <3>1, <3>2
  <2>2. CASE j = n + 2 /\ i = n + 2
    BY <1>6, <2>2, <1>1, <1>2
  <2>3. CASE j = n + 2 /\ i \in 1 .. n + 1
    <3>1. n + 1 \in 1 .. n + 1 /\ i <= n + 1
      BY <1>1, <2>3
    <3>2. off[i] <= off[n + 1]
      BY <2>3, <3>1 DEF LaidOut, Ordered, n
    <3>3. off[i] \in Nat
      BY <1>5, <2>3
    <3> QED BY <1>1, <1>2, <1>5, <1>6, <2>3, <3>2, <3>3
  <2> QED BY <1>1, <2>1, <2>2, <2>3
<1>10. Filled(t, c, new)
  <2> SUFFICES ASSUME NEW j \in 1 .. n + 1, NEW k \in 1 .. ItemLength(c[j])
               PROVE  t[new[j] + k] = Encoding(c[j])[k]
    BY <1>3 DEF Filled
  <2>1. CASE j \in 1 .. n
    <3>1. c[j] = d[j] /\ new[j] = off[j] /\ off[j] \in Nat
      BY <1>1, <1>3, <1>5, <1>6, <2>1
    <3>2. s[off[j] + k] = Encoding(d[j])[k]
      BY <2>1, <3>1 DEF LaidOut, Filled, n
    <3>3. d[j] \in Items
      BY <2>1, ElementOfSeq DEF n
    <3>4. ItemLength(d[j]) \in Nat
      BY <3>3, ItemBytes
    <3>5. off[j] + k \in 1 .. l
      BY <1>1, <1>5, <1>7, <2>1, <3>1, <3>4, SMTT(30)
    <3> QED BY <1>4, <3>1, <3>2, <3>5
  <2>2. CASE j = n + 1
    <3>1. c[j] = x /\ new[j] = l /\ k \in 1 .. w
      BY <1>1, <1>3, <1>5, <1>6, <2>2 DEF w
    <3> QED BY <1>4, <3>1 DEF y
  <2> QED BY <1>1, <2>1, <2>2
<1>11. Covered(t, c, new)
  <2> SUFFICES ASSUME NEW p \in 1 .. l + w
               PROVE  \E j \in 1 .. n + 1 : new[j] < p /\ p <= new[j + 1]
    BY <1>3, <1>4 DEF Covered
  <2>1. CASE p \in 1 .. l
    <3>1. PICK j \in 1 .. n : off[j] < p /\ p <= off[j + 1]
      BY <2>1 DEF LaidOut, Covered, n, l
    <3>2. j \in 1 .. n + 1 /\ j + 1 \in 1 .. n + 1
      BY <1>1
    <3> QED BY <1>6, <3>1, <3>2
  <2>2. CASE ~(p \in 1 .. l)
    <3>1. n + 1 \in 1 .. n + 1 /\ (n + 1) + 1 = n + 2 /\ l < p /\ p <= l + w
      BY <1>1, <1>2, <2>2
    <3> QED BY <1>5, <1>6, <3>1
  <2> QED BY <2>1, <2>2
<1>12. InARow(c, new)
  <2>0. Len(c) + 1 = n + 2
    BY <1>1, <1>3
  <2> SUFFICES ASSUME NEW i \in 1 .. Len(c) + 1, NEW j \in 1 .. Len(c) + 1, i <= j,
                      \A k \in i .. j - 1 : ~IsFrame(c[k])
               PROVE  new[j] = new[i] + (j - i)
    BY DEF InARow
  <2> i \in 1 .. n + 2 /\ j \in 1 .. n + 2
    BY <2>0
  <2>1. ASSUME NEW m \in 1 .. n + 1, i <= m, m <= j
        PROVE  off[m] = off[i] + (m - i)
    <3>1. i \in 1 .. n + 1
      BY <1>1, <2>1
    <3>2. \A k \in i .. m - 1 : k \in i .. j - 1 /\ k \in 1 .. n
      BY <1>1, <2>1
    <3>3. \A k \in i .. m - 1 : ~IsFrame(d[k])
      BY <1>3, <3>2
    <3> QED BY <2>1, <3>1, <3>3 DEF LaidOut, InARow, n
  <2>2. CASE j \in 1 .. n + 1
    <3>1. i \in 1 .. n + 1
      BY <1>1, <2>2
    <3>2. off[j] = off[i] + (j - i)
      BY <1>1, <2>1, <2>2
    <3> QED BY <1>6, <2>2, <3>1, <3>2
  <2>3. CASE j = n + 2 /\ i = n + 2
    BY <1>1, <1>2, <1>6, <2>3
  <2>4. CASE j = n + 2 /\ i \in 1 .. n + 1
    <3>1. n + 1 \in 1 .. n + 1 /\ i <= n + 1 /\ n + 1 <= j
      BY <1>1, <2>4
    <3>2. l = off[i] + ((n + 1) - i)
      BY <1>5, <2>1, <3>1
    <3>3. n + 1 \in i .. j - 1
      BY <1>1, <2>4, <3>1
    <3>4. ~IsFrame(x)
      BY <1>3, <3>3
    <3>5. w = 1
      BY <3>4 DEF w, ItemLength
    <3>6. off[i] \in Nat /\ new[i] = off[i] /\ new[j] = l + w
      BY <1>5, <1>6, <2>4
    <3>7. off[i] + ((n + 1) - i) + 1 = off[i] + ((n + 2) - i)
      BY <1>1, <3>6
    <3> QED BY <1>1, <2>4, <3>2, <3>5, <3>6, <3>7
  <2> QED BY <1>1, <2>2, <2>3, <2>4
<1>13. LaidOut(t, c, new)
  BY <1>8, <1>9, <1>10, <1>11, <1>12 DEF LaidOut
<1> QED BY <1>13 DEF t, c, y

(* The first m items and their bytes are taken away. *)
LEMMA LaidOutRemove ==
  ASSUME NEW s \in Seq(Octets), NEW d \in Seq(Items), NEW off, LaidOut(s, d, off),
         NEW m \in 1 .. Len(d)
  PROVE  /\ off[m + 1] \in 0 .. Len(s)
         /\ \E new : LaidOut(SubSeq(s, off[m + 1] + 1, Len(s)), SubSeq(d, m + 1, Len(d)), new)
<1> DEFINE n == Len(d)
           l == Len(s)
           o == off[m + 1]
           t == SubSeq(s, o + 1, l)
           c == SubSeq(d, m + 1, n)
           new == [j \in 1 .. n - m + 1 |-> off[j + m] - o]
<1>1. n \in Nat /\ l \in Nat /\ m \in Nat /\ 1 <= m /\ m <= n
  BY LenProperties
<1>2. /\ off \in [1 .. n + 1 -> Nat] /\ off[n + 1] = l
      /\ \A j \in 1 .. n : off[j + 1] = off[j] + ItemLength(d[j])
  BY DEF LaidOut, Offsets
<1>3. o \in Nat /\ o <= l
  <2>1. m + 1 \in 1 .. n + 1 /\ n + 1 \in 1 .. n + 1 /\ m + 1 <= n + 1
    BY <1>1
  <2>2. off[m + 1] <= off[n + 1]
    BY <2>1 DEF LaidOut, Ordered
  <2> QED BY <1>2, <2>1, <2>2
<1>4. /\ c \in Seq(Items) /\ Len(c) = n - m
      /\ \A j \in 1 .. n - m : c[j] = d[j + m]
  <2>1. /\ m + 1 \in Nat \ {0} /\ n \in Nat /\ m + 1 <= n + 1 /\ n <= Len(d)
        /\ n - (m + 1) + 1 = n - m /\ (m + 1) - 1 = m
    BY <1>1
  <2>2. /\ c \in Seq(Items) /\ Len(c) = n - (m + 1) + 1
        /\ \A j \in 1 .. n - (m + 1) + 1 : c[j] = d[j + ((m + 1) - 1)]
    <3> HIDE DEF n
    <3> QED BY <2>1, Slice
  <2> HIDE DEF c
  <2> QED BY <2>1, <2>2
<1>5. Len(t) = l - o /\ \A k \in 1 .. l - o : t[k] = s[k + o]
  <2>1. /\ o + 1 \in Nat \ {0} /\ o + 1 <= l + 1 /\ l - (o + 1) + 1 = l - o
        /\ (o + 1) - 1 = o
    BY <1>1, <1>3, SMTT(30)
  <2>2. /\ Len(t) = l - (o + 1) + 1
        /\ \A k \in 1 .. l - (o + 1) + 1 : t[k] = s[k + ((o + 1) - 1)]
    BY <1>1, <2>1, Slice
  <2> HIDE DEF t, o
  <2> QED BY <2>1, <2>2
<1>6. \A j \in 1 .. n + 1 - m : j + m \in m + 1 .. n + 1 /\ j + m \in 1 .. n + 1
  BY <1>1
<1>7. \A j \in m + 1 .. n + 1 : off[j] \in Nat /\ o <= off[j] /\ off[j] <= l
  <2> TAKE j \in m + 1 .. n + 1
  <2>1. /\ j \in 1 .. n + 1 /\ m + 1 \in 1 .. n + 1 /\ m + 1 <= j
        /\ n + 1 \in 1 .. n + 1 /\ j <= n + 1
    BY <1>1
  <2>2. off[m + 1] <= off[j] /\ off[j] <= off[n + 1]
    BY <2>1 DEF LaidOut, Ordered
  <2> QED BY <1>2, <2>1, <2>2
<1>8. /\ \A j \in 1 .. n - m + 1 : new[j] = off[j + m] - o
      /\ new \in [1 .. n - m + 1 -> Nat]
  <2>1. \A j \in 1 .. n - m + 1 : j + m \in m + 1 .. n + 1
    BY <1>1
  <2>2. \A j \in 1 .. n - m + 1 : off[j + m] - o \in Nat
    BY <1>3, <1>7, <2>1
  <2> QED BY <2>2
<1> HIDE DEF n, l, o, t, c, new
<1>9. Offsets(t, c, new)
  <2>1. /\ 1 \in 1 .. n - m + 1 /\ 1 + m = m + 1
        /\ n - m + 1 \in 1 .. n - m + 1 /\ (n - m + 1) + m = n + 1
    BY <1>1
  <2>2. new[1] = off[m + 1] - o /\ new[n - m + 1] = off[n + 1] - o
    BY <1>8, <2>1
  <2>3. new[1] = 0 /\ new[n - m + 1] = l - o
    BY <1>2, <1>3, <2>2 DEF o
  <2>4. ASSUME NEW j \in 1 .. n - m PROVE new[j + 1] = new[j] + ItemLength(c[j])
    <3>1. /\ j + 1 \in 1 .. n - m + 1 /\ j \in 1 .. n - m + 1 /\ j + m \in 1 .. n
          /\ (j + 1) + m = (j + m) + 1
      BY <1>1
    <3>2. new[j + 1] = off[(j + m) + 1] - o /\ new[j] = off[j + m] - o
      BY <1>8, <3>1
    <3>3. off[(j + m) + 1] = off[j + m] + ItemLength(d[j + m])
      BY <1>2, <3>1
    <3>4. c[j] = d[j + m]
      BY <1>4
    <3>5. off[j + m] \in Nat
      BY <1>2, <3>1, <1>1
    <3>6. ItemLength(d[j + m]) \in Nat
      <4>1. d[j + m] \in Items
        BY <3>1, ElementOfSeq DEF n
      <4> QED BY <4>1, ItemBytes
    <3> QED BY <1>3, <3>2, <3>3, <3>4, <3>5, <3>6
  <2> QED BY <1>4, <1>5, <1>8, <2>3, <2>4 DEF Offsets
<1>10. Ordered(c, new)
  <2> SUFFICES ASSUME NEW i \in 1 .. n - m + 1, NEW j \in 1 .. n - m + 1, i <= j
               PROVE  new[i] <= new[j]
    BY <1>1, <1>4 DEF Ordered
  <2>1. i + m \in 1 .. n + 1 /\ j + m \in 1 .. n + 1 /\ i + m <= j + m
    BY <1>1
  <2>2. off[i + m] <= off[j + m]
    BY <2>1 DEF LaidOut, Ordered, n
  <2>3. off[i + m] \in Nat /\ off[j + m] \in Nat
    BY <1>2, <2>1
  <2> QED BY <1>3, <1>8, <2>2, <2>3
<1>11. Filled(t, c, new)
  <2> SUFFICES ASSUME NEW j \in 1 .. Len(c), NEW k \in 1 .. ItemLength(c[j])
               PROVE  t[new[j] + k] = Encoding(c[j])[k]
    BY DEF Filled
  <2>1. /\ j \in 1 .. n - m + 1 /\ j + m \in 1 .. n /\ j + m \in m + 1 .. n + 1
        /\ (j + m) + 1 \in m + 1 .. n + 1
    BY <1>1, <1>4
  <2>2. c[j] = d[j + m]
    BY <1>4
  <2>3. k \in 1 .. ItemLength(d[j + m])
    BY <2>2
  <2>4. s[off[j + m] + k] = Encoding(d[j + m])[k]
    BY <2>1, <2>3 DEF LaidOut, Filled, n
  <2>5. off[j + m] \in Nat /\ o <= off[j + m] /\ off[(j + m) + 1] <= l
    BY <1>7, <2>1
  <2>6. off[(j + m) + 1] = off[j + m] + ItemLength(d[j + m])
    BY <1>2, <2>1
  <2>7. d[j + m] \in Items
    BY <2>1, ElementOfSeq DEF n
  <2>8. ItemLength(d[j + m]) \in Nat
    BY <2>7, ItemBytes
  <2>9. new[j] = off[j + m] - o
    BY <1>8, <2>1
  <2>10. new[j] + k \in 1 .. l - o /\ (new[j] + k) + o = off[j + m] + k
    <3> DEFINE a == off[j + m]
               b == off[(j + m) + 1]
               w == ItemLength(d[j + m])
    <3>1. /\ a \in Nat /\ w \in Nat /\ o <= a /\ b <= l /\ b = a + w
          /\ k \in 1 .. w /\ new[j] = a - o
      BY <2>3, <2>5, <2>6, <2>8, <2>9
    <3> HIDE DEF a, b, w
    <3>2. (a - o) + k \in 1 .. l - o /\ ((a - o) + k) + o = a + k
      BY <1>1, <1>3, <3>1
    <3> QED BY <3>1, <3>2 DEF a
  <2> QED BY <1>5, <2>2, <2>4, <2>10
<1>12. Covered(t, c, new)
  <2> SUFFICES ASSUME NEW p \in 1 .. l - o
               PROVE  \E j \in 1 .. n - m : new[j] < p /\ p <= new[j + 1]
    BY <1>4, <1>5 DEF Covered
  <2> DEFINE q == p + o
  <2>1. q \in 1 .. l /\ o < q /\ q - o = p
    BY <1>1, <1>3
  <2> HIDE DEF q
  <2>2. PICK j \in 1 .. n : off[j] < q /\ q <= off[j + 1]
    BY <2>1 DEF LaidOut, Covered, n, l
  <2>3. ~(j <= m)
    <3>1. ASSUME j <= m PROVE FALSE
      <4>1. /\ j + 1 \in 1 .. n + 1 /\ m + 1 \in 1 .. n + 1 /\ j + 1 <= m + 1
        BY <1>1, <3>1
      <4>2. off[j + 1] <= off[m + 1]
        BY <4>1 DEF LaidOut, Ordered, n
      <4>3. off[j + 1] \in Nat
        BY <1>2, <4>1
      <4> QED BY <1>3, <2>1, <2>2, <4>2, <4>3 DEF o
    <3> QED BY <3>1
  <2> DEFINE i == j - m
  <2>4. i \in 1 .. n - m /\ i \in 1 .. n - m + 1 /\ i + 1 \in 1 .. n - m + 1
        /\ i + m = j /\ (i + 1) + m = j + 1
    BY <1>1, <2>3
  <2> HIDE DEF i
  <2>5. new[i] = off[j] - o /\ new[i + 1] = off[j + 1] - o
    BY <1>8, <2>4
  <2>6. off[j] \in Nat /\ off[j + 1] \in Nat
    BY <1>1, <1>2
  <2>7. new[i] < p /\ p <= new[i + 1]
    BY <1>3, <2>1, <2>2, <2>5, <2>6
  <2> QED BY <2>4, <2>7
<1>13. InARow(c, new)
  <2>0. Len(c) + 1 = n - m + 1
    BY <1>1, <1>4
  <2> SUFFICES ASSUME NEW i \in 1 .. Len(c) + 1, NEW j \in 1 .. Len(c) + 1, i <= j,
                      \A k \in i .. j - 1 : ~IsFrame(c[k])
               PROVE  new[j] = new[i] + (j - i)
    BY DEF InARow
  <2>1. i \in 1 .. n - m + 1 /\ j \in 1 .. n - m + 1
    BY <2>0
  <2>2. i + m \in 1 .. n + 1 /\ j + m \in 1 .. n + 1 /\ i + m <= j + m
    BY <1>1, <2>1
  <2>3. ASSUME NEW k \in i + m .. (j + m) - 1 PROVE ~IsFrame(d[k])
    <3>1. k - m \in i .. j - 1 /\ k - m \in 1 .. n - m /\ (k - m) + m = k
      BY <1>1, <2>1
    <3> QED BY <1>4, <3>1
  <2>4. off[j + m] = off[i + m] + ((j + m) - (i + m))
    BY <2>2, <2>3 DEF LaidOut, InARow, n
  <2>5. off[i + m] \in Nat /\ off[j + m] \in Nat
    BY <1>2, <2>2
  <2>6. new[i] = off[i + m] - o /\ new[j] = off[j + m] - o
    BY <1>8, <2>1
  <2> QED BY <1>1, <1>3, <2>1, <2>4, <2>5, <2>6
<1>14. LaidOut(t, c, new)
  BY <1>9, <1>10, <1>11, <1>12, <1>13 DEF LaidOut
<1>15. o \in 0 .. l
  BY <1>1, <1>3
<1> QED BY <1>14, <1>15 DEF t, c, o, l, n

----------------------------------------------------------------------------
(* What a block holds does not depend on the bytes after it. *)
LEMMA MatchesConcat ==
  ASSUME NEW S, NEW s \in Seq(S), NEW t \in Seq(S), NEW h \in Headers, NEW i \in Nat,
         i + FrameLength(h) <= Len(s)
  PROVE  Matches(s \o t, i, h) <=> Matches(s, i, h)
<1> DEFINE n == FrameLength(h)
           c == s \o t
<1>1. n \in Nat /\ n >= 6 /\ Len(s) \in Nat
  BY HeaderLength, LenProperties
<1>2. \A k \in 1 .. Len(s) : c[k] = s[k]
  BY Joined
<1>3. /\ i + 1 \in 1 .. Len(s) /\ i + 2 \in 1 .. Len(s) /\ i + 3 \in 1 .. Len(s)
      /\ i + 4 \in 1 .. Len(s) /\ i + n - 1 \in 1 .. Len(s) /\ i + n \in 1 .. Len(s)
  BY <1>1
<1> HIDE DEF c
<1> QED BY <1>2, <1>3 DEF Matches, c

(* A part of a part. *)
LEMMA SliceOfSlice ==
  ASSUME NEW S, NEW s \in Seq(S), NEW a \in Nat, NEW b \in Nat, a + b <= Len(s)
  PROVE  LET t == SubSeq(s, a + 1, Len(s))
         IN  SubSeq(t, b + 1, Len(t)) = SubSeq(s, (a + b) + 1, Len(s))
<1> DEFINE l == Len(s)
           t == SubSeq(s, a + 1, l)
           u == SubSeq(t, b + 1, Len(t))
           v == SubSeq(s, (a + b) + 1, l)
<1>1. l \in Nat
  BY LenProperties
<1>2. t \in Seq(S) /\ Len(t) = l - a /\ \A k \in 1 .. l - a : t[k] = s[k + a]
  <2>1. /\ a + 1 \in Nat \ {0} /\ a + 1 <= l + 1 /\ l <= Len(s)
        /\ l - (a + 1) + 1 = l - a /\ (a + 1) - 1 = a
    BY <1>1
  <2>2. /\ t \in Seq(S) /\ Len(t) = l - (a + 1) + 1
        /\ \A k \in 1 .. l - (a + 1) + 1 : t[k] = s[k + ((a + 1) - 1)]
    <3> HIDE DEF l
    <3> QED BY <1>1, <2>1, Slice, SMTT(30)
  <2> HIDE DEF t
  <2> QED BY <2>1, <2>2
<1>3. /\ v \in Seq(S) /\ Len(v) = l - (a + b)
      /\ \A k \in 1 .. l - (a + b) : v[k] = s[k + (a + b)]
  <2> DEFINE o == a + b
  <2>1. /\ o + 1 \in Nat \ {0} /\ o + 1 <= l + 1 /\ l <= Len(s)
        /\ l - (o + 1) + 1 = l - o /\ (o + 1) - 1 = o
    BY <1>1
  <2>2. /\ SubSeq(s, o + 1, l) \in Seq(S) /\ Len(SubSeq(s, o + 1, l)) = l - (o + 1) + 1
        /\ \A k \in 1 .. l - (o + 1) + 1 :
             SubSeq(s, o + 1, l)[k] = s[k + ((o + 1) - 1)]
    <3> HIDE DEF l, o
    <3> QED BY <1>1, <2>1, Slice
  <2> QED BY <2>1, <2>2
<1> HIDE DEF t, v
<1>4. /\ u \in Seq(S) /\ Len(u) = l - (a + b)
      /\ \A k \in 1 .. l - (a + b) : u[k] = t[k + b]
  <2> DEFINE e == Len(t)
  <2>1. /\ b + 1 \in Nat \ {0} /\ e \in Nat /\ b + 1 <= e + 1 /\ e <= Len(t)
        /\ e - (b + 1) + 1 = l - (a + b) /\ (b + 1) - 1 = b
    BY <1>1, <1>2
  <2>2. t \in Seq(S)
    BY <1>2
  <2> HIDE DEF e
  <2>3. /\ SubSeq(t, b + 1, e) \in Seq(S)
        /\ Len(SubSeq(t, b + 1, e)) = e - (b + 1) + 1
        /\ \A k \in 1 .. e - (b + 1) + 1 :
             SubSeq(t, b + 1, e)[k] = t[k + ((b + 1) - 1)]
    BY <2>1, <2>2, Slice
  <2>4. u = SubSeq(t, b + 1, e)
    BY DEF e
  <2> HIDE DEF u
  <2> QED BY <2>1, <2>3, <2>4
<1> HIDE DEF u
<1>5. \A k \in 1 .. Len(u) : u[k] = v[k]
  <2> TAKE k \in 1 .. Len(u)
  <2>1. k \in 1 .. l - (a + b) /\ k + b \in 1 .. l - a /\ (k + b) + a = k + (a + b)
    BY <1>1, <1>4
  <2> QED BY <1>2, <1>3, <1>4, <2>1
<1>6. u \in Seq(S) /\ v \in Seq(S) /\ Len(u) = Len(v)
  BY <1>3, <1>4
<1>7. u = v
  BY <1>5, <1>6, SeqEqual
<1> QED BY <1>7 DEF t, u, v, l

(* What follows a prefix of the first part. *)
LEMMA SliceOfConcat ==
  ASSUME NEW S, NEW s \in Seq(S), NEW t \in Seq(S), NEW o \in Nat, o <= Len(s)
  PROVE  SubSeq(s, o + 1, Len(s)) \o t = SubSeq(s \o t, o + 1, Len(s \o t))
<1> DEFINE l == Len(s)
           c == s \o t
           u == SubSeq(s, o + 1, l)
           v == SubSeq(c, o + 1, Len(c))
           w == u \o t
<1>1. l \in Nat /\ Len(t) \in Nat
  BY LenProperties
<1>2. /\ c \in Seq(S) /\ Len(c) = l + Len(t)
      /\ \A k \in 1 .. l : c[k] = s[k]
      /\ \A k \in 1 .. Len(t) : c[l + k] = t[k]
  BY Joined
<1>3. o + 1 \in Nat \ {0} /\ (o + 1) - 1 = o /\ l - (o + 1) + 1 = l - o /\ o + 1 <= l + 1
  BY <1>1
<1>4. u \in Seq(S) /\ Len(u) = l - o /\ \A k \in 1 .. l - o : u[k] = s[k + o]
  <2>1. /\ u \in Seq(S) /\ Len(u) = l - (o + 1) + 1
        /\ \A k \in 1 .. l - (o + 1) + 1 : u[k] = s[k + ((o + 1) - 1)]
    <3>1. o + 1 \in Nat \ {0} /\ l \in Nat /\ o + 1 <= l + 1 /\ l <= Len(s)
      BY <1>1
    <3> HIDE DEF l
    <3> QED BY <3>1, Slice
  <2> HIDE DEF u
  <2> QED BY <1>3, <2>1
<1> HIDE DEF c, u, l
<1>5. /\ v \in Seq(S) /\ Len(v) = (l + Len(t)) - o
      /\ \A k \in 1 .. (l + Len(t)) - o : v[k] = c[k + o]
  <2> DEFINE e == Len(c)
  <2>1. e \in Nat /\ o + 1 <= e + 1 /\ e <= Len(c) /\ e - (o + 1) + 1 = (l + Len(t)) - o
    BY <1>1, <1>2, <1>3
  <2>2. c \in Seq(S) /\ o + 1 \in Nat \ {0}
    BY <1>2, <1>3
  <2> HIDE DEF e
  <2>3. /\ SubSeq(c, o + 1, e) \in Seq(S)
        /\ Len(SubSeq(c, o + 1, e)) = e - (o + 1) + 1
        /\ \A k \in 1 .. e - (o + 1) + 1 :
             SubSeq(c, o + 1, e)[k] = c[k + ((o + 1) - 1)]
    BY <2>1, <2>2, Slice
  <2>4. v = SubSeq(c, o + 1, e)
    BY DEF e
  <2> HIDE DEF v
  <2> QED BY <1>3, <2>1, <2>3, <2>4
<1>6. /\ w \in Seq(S) /\ Len(w) = Len(u) + Len(t)
      /\ \A k \in 1 .. Len(u) : w[k] = u[k]
      /\ \A k \in 1 .. Len(t) : w[Len(u) + k] = t[k]
  <2>1. u \in Seq(S) /\ t \in Seq(S)
    BY <1>4
  <2> QED BY <2>1, Joined
<1> HIDE DEF v, w
<1>7. \A k \in 1 .. Len(w) : w[k] = v[k]
  <2> TAKE k \in 1 .. Len(w)
  <2>0. k \in 1 .. (l + Len(t)) - o
    BY <1>1, <1>3, <1>4, <1>6
  <2>1. CASE k <= l - o
    <3>1. k \in 1 .. l - o /\ k + o \in 1 .. l
      BY <1>1, <2>1, <2>0
    <3> QED BY <1>2, <1>4, <1>5, <1>6, <2>0, <3>1
  <2>2. CASE ~(k <= l - o)
    <3> DEFINE j == k - (l - o)
    <3>1. j \in 1 .. Len(t) /\ (l - o) + j = k /\ l + j = k + o
      BY <1>1, <2>0, <2>2
    <3> HIDE DEF j
    <3>2. w[(l - o) + j] = t[j] /\ c[l + j] = t[j]
      BY <1>2, <1>4, <1>6, <3>1
    <3> QED BY <1>5, <2>0, <3>1, <3>2
  <2> QED BY <2>1, <2>2
<1>8. w \in Seq(S) /\ v \in Seq(S) /\ Len(w) = Len(v)
  BY <1>1, <1>3, <1>4, <1>5, <1>6
<1>9. w = v
  BY <1>7, <1>8, SeqEqual
<1> QED BY <1>9 DEF w, v, u, c, l

(* The bytes of the line move to the ring in their order. *)
LEMMA Moved ==
  ASSUME NEW S, NEW s \in Seq(S), NEW t \in Seq(S), NEW a \in 0 .. Len(t)
  PROVE  /\ SubSeq(t, 1, a) \in Seq(S) /\ SubSeq(t, a + 1, Len(t)) \in Seq(S)
         /\ s \o SubSeq(t, 1, a) \in Seq(S)
         /\ Len(s \o SubSeq(t, 1, a)) = Len(s) + a
<1> DEFINE x == SubSeq(t, 1, a)
           y == SubSeq(t, a + 1, Len(t))
<1>1. Len(t) \in Nat /\ Len(s) \in Nat /\ a \in Nat
  BY LenProperties
<1>2. x \in Seq(S) /\ Len(x) = a
  <2>1. 1 \in Nat \ {0} /\ 1 <= a + 1 /\ a <= Len(t) /\ a - 1 + 1 = a
    BY <1>1
  <2>2. x \in Seq(S) /\ Len(x) = a - 1 + 1
    BY <1>1, <2>1, Slice
  <2> QED BY <2>1, <2>2
<1>3. y \in Seq(S)
  <2>1. a + 1 \in Nat \ {0} /\ a + 1 <= Len(t) + 1
    BY <1>1
  <2> QED BY <1>1, <2>1, Slice
<1> HIDE DEF x, y
<1>5. s \o x \in Seq(S) /\ Len(s \o x) = Len(s) + Len(x)
  BY <1>2, Joined
<1>6. Len(s \o x) = Len(s) + a
  BY <1>2, <1>5
<1> QED BY <1>2, <1>3, <1>5, <1>6 DEF x, y

LEMMA MovedInOrder ==
  ASSUME NEW S, NEW s \in Seq(S), NEW t \in Seq(S), NEW a \in 0 .. Len(t)
  PROVE  (s \o SubSeq(t, 1, a)) \o SubSeq(t, a + 1, Len(t)) = s \o t
<1> DEFINE x == SubSeq(t, 1, a)
           y == SubSeq(t, a + 1, Len(t))
<1>1. Len(t) \in Nat /\ a \in Nat
  BY LenProperties
<1>2. x \in Seq(S) /\ y \in Seq(S)
  BY Moved
<1>3. x \o y = t
  <2>1. 1 \in 1 .. Len(t) + 1 /\ a \in 1 - 1 .. Len(t) /\ Len(t) \in a .. Len(t)
    BY <1>1
  <2>2. SubSeq(t, 1, a) \o SubSeq(t, a + 1, Len(t)) = SubSeq(t, 1, Len(t))
    BY <2>1, ConcatAdjacentSubSeq
  <2>3. SubSeq(t, 1, Len(t)) = t
    BY SubSeqFull
  <2> QED BY <2>2, <2>3
<1> HIDE DEF x, y
<1>4. (s \o x) \o y = s \o (x \o y)
  BY <1>2, ConcatAssociative, SMTT(30)
<1> QED BY <1>3, <1>4 DEF x, y

----------------------------------------------------------------------------
(* The invariant: types, what is due lies in the ring and on the line, and *)
(* what was dispatched last was due.                                       *)
TypeInv ==
  /\ ring \in Seq(Octets) /\ wire \in Seq(Octets)
  /\ r \in Index /\ Len(ring) <= Capacity
  /\ due \in Seq(Items)
  /\ got.frame \in Frames \cup {NoFrame}
StreamInv == \E off : LaidOut(ring \o wire, due, off)

BufferInv == TypeInv /\ StreamInv /\ InOrder

(* The block the scan looks at lies in the ring and in Room. *)
LEMMA LinearFits ==
  ASSUME r \in Index, NEW ringNow, Len(ringNow) \in Nat, Len(ringNow) <= Capacity
  PROVE  /\ Linear(ringNow) \in 0 .. Len(ringNow)
         /\ Linear(ringNow) <= Room /\ r + Linear(ringNow) <= Size
BY SizeAssumption DEF Index, Capacity, Linear, LinearReadLength, Wrap, Room, Lesser

(* What cmux_buffer_ingest finds: the first frame due, whole before the    *)
(* end of the array; it comes out of the ring with the noise before it.    *)
LEMMA Finds ==
  ASSUME BufferInv, NEW ringNow \in Seq(Octets), NEW rest \in Seq(Octets),
         Len(ringNow) <= Capacity, ringNow \o rest = ring \o wire,
         NEW off, LaidOut(ringNow \o rest, due, off),
         Scan(ringNow) # {}, Process(ringNow)
  PROVE  /\ Leading \in 1 .. Len(due) /\ IsFrame(due[Leading])
         /\ Leading - 1 + FrameLength(due[Leading].header) <= Room
         /\ due' = SubSeq(due, Leading + 1, Len(due))
         /\ got' = [frame |-> due[Leading], due |-> due[Leading]]
         /\ off[Leading + 1] \in Nat /\ off[Leading + 1] <= Len(ringNow)
         /\ ring' = SubSeq(ringNow, off[Leading + 1] + 1, Len(ringNow))
         /\ r' \in Index
<1> DEFINE l == Len(ringNow)
           e == Linear(ringNow)
           c == ringNow \o rest
           m == Leading
           i == CHOOSE x \in Scan(ringNow) : \A k \in Scan(ringNow) : x <= k
           s == SubSeq(ringNow, i + 1, l)
           h == CHOOSE x \in Headers : StartsWith(s, x)
<1>1. l \in Nat /\ due \in Seq(Items) /\ r \in Index
  BY LenProperties DEF BufferInv, TypeInv
<1>2. e \in 0 .. l /\ e <= Room /\ r + e <= Size
  BY <1>1, LinearFits
<1>3. /\ c \in Seq(Octets) /\ Len(c) \in Nat /\ l <= Len(c)
  <2>1. c \in Seq(Octets) /\ Len(c) = Len(ringNow) + Len(rest)
    BY Joined
  <2>2. Len(rest) \in Nat
    BY LenProperties
  <2> QED BY <1>1, <2>1, <2>2
<1>4. \A k \in Nat : \A g \in Headers :
        k + FrameLength(g) <= e => (Matches(c, k, g) <=> Matches(ringNow, k, g))
  <2> SUFFICES ASSUME NEW k \in Nat, NEW g \in Headers, k + FrameLength(g) <= e
               PROVE  Matches(c, k, g) <=> Matches(ringNow, k, g)
    OBVIOUS
  <2>1. k + FrameLength(g) <= Len(ringNow)
    BY <1>1, <1>2, HeaderLength
  <2> QED BY <2>1, MatchesConcat
<1>5. Scan(ringNow) = {k \in 0 .. e - 1 : \E g \in Headers :
                         k + FrameLength(g) <= e /\ Matches(c, k, g)}
  <2>1. \A k \in 0 .. e - 1 : \A g \in Headers :
          StartsWith(SubSeq(ringNow, k + 1, e), g) <=>
            k + FrameLength(g) <= e /\ Matches(ringNow, k, g)
    BY <1>2, StartsAt
  <2>2. \A k \in 0 .. e - 1 : k \in Nat
    OBVIOUS
  <2> HIDE DEF e, c
  <2> QED BY <1>4, <2>1, <2>2 DEF Scan, e
<1>6. i \in Scan(ringNow) /\ \A k \in Scan(ringNow) : i <= k
  <2>1. Scan(ringNow) \subseteq Nat
    BY <1>1, <1>2 DEF Scan
  <2> QED BY <2>1, LeastElement
<1> HIDE DEF i
<1>7. i \in 0 .. e - 1 /\ i \in Nat
  BY <1>2, <1>5, <1>6
<1>8. PICK g \in Headers : i + FrameLength(g) <= e /\ Matches(c, i, g)
  BY <1>5, <1>6
<1>9. /\ m \in 1 .. Len(due) /\ off[m] = i /\ i = m - 1 /\ due[m].header = g
      /\ IsFrame(due[m])
  <2>1. \A k \in 0 .. i - 1 : \A x \in Headers :
          ~(k + FrameLength(x) <= e /\ Matches(c, k, x))
    <3> SUFFICES ASSUME NEW k \in 0 .. i - 1, NEW x \in Headers,
                        k + FrameLength(x) <= e, Matches(c, k, x)
                 PROVE  FALSE
      OBVIOUS
    <3>1. k \in 0 .. e - 1 /\ ~(i <= k)
      BY <1>2, <1>7
    <3> QED BY <1>5, <1>6, <3>1
  <2>2. e \in 0 .. Len(c)
    BY <1>1, <1>2, <1>3
  <2>3. m = SelectInSeq(due, IsFrame)
    BY DEF Leading
  <2>4. m \in 1 .. Len(due) /\ off[m] = i /\ i = m - 1 /\ due[m].header = g
    <3>1. LaidOut(c, due, off) /\ due \in Seq(Items)
      BY <1>1
    <3>2. Len(c) \in Nat /\ i \in Nat /\ i + FrameLength(g) <= e /\ Matches(c, i, g)
      BY <1>3, <1>7, <1>8
    <3> HIDE DEF c, m, e
    <3> QED BY <2>1, <2>2, <2>3, <3>1, <3>2, FirstMatch
  <2>5. m # 0 => IsFrame(due[m])
    BY <1>1, <2>3, FirstFrame
  <2> QED BY <2>4, <2>5
<1>10. off[m + 1] = i + FrameLength(g) /\ FrameLength(g) \in Nat /\ FrameLength(g) >= 6
  <2>1. off[m + 1] = off[m] + FrameLength(due[m].header)
    <3>1. due \in Seq(Items) /\ m \in 1 .. Len(due) /\ IsFrame(due[m])
      BY <1>1, <1>9
    <3>2. LaidOut(c, due, off)
      OBVIOUS
    <3> HIDE DEF m, c
    <3> QED BY <3>1, <3>2, FrameMatches
  <2>2. off[m] = i /\ due[m].header = g
    BY <1>9
  <2>3. FrameLength(g) \in Nat /\ FrameLength(g) >= 6
    BY HeaderLength
  <2> QED BY <2>1, <2>2, <2>3
<1> HIDE DEF m
<1>11. h = g
  <2>1. i \in 0 .. l - 1 /\ l \in 0 .. Len(ringNow) /\ l <= Len(ringNow)
    BY <1>1, <1>2, <1>7
  <2>2. \A x \in Headers : StartsWith(s, x) <=> i + FrameLength(x) <= l /\ Matches(ringNow, i, x)
    BY <2>1, StartsAt
  <2>3. i + FrameLength(g) <= l /\ Matches(ringNow, i, g)
    BY <1>1, <1>2, <1>4, <1>7, <1>8, <1>10
  <2> HIDE DEF s
  <2>4. h \in Headers /\ Matches(ringNow, i, h)
    BY <2>2, <2>3
  <2>5. Byte("address", h) = Byte("address", g)
    BY <2>3, <2>4 DEF Matches
  <2> QED BY <2>5 DEF Byte
<1>12. /\ ring' = SubSeq(s, FrameLength(h) + 1, Len(s))
       /\ r' = Wrap(Wrap(r + i) + FrameLength(h))
       /\ Dispatches(Parse(s, h))
  BY DEF Process, i
<1>13. Parse(s, h) = due[m]
  <2>1. off[m] + FrameLength(due[m].header) <= Len(ringNow)
    <3>1. off[m] = i /\ due[m].header = g
      BY <1>9
    <3>2. i + FrameLength(g) <= l
      BY <1>1, <1>2, <1>7, <1>8, <1>10
    <3> QED BY <3>1, <3>2
  <2>2. Parse(SubSeq(ringNow, off[m] + 1, Len(ringNow)), due[m].header) = due[m]
    <3>1. due \in Seq(Items) /\ m \in 1 .. Len(due) /\ IsFrame(due[m])
      BY <1>1, <1>9
    <3> QED BY <2>1, <3>1, Parsed
  <2>3. off[m] = i /\ due[m].header = h
    <3> HIDE DEF h
    <3> QED BY <1>9, <1>11
  <2> HIDE DEF h
  <2> QED BY <2>2, <2>3
<1>14. SubSeq(s, FrameLength(h) + 1, Len(s)) = SubSeq(ringNow, off[m + 1] + 1, l)
  <2>1. i + FrameLength(g) <= Len(ringNow)
    BY <1>1, <1>2, <1>7, <1>8, <1>10
  <2> DEFINE n == FrameLength(g)
  <2>2. n \in Nat /\ i \in Nat /\ i + n <= Len(ringNow)
    BY <1>7, <1>10, <2>1
  <2>3. n = FrameLength(h) /\ off[m + 1] = i + n
    <3> HIDE DEF h
    <3> QED BY <1>10, <1>11
  <2> HIDE DEF n, h
  <2>4. SubSeq(s, n + 1, Len(s)) = SubSeq(ringNow, (i + n) + 1, Len(ringNow))
    BY <2>2, SliceOfSlice
  <2> QED BY <2>3, <2>4
<1>15. due' = SubSeq(due, m + 1, Len(due)) /\ got' = [frame |-> due[m], due |-> due[m]]
  <2>1. m # 0 /\ m \in 1 .. Len(due) /\ Len(due) \in m .. Len(due)
    BY <1>1, <1>9, LenProperties
  <2>2. Tail(SubSeq(due, m, Len(due))) = SubSeq(due, m + 1, Len(due))
    BY <1>1, <2>1, HeadTailOfSubSeq
  <2> QED BY <1>12, <1>13, <2>1, <2>2 DEF Dispatches, FromFrame, DueFrame, m
<1>16. r' \in Index
  <2> DEFINE n == FrameLength(g)
  <2>1. /\ i \in Nat /\ n \in Nat /\ n >= 6 /\ r \in Nat /\ Size \in Nat
        /\ i + n <= e /\ r + e <= Size /\ e \in Nat
    BY <1>1, <1>2, <1>7, <1>8, <1>10, SizeAssumption DEF Index
  <2>2. r' = Wrap(Wrap(r + i) + n)
    BY <1>11, <1>12
  <2> HIDE DEF n, e
  <2>3. r + i < Size /\ r + i + n <= Size
    BY <2>1
  <2> QED BY <2>1, <2>2, <2>3 DEF Wrap, Index
<1>17. m - 1 + FrameLength(due[m].header) <= Room
  <2>1. m - 1 + FrameLength(due[m].header) <= e
    BY <1>8, <1>9
  <2>2. Room \in Int
    BY SizeAssumption, <1>1 DEF Room, Lesser, Capacity, Index
  <2> QED BY <1>2, <1>7, <1>9, <1>10, <2>1, <2>2
<1>18. off[m + 1] \in Nat /\ off[m + 1] <= l
  BY <1>1, <1>2, <1>7, <1>8, <1>10
<1> QED BY <1>9, <1>12, <1>14, <1>15, <1>16, <1>17, <1>18 DEF m

(* One call of cmux_buffer_ingest changes nothing but where the bytes lie, *)
(* or dispatches the frame due next and leaves what comes after it.        *)
Idle == due' = due /\ got' = got /\ r' = r /\ ring' \o wire' = ring \o wire
Dispatched ==
  /\ Leading \in 1 .. Len(due) /\ IsFrame(due[Leading])
  /\ Leading - 1 + FrameLength(due[Leading].header) <= Room
  /\ due' = SubSeq(due, Leading + 1, Len(due))
  /\ got' = [frame |-> due[Leading], due |-> due[Leading]]
  /\ \E off : LaidOut(ring' \o wire', due', off)

LEMMA IngestOutcome ==
  ASSUME BufferInv, NEW n \in 1 .. MaxChunk, Ingest(n)
  PROVE  /\ ring' \in Seq(Octets) /\ wire' \in Seq(Octets)
         /\ r' \in Index /\ Len(ring') <= Capacity
         /\ Idle \/ Dispatched
<1> DEFINE a == Lesser(n, Capacity - Len(ring))
           x == ring \o SubSeq(wire, 1, a)
           y == SubSeq(wire, a + 1, Len(wire))
           m == Leading
<1>1. /\ ring \in Seq(Octets) /\ wire \in Seq(Octets) /\ due \in Seq(Items)
      /\ r \in Index /\ Len(ring) <= Capacity
  BY DEF BufferInv, TypeInv
<1>2. Len(ring) \in Nat /\ Len(wire) \in Nat /\ n \in Nat /\ n <= Len(wire)
      /\ Capacity \in Nat
  BY <1>1, LenProperties, BoundsAssumption, SizeAssumption DEF Ingest, Capacity
<1>3. a \in 0 .. Len(wire) /\ Len(ring) + a <= Capacity
  BY <1>1, <1>2 DEF Lesser
<1>4. Process(x) /\ wire' = y
  BY DEF Ingest
<1> HIDE DEF a
<1>5. /\ x \in Seq(Octets) /\ Len(x) = Len(ring) + a /\ y \in Seq(Octets)
      /\ x \o y = ring \o wire
  <2>1. ring \in Seq(Octets) /\ wire \in Seq(Octets) /\ a \in 0 .. Len(wire)
    BY <1>1, <1>3
  <2>2. ring \o SubSeq(wire, 1, a) \in Seq(Octets)
    BY <2>1, Moved
  <2>3. Len(ring \o SubSeq(wire, 1, a)) = Len(ring) + a
    BY <2>1, Moved
  <2>4. SubSeq(wire, a + 1, Len(wire)) \in Seq(Octets)
    BY <2>1, Moved
  <2>5. (ring \o SubSeq(wire, 1, a)) \o SubSeq(wire, a + 1, Len(wire)) = ring \o wire
    BY <2>1, MovedInOrder
  <2> QED BY <2>2, <2>3, <2>4, <2>5
<1> HIDE DEF x, y
<1>6. Len(x) <= Capacity /\ Len(x) \in Nat
  BY <1>2, <1>3, <1>5
<1>7. CASE Scan(x) = {}
  <2>1. ring' = x /\ r' = r /\ due' = due /\ got' = got
    BY <1>4, <1>7 DEF Process
  <2>2. Idle
    BY <1>4, <1>5, <2>1 DEF Idle
  <2>3. x \in Seq(Octets) /\ y \in Seq(Octets) /\ r \in Index
    BY <1>1, <1>5
  <2>4. ring' \in Seq(Octets) /\ wire' \in Seq(Octets) /\ r' \in Index
    BY <1>4, <2>1, <2>3
  <2>5. Len(ring') <= Capacity
    BY <1>6, <2>1
  <2> QED BY <2>2, <2>4, <2>5
<1>8. CASE Scan(x) # {}
  <2>1. PICK off : LaidOut(x \o y, due, off)
    BY <1>5 DEF BufferInv, StreamInv
  <2> DEFINE o == off[m + 1]
             c == x \o y
  <2>2. /\ m \in 1 .. Len(due) /\ IsFrame(due[m])
        /\ m - 1 + FrameLength(due[m].header) <= Room
        /\ due' = SubSeq(due, m + 1, Len(due))
        /\ got' = [frame |-> due[m], due |-> due[m]]
        /\ o \in Nat /\ o <= Len(x)
        /\ ring' = SubSeq(x, o + 1, Len(x))
        /\ r' \in Index
    BY <1>4, <1>5, <1>6, <1>8, <2>1, Finds
  <2> HIDE DEF m, o
  <2>3. ring' \in Seq(Octets) /\ Len(ring') <= Capacity
    <3>1. /\ o + 1 \in Nat \ {0} /\ Len(x) \in Nat /\ o + 1 <= Len(x) + 1
          /\ Len(x) <= Len(x)
      BY <1>6, <2>2
    <3>2. x \in Seq(Octets)
      BY <1>5
    <3>3. /\ SubSeq(x, o + 1, Len(x)) \in Seq(Octets)
          /\ Len(SubSeq(x, o + 1, Len(x))) = Len(x) - (o + 1) + 1
      BY <3>1, <3>2, Slice
    <3>4. ring' \in Seq(Octets) /\ Len(ring') = Len(x) - (o + 1) + 1
      BY <2>2, <3>3
    <3> QED BY <1>2, <1>6, <2>2, <3>4
  <2>4. ring' \o wire' = SubSeq(c, o + 1, Len(c))
    <3>1. x \in Seq(Octets) /\ y \in Seq(Octets) /\ o \in Nat /\ o <= Len(x)
      BY <1>5, <2>2
    <3>2. SubSeq(x, o + 1, Len(x)) \o y = SubSeq(c, o + 1, Len(c))
      BY <3>1, SliceOfConcat
    <3> QED BY <1>4, <2>2, <3>2
  <2>5. \E new : LaidOut(SubSeq(c, o + 1, Len(c)), SubSeq(due, m + 1, Len(due)), new)
    <3>1. c \in Seq(Octets)
      BY <1>5, Joined
    <3>2. LaidOut(c, due, off) /\ due \in Seq(Items) /\ m \in 1 .. Len(due)
      BY <1>1, <2>1, <2>2
    <3> HIDE DEF c
    <3> QED BY <3>1, <3>2, LaidOutRemove DEF o
  <2>6. \E new : LaidOut(ring' \o wire', due', new)
    <3> HIDE DEF c
    <3> QED BY <2>2, <2>4, <2>5
  <2>7. Dispatched
    BY <2>2, <2>6 DEF Dispatched, m
  <2> QED BY <1>4, <1>5, <2>2, <2>3, <2>7
<1> QED BY <1>7, <1>8

LEMMA BufferInitially == Init => BufferInv
<1> SUFFICES ASSUME Init PROVE BufferInv
  OBVIOUS
<1> DEFINE off == [j \in 1 .. 1 |-> 0]
<1>1. ring = <<>> /\ wire = <<>> /\ due = <<>> /\ r = 0
      /\ got = [frame |-> NoFrame, due |-> NoFrame]
  BY DEF Init
<1>2. TypeInv
  BY <1>1, SizeAssumption DEF TypeInv, Index, Capacity
<1>3. ring \o wire = <<>> /\ Len(due) = 0 /\ Len(<<>>) = 0
  BY <1>1
<1>4. Offsets(<<>>, due, off) /\ Ordered(due, off) /\ Filled(<<>>, due, off)
  BY <1>3 DEF Offsets, Ordered, Filled
<1>5. Covered(<<>>, due, off) /\ InARow(due, off)
  BY <1>3 DEF Covered, InARow
<1>6. StreamInv
  BY <1>3, <1>4, <1>5 DEF StreamInv, LaidOut
<1> QED BY <1>1, <1>2, <1>6 DEF BufferInv, InOrder

(* An item goes on the line. *)
LEMMA Queued ==
  ASSUME BufferInv, NEW b \in Items, wire' = wire \o Encoding(b), due' = Append(due, b),
         UNCHANGED <<ring, r, got>>
  PROVE  BufferInv'
<1>1. /\ ring \in Seq(Octets) /\ wire \in Seq(Octets) /\ due \in Seq(Items)
      /\ Encoding(b) \in Seq(Octets)
  BY ItemBytes DEF BufferInv, TypeInv
<1>2. wire' \in Seq(Octets) /\ ring \o wire \in Seq(Octets)
  <2>1. wire \o Encoding(b) \in Seq(Octets)
    BY <1>1, Joined
  <2> QED BY <1>1, <2>1, Joined
<1>3. due' \in Seq(Items)
  BY <1>1, AppendProperties
<1>4. TypeInv'
  BY <1>1, <1>2, <1>3 DEF BufferInv, TypeInv
<1>5. ring' \o wire' = (ring \o wire) \o Encoding(b)
  <2>1. (ring \o wire) \o Encoding(b) = ring \o (wire \o Encoding(b))
    BY <1>1, ConcatAssociative, SMTT(30)
  <2> QED BY <2>1
<1>6. StreamInv'
  <2> DEFINE c == ring \o wire
  <2>1. PICK off : LaidOut(c, due, off)
    BY DEF BufferInv, StreamInv
  <2>2. c \in Seq(Octets) /\ due \in Seq(Items)
    BY <1>1, <1>2
  <2> HIDE DEF c
  <2>3. \E new : LaidOut(c \o Encoding(b), Append(due, b), new)
    BY <2>1, <2>2, LaidOutAppend
  <2>4. \E new : LaidOut(ring' \o wire', due', new)
    BY <1>5, <2>3 DEF c
  <2> QED BY <2>4 DEF StreamInv
<1> QED BY <1>4, <1>6 DEF BufferInv, InOrder

LEMMA SendQueues ==
  ASSUME NEW f \in Frames, Send(f)
  PROVE  /\ f \in Items /\ wire' = wire \o Encoding(f) /\ due' = Append(due, f)
         /\ UNCHANGED <<ring, r, got>>
BY DEF Send, Items, Encoding, IsFrame

LEMMA DisturbQueues ==
  ASSUME BufferInv, NEW b \in Noise, Disturb(b)
  PROVE  /\ b \in Items /\ wire' = wire \o Encoding(b) /\ due' = Append(due, b)
         /\ UNCHANGED <<ring, r, got>>
<1>1. ~IsFrame(b)
  BY NoiseIsNoFrame
<1>2. b \in Octets /\ wire \in Seq(Octets)
  BY DEF Octets, BufferInv, TypeInv
<1>3. Append(wire, b) = wire \o <<b>>
  BY <1>2, AppendIsConcat
<1> QED BY <1>1, <1>3 DEF Disturb, Items, Encoding

(* Every step keeps the invariant. *)
LEMMA BufferKept == BufferInv /\ [Next]_vars => BufferInv'
<1> SUFFICES ASSUME BufferInv, [Next]_vars PROVE BufferInv'
  OBVIOUS
<1>1. CASE SendAny
  <2>1. PICK f \in Frames : Send(f)
    BY <1>1 DEF SendAny
  <2> QED BY <2>1, SendQueues, Queued
<1>2. CASE DisturbAny
  <2>1. PICK b \in Noise : Disturb(b)
    BY <1>2 DEF DisturbAny
  <2> QED BY <2>1, DisturbQueues, Queued
<1>3. CASE IngestAny
  <2>1. PICK n \in 1 .. MaxChunk : Ingest(n)
    BY <1>3 DEF IngestAny
  <2>2. /\ ring' \in Seq(Octets) /\ wire' \in Seq(Octets)
        /\ r' \in Index /\ Len(ring') <= Capacity
        /\ Idle \/ Dispatched
    BY <2>1, IngestOutcome
  <2>3. CASE Idle
    <3>1. TypeInv'
      BY <2>2, <2>3 DEF BufferInv, TypeInv, Idle
    <3>2. StreamInv'
      BY <2>3 DEF BufferInv, StreamInv, Idle
    <3> QED BY <2>3, <3>1, <3>2 DEF BufferInv, InOrder, Idle
  <2>4. CASE Dispatched
    <3> DEFINE m == Leading
    <3>1. /\ m \in 1 .. Len(due) /\ IsFrame(due[m])
          /\ due' = SubSeq(due, m + 1, Len(due))
          /\ got' = [frame |-> due[m], due |-> due[m]]
      BY <2>4 DEF Dispatched
    <3> HIDE DEF m
    <3>2. due \in Seq(Items) /\ Len(due) \in Nat
      BY LenProperties DEF BufferInv, TypeInv
    <3>3. due' \in Seq(Items)
      <4>1. m + 1 \in Nat \ {0} /\ m + 1 <= Len(due) + 1
        BY <3>1, <3>2
      <4>2. SubSeq(due, m + 1, Len(due)) \in Seq(Items)
        BY <3>2, <4>1, Slice
      <4> QED BY <3>1, <4>2
    <3>4. got'.frame \in Frames /\ got'.frame = got'.due
      BY <3>1 DEF IsFrame
    <3>5. TypeInv'
      BY <2>2, <3>3, <3>4 DEF TypeInv
    <3>6. StreamInv'
      BY <2>4 DEF Dispatched, StreamInv
    <3> QED BY <3>4, <3>5, <3>6 DEF BufferInv, InOrder
  <2> QED BY <2>2, <2>3, <2>4
<1>4. CASE UNCHANGED vars
  <2>1. UNCHANGED <<ring, r, wire, due, got>>
    BY <1>4 DEF vars
  <2> QED BY <2>1 DEF BufferInv, TypeInv, StreamInv, InOrder
<1> QED BY <1>1, <1>2, <1>3, <1>4 DEF Next

(* Types, the stream and the order hold always. *)
THEOREM BufferInvariance == Spec => []BufferInv
<1>1. Init => BufferInv
  BY BufferInitially
<1>2. BufferInv /\ [Next]_vars => BufferInv'
  BY BufferKept
<1> QED BY <1>1, <1>2, PTL DEF Spec

(* The read index stays in the array, the ring keeps a cell free, and what *)
(* is dispatched is a frame.                                               *)
THEOREM BufferTypeCorrect == Spec => []TypeOK
<1>1. BufferInv => TypeOK
  BY DEF BufferInv, TypeInv, TypeOK, Items
<1> QED BY <1>1, BufferInvariance, PTL

(* However the line cuts the frames, whatever noise it adds and wherever   *)
(* they lie in the ring, those dispatched are those that were sent, in     *)
(* their order, each once and none passed over.                            *)
THEOREM DispatchedInOrder == Spec => []InOrder
<1>1. BufferInv => InOrder
  BY DEF BufferInv
<1> QED BY <1>1, BufferInvariance, PTL

----------------------------------------------------------------------------
(* The first frame due, when one more item is. *)
LEMMA LeadingAppend ==
  ASSUME NEW d \in Seq(Items), NEW b \in Items
  PROVE  LET m == SelectInSeq(d, IsFrame)
             w == SelectInSeq(Append(d, b), IsFrame)
         IN  /\ m \in 0 .. Len(d)
             /\ m # 0 => w = m
             /\ m = 0 /\ IsFrame(b) => w = Len(d) + 1
             /\ m = 0 /\ ~IsFrame(b) => w = 0
<1> DEFINE m == SelectInSeq(d, IsFrame)
           c == Append(d, b)
           w == SelectInSeq(c, IsFrame)
           n == Len(d)
<1>1. n \in Nat
  BY LenProperties
<1>2. /\ c \in Seq(Items) /\ Len(c) = n + 1 /\ c[n + 1] = b
      /\ \A k \in 1 .. n : c[k] = d[k]
  BY AppendProperties
<1>3. /\ m \in 0 .. n
      /\ m = 0 => \A k \in 1 .. n : ~IsFrame(d[k])
      /\ m # 0 => IsFrame(d[m]) /\ \A k \in 1 .. m - 1 : ~IsFrame(d[k])
  BY FirstFrame
<1>4. /\ w \in 0 .. Len(c)
      /\ w = 0 => \A k \in 1 .. Len(c) : ~IsFrame(c[k])
      /\ w # 0 => IsFrame(c[w]) /\ \A k \in 1 .. w - 1 : ~IsFrame(c[k])
  <2>1. c \in Seq(Items)
    BY <1>2
  <2> HIDE DEF c
  <2> QED BY <2>1, FirstFrame
<1> HIDE DEF m, c, w, n
<1>5. ASSUME m # 0 PROVE w = m
  <2>1. m \in 1 .. n /\ m \in 1 .. Len(c) /\ IsFrame(c[m])
    BY <1>1, <1>2, <1>3, <1>5
  <2>2. w # 0
    BY <1>4, <2>1
  <2>3. ~(w < m)
    <3>1. ASSUME w < m PROVE FALSE
      <4>1. w \in 1 .. m - 1 /\ w \in 1 .. n
        BY <1>1, <1>2, <1>4, <2>1, <2>2, <3>1
      <4> QED BY <1>2, <1>3, <1>4, <1>5, <2>2, <4>1
    <3> QED BY <3>1
  <2>4. ~(m < w)
    <3>1. ASSUME m < w PROVE FALSE
      <4>1. m \in 1 .. w - 1
        BY <1>1, <1>2, <1>4, <2>1, <3>1
      <4> QED BY <1>4, <2>1, <2>2, <4>1
    <3> QED BY <3>1
  <2>5. w \in Int /\ m \in Int
    BY <1>1, <1>2, <1>4, <2>1
  <2> QED BY <2>3, <2>4, <2>5
<1>6. ASSUME m = 0, IsFrame(b) PROVE w = n + 1
  <2>1. n + 1 \in 1 .. Len(c) /\ IsFrame(c[n + 1])
    BY <1>1, <1>2, <1>6
  <2>2. w # 0
    BY <1>4, <2>1
  <2>3. ~(w \in 1 .. n)
    BY <1>2, <1>3, <1>4, <1>6, <2>2
  <2> QED BY <1>1, <1>2, <1>4, <2>2, <2>3
<1>7. ASSUME m = 0, ~IsFrame(b) PROVE w = 0
  <2>1. ASSUME w # 0 PROVE FALSE
    <3>1. w \in 1 .. n \/ w = n + 1
      BY <1>1, <1>2, <1>4, <2>1
    <3> QED BY <1>2, <1>3, <1>4, <1>7, <2>1, <3>1
  <2> QED BY <2>1
<1> QED BY <1>3, <1>5, <1>6, <1>7 DEF m, c, w, n

(* A ring that is deaf stays so when more comes. *)
LEMMA DeafAppend ==
  ASSUME BufferInv, Deaf, NEW b \in Items, due' = Append(due, b), r' = r
  PROVE  Deaf' /\ ~Dispatch
<1> DEFINE m == Leading
           n == Len(due)
<1>1. due \in Seq(Items) /\ n \in Nat /\ r \in Index
  BY LenProperties DEF BufferInv, TypeInv
<1>2. /\ Len(due') = n + 1 /\ due'[n + 1] = b
      /\ \A k \in 1 .. n : due'[k] = due[k]
  BY <1>1, AppendProperties
<1>3. Leading' = SelectInSeq(Append(due, b), IsFrame) /\ m = SelectInSeq(due, IsFrame)
  BY DEF Leading
<1>4. /\ m \in 0 .. n
      /\ m # 0 => Leading' = m
      /\ m = 0 /\ IsFrame(b) => Leading' = n + 1
      /\ m = 0 /\ ~IsFrame(b) => Leading' = 0
  BY <1>1, <1>3, LeadingAppend
<1>5. Room' = Room /\ Room \in Int
  BY <1>1, SizeAssumption DEF Room, Lesser, Capacity, Index
<1>6. ~Dispatch
  BY <1>1, <1>2 DEF Dispatch
<1>7. Deaf' <=> IF Leading' = 0
                THEN \A h \in Headers : n + 1 + FrameLength(h) > Room
                ELSE Leading' - 1 + FrameLength(due'[Leading'].header) > Room
  BY <1>2, <1>5 DEF Deaf
<1>8. Deaf <=> IF m = 0
               THEN \A h \in Headers : n + FrameLength(h) > Room
               ELSE m - 1 + FrameLength(due[m].header) > Room
  BY DEF Deaf
<1> HIDE DEF m, n
<1>9. CASE m # 0
  <2>1. Leading' = m /\ m \in 1 .. n
    BY <1>1, <1>4, <1>9
  <2>2. due'[m] = due[m]
    BY <1>2, <2>1
  <2> QED BY <1>6, <1>7, <1>8, <1>9, <2>1, <2>2
<1>10. CASE m = 0 /\ IsFrame(b)
  <2>1. Leading' = n + 1 /\ n + 1 # 0 /\ (n + 1) - 1 = n
    BY <1>1, <1>4, <1>10
  <2>2. b.header \in Headers
    BY <1>10, FrameType DEF IsFrame
  <2>3. n + FrameLength(b.header) > Room
    BY <1>8, <1>10, <2>2
  <2> QED BY <1>2, <1>6, <1>7, <2>1, <2>3
<1>11. CASE m = 0 /\ ~IsFrame(b)
  <2>1. Leading' = 0
    BY <1>4, <1>11
  <2>2. \A h \in Headers : n + FrameLength(h) > Room
    BY <1>8, <1>11
  <2>3. ASSUME NEW h \in Headers PROVE n + 1 + FrameLength(h) > Room
    <3>1. n + FrameLength(h) > Room /\ FrameLength(h) \in Nat
      BY <2>2, HeaderLength
    <3> QED BY <1>1, <1>5, <3>1
  <2> QED BY <1>6, <1>7, <2>1, <2>3
<1> QED BY <1>9, <1>10, <1>11

LEMMA DeafKept == BufferInv /\ [Next]_vars /\ Deaf => Deaf' /\ ~Dispatch
<1> SUFFICES ASSUME BufferInv, [Next]_vars, Deaf PROVE Deaf' /\ ~Dispatch
  OBVIOUS
<1>0. Len(due) \in Nat
  BY LenProperties DEF BufferInv, TypeInv
<1>1. CASE SendAny
  <2>1. PICK f \in Frames : Send(f)
    BY <1>1 DEF SendAny
  <2>2. f \in Items /\ due' = Append(due, f) /\ r' = r
    BY <2>1, SendQueues
  <2> QED BY <2>2, DeafAppend
<1>2. CASE DisturbAny
  <2>1. PICK b \in Noise : Disturb(b)
    BY <1>2 DEF DisturbAny
  <2>2. b \in Items /\ due' = Append(due, b) /\ r' = r
    BY <2>1, DisturbQueues
  <2> QED BY <2>2, DeafAppend
<1>3. CASE IngestAny
  <2>1. PICK n \in 1 .. MaxChunk : Ingest(n)
    BY <1>3 DEF IngestAny
  <2>2. Idle \/ Dispatched
    BY <2>1, IngestOutcome
  <2>3. ~Dispatched
    <3>1. ASSUME Dispatched PROVE FALSE
      <4>1. Leading # 0 /\ ~(Leading - 1 + FrameLength(due[Leading].header) > Room)
        <5> DEFINE l == Leading - 1 + FrameLength(due[Leading].header)
        <5>1. Leading \in 1 .. Len(due) /\ IsFrame(due[Leading]) /\ l <= Room
          BY <3>1 DEF Dispatched
        <5>2. l \in Int
          BY <1>0, <5>1, FrameType DEF IsFrame
        <5>3. Room \in Int
          BY SizeAssumption DEF Room, Lesser, Capacity, Index, BufferInv, TypeInv
        <5> HIDE DEF l
        <5>4. ~(l > Room)
          BY <5>1, <5>2, <5>3
        <5> QED BY <5>1, <5>4 DEF l
      <4> QED BY <4>1 DEF Deaf
    <3> QED BY <3>1
  <2>4. due' = due /\ r' = r
    BY <2>2, <2>3 DEF Idle
  <2> QED BY <1>0, <2>4 DEF Deaf, Dispatch, Leading, Room
<1>4. CASE UNCHANGED vars
  BY <1>0, <1>4 DEF vars, Deaf, Dispatch, Leading, Room
<1> QED BY <1>1, <1>2, <1>3, <1>4 DEF Next

(* Once the noise and the first frame due do not fit before the end of the *)
(* array, no frame is ever dispatched again.                               *)
THEOREM DeafIsForGood == Spec => DeafForGood
<1>1. BufferInv /\ [Next]_vars => [Deaf => Deaf' /\ ~Dispatch]_vars
  BY DeafKept
<1> QED BY <1>1, BufferInvariance, PTL DEF Spec, DeafForGood

----------------------------------------------------------------------------
(* FlattenSeq of a sequence that is not empty is the last value of a       *)
(* function that satisfies its recursion, if there is one.                 *)
LEMMA Flattened ==
  ASSUME NEW q, Len(q) # 0,
         \E f : f = [i \in 1 .. Len(q) |-> IF i = 1 THEN q[i] ELSE f[i - 1] \o q[i]]
  PROVE  \E f : /\ f = [i \in 1 .. Len(q) |-> IF i = 1 THEN q[i] ELSE f[i - 1] \o q[i]]
                /\ FlattenSeq(q) = f[Len(q)]
<1> DEFINE g == CHOOSE f : f = [i \in 1 .. Len(q) |-> IF i = 1 THEN q[i] ELSE f[i - 1] \o q[i]]
<1>1. g = [i \in 1 .. Len(q) |-> IF i = 1 THEN q[i] ELSE g[i - 1] \o q[i]]
  OBVIOUS
<1>2. FlattenSeq(q) = g[Len(q)]
  BY DEF FlattenSeq
<1> HIDE DEF g
<1> QED BY <1>1, <1>2

(* The bytes between two offsets are an item. *)
LEMMA PieceIsItem ==
  ASSUME NEW s \in Seq(Octets), NEW d \in Seq(Items), NEW off, LaidOut(s, d, off),
         NEW j \in 1 .. Len(d)
  PROVE  /\ off[j] \in Nat /\ off[j + 1] \in Nat /\ off[j] <= off[j + 1]
         /\ off[j + 1] <= Len(s)
         /\ SubSeq(s, off[j] + 1, off[j + 1]) = Encoding(d[j])
<1> DEFINE a == off[j]
           b == off[j + 1]
           w == ItemLength(d[j])
           x == Encoding(d[j])
           t == SubSeq(s, a + 1, b)
<1>1. Len(d) \in Nat /\ Len(s) \in Nat /\ d[j] \in Items
  BY LenProperties, ElementOfSeq
<1>2. w \in Nat \ {0} /\ x \in Seq(Octets) /\ Len(x) = w
  BY <1>1, ItemBytes
<1>3. j \in 1 .. Len(d) + 1 /\ j + 1 \in 1 .. Len(d) + 1 /\ Len(d) + 1 \in 1 .. Len(d) + 1
  BY <1>1
<1>4. a \in Nat /\ b \in Nat /\ b = a + w
  BY <1>3 DEF LaidOut, Offsets
<1>5. b <= Len(s)
  <2>1. off[j + 1] <= off[Len(d) + 1]
    BY <1>1, <1>3 DEF LaidOut, Ordered
  <2> QED BY <2>1 DEF LaidOut, Offsets
<1>6. \A k \in 1 .. w : s[a + k] = x[k]
  BY DEF LaidOut, Filled
<1> HIDE DEF a, b, w, x
<1>7. t \in Seq(Octets) /\ Len(t) = w /\ \A k \in 1 .. w : t[k] = s[a + k]
  <2>1. /\ a + 1 \in Nat \ {0} /\ b \in Nat /\ a + 1 <= b + 1 /\ b <= Len(s)
    BY <1>2, <1>4, <1>5
  <2>2. b - (a + 1) + 1 = w /\ \A k \in 1 .. w : k + ((a + 1) - 1) = a + k
    BY <1>2, <1>4
  <2>3. /\ t \in Seq(Octets) /\ Len(t) = b - (a + 1) + 1
        /\ \A k \in 1 .. b - (a + 1) + 1 : t[k] = s[k + ((a + 1) - 1)]
    BY <2>1, Slice
  <2> HIDE DEF t
  <2> QED BY <2>2, <2>3
<1> HIDE DEF t
<1>8. /\ t \in Seq(Octets) /\ x \in Seq(Octets) /\ Len(t) = Len(x)
      /\ \A k \in 1 .. Len(t) : t[k] = x[k]
  BY <1>2, <1>6, <1>7
<1>9. t = x
  BY <1>8, SeqEqual
<1>10. a <= b
  BY <1>2, <1>4
<1> QED BY <1>4, <1>5, <1>9, <1>10 DEF t, x, a, b

(* What is laid out is the encodings of the items, one after the other. *)
LEMMA LaidOutIsFlat ==
  ASSUME NEW s \in Seq(Octets), NEW d \in Seq(Items), NEW off, LaidOut(s, d, off)
  PROVE  s = FlattenSeq([i \in DOMAIN d |-> Encoding(d[i])])
<1> DEFINE n == Len(d)
           q == [i \in DOMAIN d |-> Encoding(d[i])]
           F == [i \in 1 .. n |-> SubSeq(s, 1, off[i + 1])]
<1>1. n \in Nat /\ DOMAIN d = 1 .. n /\ Len(s) \in Nat
  BY LenProperties
<1>2. \A i \in 1 .. n : q[i] = Encoding(d[i]) /\ q[i] \in Seq(Octets)
  <2> TAKE i \in 1 .. n
  <2>1. d[i] \in Items
    BY ElementOfSeq
  <2> QED BY <1>1, <2>1, ItemBytes
<1>3. Len(q) = n
  BY <1>1
<1>4. off[1] = 0 /\ off[n + 1] = Len(s)
  BY DEF LaidOut, Offsets
<1>5. CASE n = 0
  <2>1. s = <<>>
    BY <1>1, <1>4, <1>5, EmptySeq
  <2>2. q = <<>>
    BY <1>1, <1>5
  <2>3. FlattenSeq(q) = q
    <3>1. Len(q) = 0
      BY <1>3, <1>5
    <3> HIDE DEF q
    <3> QED BY <3>1 DEF FlattenSeq
  <2> QED BY <2>1, <2>2, <2>3
<1>6. CASE n # 0
  <2>1. /\ \A i \in 1 .. n : F[i] = SubSeq(s, 1, off[i + 1])
        /\ n \in 1 .. n /\ 1 \in 1 .. n
    <3>1. \A i \in 1 .. n : F[i] = SubSeq(s, 1, off[i + 1])
      OBVIOUS
    <3> HIDE DEF F
    <3>2. n \in 1 .. n /\ 1 \in 1 .. n
      <4> HIDE DEF n
      <4> QED BY <1>1, <1>6
    <3> QED BY <3>1, <3>2
  <2>2. F[1] = q[1]
    <3>1. SubSeq(s, off[1] + 1, off[1 + 1]) = Encoding(d[1])
      BY <2>1, PieceIsItem
    <3>2. SubSeq(s, 1, off[1 + 1]) = q[1]
      BY <1>2, <1>4, <2>1, <3>1
    <3> HIDE DEF F, q
    <3> QED BY <2>1, <3>2
  <2>3. ASSUME NEW i \in 1 .. n, i # 1 PROVE F[i] = F[i - 1] \o q[i]
    <3> DEFINE a == off[i]
               b == off[i + 1]
    <3>1. /\ a \in Nat /\ b \in Nat /\ a <= b /\ b <= Len(s)
          /\ SubSeq(s, a + 1, b) = Encoding(d[i])
      BY PieceIsItem
    <3> HIDE DEF a, b
    <3>2. 1 \in 1 .. Len(s) + 1 /\ a \in 1 - 1 .. Len(s) /\ b \in a .. Len(s)
      BY <1>1, <3>1
    <3>3. SubSeq(s, 1, a) \o SubSeq(s, a + 1, b) = SubSeq(s, 1, b)
      BY <3>2, ConcatAdjacentSubSeq
    <3>4. i - 1 \in 1 .. n /\ (i - 1) + 1 = i
      BY <1>1, <2>3
    <3>5. F[i - 1] = SubSeq(s, 1, a) /\ F[i] = SubSeq(s, 1, b)
      BY <2>1, <3>4 DEF a, b
    <3>6. q[i] = SubSeq(s, a + 1, b)
      BY <1>2, <3>1
    <3> HIDE DEF F, q
    <3> QED BY <3>3, <3>5, <3>6
  <2>4. F = [i \in 1 .. Len(q) |-> IF i = 1 THEN q[i] ELSE F[i - 1] \o q[i]]
    <3>1. \A i \in 1 .. n : SubSeq(s, 1, off[i + 1]) = IF i = 1 THEN q[i] ELSE F[i - 1] \o q[i]
      BY <2>1, <2>2, <2>3
    <3>2. F = [i \in 1 .. n |-> IF i = 1 THEN q[i] ELSE F[i - 1] \o q[i]]
      <4> DEFINE G == [i \in 1 .. n |-> IF i = 1 THEN q[i] ELSE F[i - 1] \o q[i]]
      <4>1. \A i \in 1 .. n : F[i] = G[i]
        BY <2>2, <2>3
      <4> QED BY <3>1
    <3> QED BY <1>3, <3>2
  <2> HIDE DEF F, q
  <2>5. PICK f : /\ f = [i \in 1 .. Len(q) |-> IF i = 1 THEN q[i] ELSE f[i - 1] \o q[i]]
                 /\ FlattenSeq(q) = f[Len(q)]
    <3>1. Len(q) # 0
      BY <1>3, <1>6
    <3>2. \E f : f = [i \in 1 .. Len(q) |-> IF i = 1 THEN q[i] ELSE f[i - 1] \o q[i]]
      BY <2>4
    <3> QED BY <3>1, <3>2, Flattened
  <2>6. \A i \in 1 .. n : f[i] = IF i = 1 THEN q[i] ELSE f[i - 1] \o q[i]
    BY <1>3, <2>5
  <2> DEFINE T == {i \in 1 .. n : f[i] # F[i]}
  <2>7. T = {}
    <3>1. ASSUME T # {} PROVE FALSE
      <4>1. T \subseteq Nat
        BY <1>1
      <4>2. PICK m \in T : \A k \in T : m <= k
        BY <3>1, <4>1, LeastElement
      <4>3. m # 1
        BY <2>1, <2>2, <2>6, <4>2
      <4>4. m - 1 \in 1 .. n /\ ~(m <= m - 1)
        BY <1>1, <4>2, <4>3
      <4>5. f[m - 1] = F[m - 1]
        BY <4>2, <4>4
      <4>6. f[m] = f[m - 1] \o q[m] /\ F[m] = F[m - 1] \o q[m]
        BY <2>3, <2>6, <4>2, <4>3
      <4> QED BY <4>2, <4>5, <4>6
    <3> QED BY <3>1
  <2>8. FlattenSeq(q) = F[n]
    BY <1>3, <2>1, <2>5, <2>7
  <2>9. F[n] = SubSeq(s, 1, Len(s))
    BY <1>4, <2>1
  <2>10. SubSeq(s, 1, Len(s)) = s
    BY SubSeqFull
  <2> QED BY <2>8, <2>9, <2>10 DEF q
<1> QED BY <1>5, <1>6

(* The ring and the line hold the frames and the noise that are due, and   *)
(* nothing else: no byte is lost, doubled or used up before its time.      *)
THEOREM NoByteLost == Spec => []NothingLost
<1>1. BufferInv => NothingLost
  <2> SUFFICES ASSUME BufferInv PROVE NothingLost
    OBVIOUS
  <2> DEFINE c == ring \o wire
  <2>1. PICK off : LaidOut(c, due, off)
    BY DEF BufferInv, StreamInv
  <2>2. c \in Seq(Octets) /\ due \in Seq(Items)
    <3>1. ring \in Seq(Octets) /\ wire \in Seq(Octets) /\ due \in Seq(Items)
      BY DEF BufferInv, TypeInv
    <3> QED BY <3>1, Joined
  <2> HIDE DEF c
  <2>3. c = FlattenSeq([i \in DOMAIN due |-> Encoding(due[i])])
    BY <2>1, <2>2, LaidOutIsFlat
  <2> QED BY <2>3 DEF NothingLost, Encoding, c
<1> QED BY <1>1, BufferInvariance, PTL
=============================================================================
