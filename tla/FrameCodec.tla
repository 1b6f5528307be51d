----------------------------- MODULE FrameCodec -----------------------------
(***************************************************************************)
(* One frame on the wire, byte by byte: cmux_frame_builder.c writes it,    *)
(* the line brings it to a receiver in pieces, and cmux_frame_parser.c     *)
(* looks at what has come so far.  The line may damage one byte of the     *)
(* address or control field.  The scan of cmux_buffer.c hands the parser a *)
(* block that ends with the bytes received, and check_valid_frame reads    *)
(* behind its end when it decodes the length field of a frame that is not  *)
(* complete: what it finds there is left open.                             *)
(*                                                                         *)
(* Index k of an array in C is index k + 1 here.                           *)
(***************************************************************************)
EXTENDS Integers, Sequences

CONSTANTS
  Infos,        \* the struct builder_frame_info_t given to the builder
  Memory,       \* byte values a body may be found to hold before it is written
  Stale,        \* byte values the memory behind the received bytes may hold
  Damages,      \* byte values the line may change a byte to
  MaxPiece,     \* bound: bytes received at once
  Cells,        \* bound: cells of the receiver's memory
  Fcs(_)        \* the frame check sequence of a sequence of bytes, cmux_crc

Octet == 0 .. 255

(* enum CONTROL_TYPE *)
SABM == 47
UA == 99
DM == 15
DISC == 67
UIH == 239
UI == 3
Types == {SABM, UA, DM, DISC, UIH, UI}

(* dlci is a uint8_t, the length a uint16_t. *)
Info == [ea : BOOLEAN, cr : BOOLEAN, dlci : Octet, type : Types,
         pf : BOOLEAN, body : Seq(Octet)]

ASSUME InfosAssumption == \A i \in Infos : i \in Info
ASSUME LengthsAssumption == \A i \in Infos : Len(i.body) < 2^16
ASSUME OctetsAssumption == Memory \cup Stale \cup Damages \subseteq Octet
ASSUME CellsAssumption == MaxPiece \in Nat /\ Cells \in Nat /\ Cells >= 5

VARIABLES
  info,         \* the frame being sent
  wire,         \* its bytes not received yet
  cells, len,   \* the receiver's memory, and how much of it was received
  damaged       \* the line changed a byte

vars == <<info, wire, cells, len, damaged>>

Flag == 249                                      \* CMUX_FRAME_HEADER_FOOTER
BitOf(b) == IF b THEN 1 ELSE 0

----------------------------------------------------------------------------
(* The builder *)
(* The DLCI has six bits left: the assignment to a uint8_t drops the rest. *)
AddressByte(ea, cr, dlci) == (BitOf(ea) + 2 * BitOf(cr) + 4 * dlci) % 256

(* Bit 4 of every type is clear. *)
ControlByte(type, pf) == type + 16 * BitOf(pf)

(* Mutant: the bit that ends a short length field is not set. *)
LengthBytesNoEnd(n) ==
  IF n > 127 THEN <<2 * (n % 128), (n \div 128) % 256>> ELSE <<2 * (n % 128)>>

(* Mutant: the low bits of an extended length are not cut off. *)
LengthBytesUncut(n) ==
  IF n > 127 THEN <<2 * n, (n \div 128) % 256>> ELSE <<2 * n + 1>>

LengthBytes(n) ==
  IF n > 127 THEN <<2 * (n % 128), (n \div 128) % 256>> ELSE <<2 * n + 1>>

Header(i) ==
  <<AddressByte(i.ea, i.cr, i.dlci), ControlByte(i.type, i.pf)>>
    \o LengthBytes(Len(i.body))

(* Mutant: an extended length field is allocated as a short one. *)
BuilderLengthShort(n) == 3 + 1 + n + 2

(* cmux_frame_builder_get_frame_length *)
BuilderLength(n) == 3 + (IF n > 127 THEN 2 ELSE 1) + n + 2

(* cmux_frame_builder: the FCS of a UI frame is computed before the body   *)
(* is copied, over what the memory of the frame holds, byte m.             *)
Build(i, m) ==
  LET before == [k \in 1 .. Len(i.body) |-> m]
      fcs == Fcs(IF i.type = UI THEN Header(i) \o before ELSE Header(i))
  IN  <<Flag>> \o Header(i) \o i.body \o <<fcs, Flag>>

(* The FCS is a byte, and tells a header from the same one with the        *)
(* address or the control field damaged.                                   *)
FcsTellsHeaders ==
  \A i \in Infos :
    /\ Fcs(Header(i)) \in Octet
    /\ i.type = UI => \A m \in Memory :
         Fcs(Header(i) \o [k \in 1 .. Len(i.body) |-> m]) \in Octet
    /\ \A k \in {1, 2}, b \in Damages :
         Header(i)[k] # b => Fcs([Header(i) EXCEPT ![k] = b]) # Fcs(Header(i))

ASSUME FcsAssumption == FcsTellsHeaders

----------------------------------------------------------------------------
(* The parser *)
Extended(c) == c[4] % 2 = 0

DecodedLength(c) ==
  IF Extended(c) THEN c[4] \div 2 + 256 * c[5] ELSE c[4] \div 2

(* frame_index after the length field. *)
BodyIndex(c) == IF Extended(c) THEN 5 ELSE 4

DecodedType(b) == b - 16 * ((b \div 16) % 2)

(* get_frame_length *)
FrameLength(c) ==
  IF c[1] # Flag THEN -1
  ELSE ((3 + (IF Extended(c) THEN 2 ELSE 1) + DecodedLength(c)) % 2^16) + 2

(* The bytes the FCS is calculated over. *)
Covered(c) ==
  SubSeq(c, 2, BodyIndex(c)
                 + (IF DecodedType(c[3]) = UI THEN DecodedLength(c) ELSE 0))

(* Mutant: the footer is not counted, so it is read behind what came. *)
CheckValidEarly(c, n) ==
  LET fcsIndex == BodyIndex(c) + DecodedLength(c)
  IN  /\ n >= 1 /\ c[1] = Flag
      /\ fcsIndex + 1 <= n
      /\ c[fcsIndex + 1] = Fcs(Covered(c))
      /\ c[fcsIndex + 2] = Flag

(* Mutant: the FCS is not compared. *)
CheckValidUnchecked(c, n) ==
  LET fcsIndex == BodyIndex(c) + DecodedLength(c)
  IN  /\ n >= 1 /\ c[1] = Flag
      /\ fcsIndex + 2 <= n
      /\ c[fcsIndex + 2] = Flag

(* check_valid_frame *)
CheckValid(c, n) ==
  LET fcsIndex == BodyIndex(c) + DecodedLength(c)
  IN  /\ n >= 1 /\ c[1] = Flag
      /\ fcsIndex + 2 <= n
      /\ c[fcsIndex + 1] = Fcs(Covered(c))
      /\ c[fcsIndex + 2] = Flag

(* parse_frame, of a valid frame. *)
Parse(c) ==
  [ea |-> c[2] % 2 = 1, cr |-> (c[2] \div 2) % 2 = 1, dlci |-> c[2] \div 4,
   type |-> DecodedType(c[3]), pf |-> (c[3] \div 16) % 2 = 1,
   body |-> SubSeq(c, BodyIndex(c) + 1, BodyIndex(c) + DecodedLength(c))]

----------------------------------------------------------------------------
Init ==
  /\ \E i \in Infos, m \in Memory : info = i /\ wire = Build(i, m)
  /\ \E b \in Stale : cells = [k \in 1 .. Cells |-> b]
  /\ len = 0
  /\ damaged = FALSE

(* The line changes the address or the control field. *)
Damage(k, b) ==
  /\ len = 0 /\ ~damaged /\ wire[k] # b
  /\ wire' = [wire EXCEPT ![k] = b]
  /\ damaged' = TRUE
  /\ UNCHANGED <<info, cells, len>>

Receive(n) ==
  /\ n <= Len(wire) /\ len + n <= Cells
  /\ cells' = [k \in 1 .. Cells |->
                 IF k \in len + 1 .. len + n THEN wire[k - len] ELSE cells[k]]
  /\ len' = len + n
  /\ wire' = SubSeq(wire, n + 1, Len(wire))
  /\ UNCHANGED <<info, damaged>>

(* The next frame, received into another block. *)
Another(i, m, b) ==
  /\ wire = <<>>
  /\ info' = i /\ wire' = Build(i, m)
  /\ cells' = [k \in 1 .. Cells |-> b]
  /\ len' = 0
  /\ damaged' = FALSE

Next ==
  \/ \E k \in {2, 3}, b \in Damages : Damage(k, b)
  \/ \E n \in 1 .. MaxPiece : Receive(n)
  \/ \E i \in Infos, m \in Memory, b \in Stale : Another(i, m, b)

Spec == Init /\ [][Next]_vars

----------------------------------------------------------------------------
TypeOK ==
  /\ info \in Info
  /\ wire \in Seq(Octet)
  /\ cells \in [1 .. Cells -> Octet]
  /\ len \in 0 .. Cells
  /\ damaged \in BOOLEAN

(* check_valid_frame never takes a part of a frame for a frame, whatever   *)
(* the cells behind the received bytes hold.                               *)
NeverEarly == wire # <<>> => ~CheckValid(cells, len)

(* What is received is a valid frame that parses to i, and its             *)
(* get_frame_length is what was received.                                  *)
ArrivesAs(i) ==
  /\ CheckValid(cells, len)
  /\ FrameLength(cells) = len
  /\ Parse(cells) = i

(* The frame that was built arrives as it was given to the builder. *)
RoundTrip == wire = <<>> /\ ~damaged => ArrivesAs(info)

(* The same of the frames that the code treats right: not of those with    *)
(* the extended length field and not of UI frames.  The DLCI has six bits: *)
(* a frame for DLCI 64 arrives at the multiplexer itself, DLCI 0, and no   *)
(* bound but a maximum_dlci below 64 keeps programs from sending it.       *)
ShortRoundTrip ==
  wire = <<>> /\ ~damaged /\ Len(info.body) <= 127 /\ info.type # UI =>
    ArrivesAs([info EXCEPT !.dlci = @ % 64])

(* No damage to the address or control field passes the check, except one  *)
(* that makes the frame a UI frame, whose FCS covers other bytes.          *)
DamageRejected == damaged /\ DecodedType(cells[3]) # UI => ~CheckValid(cells, len)

(* send_frame allocates cmux_frame_builder_get_frame_length bytes: what    *)
(* the builder writes fits exactly, the long lengths included.             *)
FitsAllocation == len + Len(wire) = BuilderLength(Len(info.body))
=============================================================================
