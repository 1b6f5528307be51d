----------------------------- MODULE FrameCheck -----------------------------
(***************************************************************************)
(* The frames of FrameCodec with the frame check sequence of crc.c.        *)
(***************************************************************************)
EXTENDS FrameCodec, Crc

(* The FCS is the one of crc.c. *)
FcsOfCrc == \A s \in Seq(Octet) : Fcs(s) = Crc(s)

(* The frames of the other types than UIH and UI, with either length field *)
(* and with their header damaged or not, end with the remainder, by the    *)
(* polynomial that crc.c names, of the header they were built with: every  *)
(* implementation with that polynomial finds the FCS it expects.  UIH is   *)
(* left out because cmux_frame_type.h wants its FCS over fewer fields than *)
(* the builder takes.                                                      *)
FcsIsRemainder ==
  wire = <<>> /\ info.type \notin {UIH, UI} =>
    cells[len - 1] = Remainder(Header(info))
=============================================================================
