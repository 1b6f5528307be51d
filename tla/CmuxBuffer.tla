----------------------------- MODULE CmuxBuffer -----------------------------
(***************************************************************************)
(* The ingress side of lib/cmux/cmux_buffer.c: the program ingests the     *)
(* bytes of the line in chunks, the ring of lib/lwrb keeps them, and each  *)
(* ingest looks once for a valid frame and dispatches it.  The calls of    *)
(* one instance do not overlap, so the ring is the queue that module Lwrb  *)
(* implements; its read index matters all the same, as the scan looks at   *)
(* the linear block only.  A frame is out of the ring before               *)
(* on_control_message runs, so an ingest from inside it is an ingest.      *)
(*                                                                         *)
(* Bytes are abstract.  Header bytes and frame check sequences belong to a *)
(* header and differ between headers: a check sequence matches only the    *)
(* three bytes it was computed from.  The FCS does not cover the payload.  *)
(***************************************************************************)
EXTENDS RingIndex, SequencesExt

CONSTANTS
  Headers,      \* the headers (address, control, length) on the line
  PayloadLen,   \* the payload length each one encodes
  Payload,      \* the byte values of payloads
  Noise,        \* the byte values the line may insert between frames
  MaxChunk,     \* bound: bytes in one ingest
  MaxWire       \* bound: bytes on the line

ASSUME HeadersAssumption == PayloadLen \in [Headers -> Nat]
ASSUME BoundsAssumption == MaxChunk \in Nat /\ MaxWire \in Nat

VARIABLES
  ring, r,      \* ingress_rb: the bytes from the read index on, and the index
  wire,         \* bytes received by the program and not accepted yet
  due,          \* what was sent and not used up: frames, and noise bytes
  got           \* the last frame dispatched, and the frame that was due

vars == <<ring, r, wire, due, got>>

Byte(kind, value) == [kind |-> kind, value |-> value]
Flag == Byte("flag", 0)                          \* CMUX_FRAME_HEADER_FOOTER

(* Nothing in a payload or between frames is the header or the check       *)
(* sequence of a frame; the flags that occur there are as good as any.     *)
ASSUME BytesAssumption ==
  \A b \in Payload \cup Noise :
    b = Byte(b.kind, b.value) /\ b.kind \in {"data", "flag"}

HeaderBytes(h) == <<Byte("address", h), Byte("control", h), Byte("length", h)>>
Fcs(h) == Byte("fcs", h)

Frames == UNION {[header : {h}, payload : [1 .. PayloadLen[h] -> Payload]] :
                 h \in Headers}
NoFrame == [header |-> 0, payload |-> <<>>]

(* cmux_frame_builder *)
Build(f) ==
  <<Flag>> \o HeaderBytes(f.header) \o f.payload \o <<Fcs(f.header), Flag>>

(* get_frame_length *)
FrameLength(h) == PayloadLen[h] + 6

(* What lies in due before its first frame, and from it on. *)
IsFrame(item) == item \in Frames
Leading == SelectInSeq(due, IsFrame)
FromFrame == IF Leading = 0 THEN <<>> ELSE SubSeq(due, Leading, Len(due))
DueFrame == IF Leading = 0 THEN NoFrame ELSE due[Leading]

(* A frame is dispatched: it should be the one due, and what lay before it *)
(* is used up too.                                                         *)
Dispatches(f) ==
  /\ got' = [frame |-> f, due |-> DueFrame]
  /\ due' = IF Leading = 0 THEN <<>> ELSE Tail(FromFrame)

----------------------------------------------------------------------------
(* Mutant: the footer is not waited for. *)
StartsWithNoFooter(s, h) ==
  /\ Len(s) >= FrameLength(h) - 1
  /\ s[1] = Flag
  /\ SubSeq(s, 2, 4) = HeaderBytes(h)
  /\ s[FrameLength(h) - 1] = Fcs(h)

(* Mutant: the length of the block is compared with < for <=. *)
StartsWithStrict(s, h) ==
  /\ Len(s) > FrameLength(h)
  /\ s[1] = Flag
  /\ SubSeq(s, 2, 4) = HeaderBytes(h)
  /\ s[FrameLength(h) - 1] = Fcs(h)
  /\ s[FrameLength(h)] = Flag

(* check_valid_frame: s starts with a valid frame with header h. *)
StartsWith(s, h) ==
  /\ Len(s) >= FrameLength(h)
  /\ s[1] = Flag
  /\ SubSeq(s, 2, 4) = HeaderBytes(h)
  /\ s[FrameLength(h) - 1] = Fcs(h)
  /\ s[FrameLength(h)] = Flag

(* parse_frame, of a valid frame. *)
Parse(s, h) == [header |-> h, payload |-> SubSeq(s, 5, 4 + PayloadLen[h])]

Linear(ringNow) == LinearReadLength(Wrap(r + Len(ringNow)), r)

(* Mutant: the scan looks at all the bytes in the ring. *)
ScanAll(ringNow) ==
  {i \in 0 .. Len(ringNow) - 1 :
     \E h \in Headers : StartsWith(SubSeq(ringNow, i + 1, Len(ringNow)), h)}

(* scan_ingress_buffer_for_valid_frame: the offsets that hold one. *)
Scan(ringNow) ==
  {i \in 0 .. Linear(ringNow) - 1 :
     \E h \in Headers : StartsWith(SubSeq(ringNow, i + 1, Linear(ringNow)), h)}

(* Mutant: what precedes the frame is not skipped, the frame is read first. *)
ProcessNoSkip(ringNow) ==
  IF Scan(ringNow) = {}
  THEN ring' = ringNow /\ UNCHANGED <<r, due, got>>
  ELSE LET i == CHOOSE m \in Scan(ringNow) : \A k \in Scan(ringNow) : m <= k
           s == SubSeq(ringNow, i + 1, Len(ringNow))
           h == CHOOSE x \in Headers : StartsWith(s, x)
       IN  /\ ring' = SubSeq(ringNow, FrameLength(h) + 1, Len(ringNow))
           /\ r' = Wrap(r + FrameLength(h))
           /\ Dispatches(Parse(ringNow, h))

(* process_ingress: the first valid frame of the linear block is taken out *)
(* of the ring with all that precedes it, and dispatched.                  *)
Process(ringNow) ==
  IF Scan(ringNow) = {}
  THEN ring' = ringNow /\ UNCHANGED <<r, due, got>>
  ELSE LET i == CHOOSE m \in Scan(ringNow) : \A k \in Scan(ringNow) : m <= k
           s == SubSeq(ringNow, i + 1, Len(ringNow))
           h == CHOOSE x \in Headers : StartsWith(s, x)
       IN  /\ ring' = SubSeq(s, FrameLength(h) + 1, Len(s))
           /\ r' = Wrap(Wrap(r + i) + FrameLength(h))
           /\ Dispatches(Parse(s, h))

(* Mutant: the ring is filled to its last cell. *)
IngestOver(n) ==
  /\ n <= Len(wire)
  /\ LET accepted == Lesser(n, Size - Len(ring))
     IN  /\ Process(ring \o SubSeq(wire, 1, accepted))
         /\ wire' = SubSeq(wire, accepted + 1, Len(wire))

(* cmux_buffer_ingest, called with the first n bytes of the line.  The     *)
(* program looks at the result and offers again what was not accepted.     *)
Ingest(n) ==
  /\ n <= Len(wire)
  /\ LET accepted == Lesser(n, Capacity - Len(ring))
     IN  /\ Process(ring \o SubSeq(wire, 1, accepted))
         /\ wire' = SubSeq(wire, accepted + 1, Len(wire))

----------------------------------------------------------------------------
(* The other end of the line. *)
Send(f) ==
  /\ Len(wire) + FrameLength(f.header) <= MaxWire
  /\ wire' = wire \o Build(f)
  /\ due' = Append(due, f)
  /\ UNCHANGED <<ring, r, got>>

Disturb(b) ==
  /\ Len(wire) < MaxWire
  /\ wire' = Append(wire, b)
  /\ due' = Append(due, b)
  /\ UNCHANGED <<ring, r, got>>

(* cmux_buffer_init *)
Init ==
  /\ ring = <<>> /\ r = 0
  /\ wire = <<>> /\ due = <<>>
  /\ got = [frame |-> NoFrame, due |-> NoFrame]

SendAny == \E f \in Frames : Send(f)
IngestAny == \E n \in 1 .. MaxChunk : Ingest(n)
DisturbAny == \E b \in Noise : Disturb(b)

Next == SendAny \/ IngestAny \/ DisturbAny

Spec == Init /\ [][Next]_vars

(* The peer keeps sending frames, however often the line adds noise, and   *)
(* the program keeps ingesting.                                            *)
FairSpec == Spec /\ WF_vars(SendAny) /\ WF_vars(IngestAny)

(* The program ingests whole messages: all that was sent since the last one. *)
MessageNext == (wire = <<>> /\ SendAny) \/ (wire # <<>> /\ Ingest(Len(wire)))
MessageSpec == Init /\ [][MessageNext]_vars

----------------------------------------------------------------------------
(* Every variable stays in its type, and the ring keeps a cell free. *)
TypeOK ==
  /\ r \in Index /\ Len(ring) <= Capacity
  /\ due \in Seq(Frames \cup Noise)
  /\ got.frame \in Frames \cup {NoFrame}

(* The frames are dispatched in the order they were sent, each once, none  *)
(* passed over and none made up, however the line cuts them into chunks    *)
(* and though payloads hold flags and the line adds flags between frames.  *)
InOrder == got.frame = got.due

(* No byte is lost or used up but those of the frames dispatched and of    *)
(* the noise before them: the ring and the line hold exactly what is due.  *)
NothingLost ==
  ring \o wire =
    FlattenSeq([i \in DOMAIN due |->
                  IF IsFrame(due[i]) THEN Build(due[i]) ELSE <<due[i]>>])

Dispatch == Len(due') < Len(due)

(* The longest linear block that can come without moving r. *)
Room == Lesser(Size - r, Capacity)

(* The noise and the first frame, or any frame if there is none yet, do    *)
(* not fit in it.                                                          *)
Deaf ==
  IF Leading = 0
  THEN \A h \in Headers : Len(due) + FrameLength(h) > Room
  ELSE Leading - 1 + FrameLength(due[Leading].header) > Room

(* A frame that runs over the end of the array is never found, and no      *)
(* frame after it: the linear block cannot grow before r moves, and r      *)
(* moves only past a frame found.  Bytes that belong to no frame are not   *)
(* passed over either until a frame is found after them.                   *)
DeafForGood == [][Deaf => Deaf' /\ ~Dispatch]_vars

(* This is the only way to lose contact: as long as frames keep coming and *)
(* none runs over the end of the array, frames keep being dispatched.      *)
DispatchesUnlessDeaf == <>[]Deaf \/ []<><<Dispatch>>_vars

(* cmux_buffer.h: "looks for valid frames and dispatches them into         *)
(* on_control_message", which is "called when a complete frame is          *)
(* decoded": with all bytes ingested, no frame is left.                    *)
AllDispatched == wire = <<>> => due = <<>>
=============================================================================
