--------------------------- MODULE ServiceBodies ---------------------------
(***************************************************************************)
(* lib/cmux/services: the structs of the services that have parameters,    *)
(* and how they become bytes and come back.  Every decoder is given a      *)
(* struct that is all zero, as the handlers of client and server do.       *)
(*                                                                         *)
(* Index k of an array in C is index k + 1 here.                           *)
(***************************************************************************)
EXTENDS Integers, Sequences

Octet == 0 .. 255
TwoOctets == {n \in Nat : n < 65536}

Bit(b, weight) == IF b THEN weight ELSE 0
HasBit(octet, weight) == (octet \div weight) % 2 = 1

(* Mutant: the uint8_t is taken to be wider. *)
DlciOctetWide(dlci) == 4 * dlci + 3

(* (dlci << 2) | 0x01 | 0x02 in a uint8_t. *)
DlciOctet(dlci) == (4 * dlci + 3) % 256

----------------------------------------------------------------------------
(* struct parameter_negotiation_parameters_t *)
ParameterNegotiation ==
  [dlci : Octet, frame_type : Nat, layer_type : Nat, priority : Octet,
   ack_timer_msec : Nat, max_frame_size : TwoOctets,
   max_retransmissions : Octet, window_size : Octet]

(* Mutant: the timer is sent in hundredths of a second, as the header says *)
(* its resolution is.                                                      *)
ParameterNegotiationEncodeHundredths(p) ==
  <<p.dlci % 64, (p.frame_type % 16) + 16 * (p.layer_type % 16), p.priority % 64,
    (p.ack_timer_msec \div 10) % 256,
    p.max_frame_size % 256, p.max_frame_size \div 256,
    p.max_retransmissions, p.window_size % 8>>

(* parameter_negotiation_encode *)
ParameterNegotiationEncode(p) ==
  <<p.dlci % 64, (p.frame_type % 16) + 16 * (p.layer_type % 16), p.priority % 64,
    (p.ack_timer_msec \div 100) % 256,
    p.max_frame_size % 256, p.max_frame_size \div 256,
    p.max_retransmissions, p.window_size % 8>>

(* parameter_negotiation_decode *)
ParameterNegotiationDecode(o) ==
  [dlci |-> o[1] % 64, frame_type |-> o[2] % 16, layer_type |-> o[2] \div 16,
   priority |-> o[3] % 64, ack_timer_msec |-> o[4] * 100,
   max_frame_size |-> o[5] + 256 * o[6],
   max_retransmissions |-> o[7], window_size |-> o[8] % 8]

----------------------------------------------------------------------------
(* struct modem_status_t: the signals that are true. *)
Signals == {"fc", "rtc", "rtr", "ic", "dv"}
SignalWeight == [fc |-> 2, rtc |-> 4, rtr |-> 8, ic |-> 64, dv |-> 128]
ModemStatus == [dlci : Octet, signals : SUBSET Signals]

(* modem_status_encode *)
ModemStatusEncode(p) ==
  <<DlciOctet(p.dlci),
    1 + Bit("fc" \in p.signals, 2) + Bit("rtc" \in p.signals, 4)
      + Bit("rtr" \in p.signals, 8) + Bit("ic" \in p.signals, 64)
      + Bit("dv" \in p.signals, 128)>>

(* modem_status_decode *)
ModemStatusDecode(o) ==
  [dlci |-> o[1] \div 4,
   signals |-> {s \in Signals : HasBit(o[2], SignalWeight[s])}]

----------------------------------------------------------------------------
(* struct line_status_parameters_t *)
LineStatus == [dlci : Octet, status : Nat]

(* line_status_encode *)
LineStatusEncode(p) == <<DlciOctet(p.dlci), p.status % 16>>

(* line_status_decode *)
LineStatusDecode(o) == [dlci |-> o[1] \div 4, status |-> o[2] % 16]

----------------------------------------------------------------------------
(* struct service_negotiation_parameters_t: SERVICE_NONE, VOICE_CODEC_NONE *)
(* are 0.  The bit of the mask that is cleared is 0 in all their values.   *)
ServiceValues == {0, 2, 4}
VoiceCodecs == {0, 2, 4, 8, 16, 32, 64}
ServiceNegotiation ==
  [dlci : Octet, service : ServiceValues, voice_codec : VoiceCodecs]

(* The condition that service_negotiation_encode and _encode_length repeat. *)
BothGiven(p) == p.service # 0 /\ p.voice_codec # 0

(* service_negotiation_encode *)
ServiceNegotiationEncode(p) ==
  IF BothGiven(p)
  THEN <<3, DlciOctet(p.dlci), p.service, p.voice_codec>>
  ELSE <<1, DlciOctet(p.dlci)>>

(* service_negotiation_decode *)
ServiceNegotiationDecode(o) ==
  [dlci |-> o[2] \div 4,
   service |-> IF o[1] = 3 THEN o[3] - (o[3] % 2) ELSE 0,
   voice_codec |-> IF o[1] = 3 THEN o[4] - (o[4] % 2) ELSE 0]

----------------------------------------------------------------------------
(* struct remote_port_parameters_t: set holds the parameters whose is_set  *)
(* is true, a flag of the flow control has the value 0 or 1.               *)
LineParameters == {"speed", "data_bits", "stop_bits", "parity", "xon", "xoff"}
FlowFlags == {"input_xon_xoff", "output_xon_xoff", "input_rtr", "output_rtr",
              "input_rtc", "output_rtc"}
Parameters == LineParameters \cup FlowFlags

PortParameters ==
  {p \in [dlci : Octet, set : SUBSET Parameters, value : [Parameters -> Nat]] :
     /\ \A f \in {"data_bits", "stop_bits", "parity", "xon", "xoff"} :
          p.value[f] \in Octet
     /\ \A f \in FlowFlags : p.value[f] \in {0, 1}}

BaudRates == <<2400, 4800, 7200, 9600, 19200, 38400, 57600, 115200, 230400>>
DefaultSpeed == 115200
DefaultBaud == 7                                  \* the key of DefaultSpeed
NoParity == 255

(* get_baud_rate_key, with the default the encoder takes for -1. *)
BaudKey(rate) ==
  IF \E k \in 0 .. 8 : BaudRates[k + 1] = rate
  THEN CHOOSE k \in 0 .. 8 : BaudRates[k + 1] = rate
  ELSE DefaultBaud

(* get_data_bits, with the default for -1. *)
DataBits(bits) == IF bits \in 5 .. 8 THEN bits - 5 ELSE 3

(* get_parity *)
ParityCode(parity) == IF parity \in 0 .. 3 THEN parity ELSE 0

(* Mutant: odd parity, whose code is 0, is taken for none. *)
ParityBitsOdd(parity) ==
  IF parity \in {NoParity, 0} THEN 0 ELSE 8 + 16 * ParityCode(parity)

(* The parity's code, and the bit that says there is one. *)
ParityBits(parity) ==
  IF parity = NoParity THEN 0 ELSE 8 + 16 * ParityCode(parity)

(* Bits of the flow control octet and of its parameter mask. *)
FlowWeight ==
  [input_xon_xoff |-> 1, output_xon_xoff |-> 2, input_rtr |-> 4,
   output_rtr |-> 8, input_rtc |-> 16, output_rtc |-> 32]
FlowBits(flags) ==
  Bit("input_xon_xoff" \in flags, 1) + Bit("output_xon_xoff" \in flags, 2)
    + Bit("input_rtr" \in flags, 4) + Bit("output_rtr" \in flags, 8)
    + Bit("input_rtc" \in flags, 16) + Bit("output_rtc" \in flags, 32)

(* Bits of the parameter mask of the line; two are for the parity. *)
LineWeight ==
  [speed |-> 1, data_bits |-> 2, stop_bits |-> 4, parity |-> 8,
   xon |-> 32, xoff |-> 64]
LineBits(set) ==
  Bit("speed" \in set, 1) + Bit("data_bits" \in set, 2)
    + Bit("stop_bits" \in set, 4) + Bit("parity" \in set, 24)
    + Bit("xon" \in set, 32) + Bit("xoff" \in set, 64)

(* port_negotiation_has_changes *)
HasChanges(p) == p.set # {}

(* Mutant: the flags of the flow control are not counted as changes. *)
PortNegotiationLengthLine(p) == IF p.set \cap LineParameters # {} THEN 9 ELSE 2

(* port_negotiation_encode_length *)
PortNegotiationLength(p) == IF HasChanges(p) THEN 9 ELSE 2

(* A parameter that is not set is sent as its default. *)
Sent(p, name, default) == IF name \in p.set THEN p.value[name] ELSE default

(* port_negotiation_encode *)
PortNegotiationEncode(p) ==
  IF ~HasChanges(p) THEN <<1, DlciOctet(p.dlci)>>
  ELSE <<8, DlciOctet(p.dlci), BaudKey(Sent(p, "speed", DefaultSpeed)),
         DataBits(Sent(p, "data_bits", 8))
           + Bit(Sent(p, "stop_bits", 1) = 15, 4)
           + ParityBits(Sent(p, "parity", NoParity)),
         FlowBits({f \in FlowFlags \cap p.set : p.value[f] # 0}),
         Sent(p, "xon", 17), Sent(p, "xoff", 19),
         LineBits(p.set), FlowBits(p.set)>>

(* What port_negotiation_decode sets, and the values it finds: the struct   *)
(* stays all zero when the length octet is not 8.                          *)
DecodedSet(o) ==
  IF o[1] # 8 THEN {}
  ELSE {f \in LineParameters : \/ HasBit(o[8], LineWeight[f])
                               \/ f = "parity" /\ HasBit(o[8], 16)}
         \cup {f \in FlowFlags : HasBit(o[9], FlowWeight[f])}
DecodedValue(o, f) ==
  IF o[1] # 8 THEN 0
  ELSE CASE f = "speed" -> IF o[3] < 9 THEN BaudRates[o[3] + 1] ELSE 0
         [] f = "data_bits" -> 5 + (o[4] % 4)
         [] f = "stop_bits" -> IF HasBit(o[4], 4) THEN 15 ELSE 1
         [] f = "parity" -> IF HasBit(o[4], 8) THEN (o[4] \div 16) % 4
                            ELSE NoParity
         [] f = "xon" -> o[6]
         [] f = "xoff" -> o[7]
         [] OTHER -> IF HasBit(o[5], FlowWeight[f]) THEN 1 ELSE 0

(* port_negotiation_decode *)
PortNegotiationDecode(o) ==
  [dlci |-> o[2] \div 4, set |-> DecodedSet(o),
   value |-> [f \in Parameters |-> DecodedValue(o, f)]]
=============================================================================
