---------------------------- MODULE ServiceCodec ----------------------------
(***************************************************************************)
(* The control services, byte by byte: the client's program sends a        *)
(* request, cmux_service_request_codec.c makes bytes of it, which a frame  *)
(* carries to the server; the server decodes them and its program answers  *)
(* with what it got, as line_status_indication.h asks of it; the client    *)
(* decodes the answer.                                                     *)
(***************************************************************************)
EXTENDS ServiceBodies

CONSTANT Requests    \* the requests the client's program may send

(* enum CMUX_SERVICE *)
PARAMETER_NEGOTIATION == 128
POWER_SAVING == 64
MULTIPLEXER_CLOSE_DOWN == 192
TEST == 32
FLOW_CONTROL_ON == 160
FLOW_CONTROL_OFF == 96
MODEM_STATUS == 224
UNSUPPORTED == 16
REMOTE_PORT_NEGOTIATION == 144
REMOTE_LINE_STATUS == 80
SERVICE_NEGOTIATION == 208

Bodyless == {POWER_SAVING, MULTIPLEXER_CLOSE_DOWN, FLOW_CONTROL_ON,
             FLOW_CONTROL_OFF, UNSUPPORTED}

(* struct test_service_t, and the part of the union nobody looks at. *)
TestData == [octets : Seq(Octet)]
NoData == [octets |-> <<>>]

(* cmux_services_request_t *)
Request ==
  [service : {PARAMETER_NEGOTIATION}, cr : BOOLEAN, data : ParameterNegotiation]
    \cup [service : {MODEM_STATUS}, cr : BOOLEAN, data : ModemStatus]
    \cup [service : {REMOTE_PORT_NEGOTIATION}, cr : BOOLEAN, data : PortParameters]
    \cup [service : {REMOTE_LINE_STATUS}, cr : BOOLEAN, data : LineStatus]
    \cup [service : {SERVICE_NEGOTIATION}, cr : BOOLEAN, data : ServiceNegotiation]
    \cup [service : {TEST}, cr : BOOLEAN, data : TestData]
    \cup [service : Bodyless, cr : BOOLEAN, data : {NoData}]
NoRequest == [service |-> 0, cr |-> FALSE, data |-> NoData]

ASSUME RequestsAssumption == Requests \subseteq Request

VARIABLES
  asked,     \* the request of the client's program
  wire,      \* the service message on the line
  heard,     \* what the server's program got
  agreed     \* what the client's program got for an answer

vars == <<asked, wire, heard, agreed>>

----------------------------------------------------------------------------
(* Mutant: the bit that ends a short length field is not set. *)
LengthOctetsNoEnd(n) ==
  IF n > 127 THEN <<2 * (n % 128), (n \div 128) % 256>> ELSE <<2 * n>>

(* The length field that cmux_service_encode writes. *)
LengthOctets(n) ==
  IF n > 127 THEN <<2 * (n % 128), (n \div 128) % 256>> ELSE <<2 * n + 1>>

(* cmux_service_encode *)
ServiceEncode(service, cr, body, n) ==
  <<4 * (service \div 4) + 1 + Bit(cr, 2)>> \o LengthOctets(n) \o body

(* cmux_service_encode_get_length *)
ServiceLength(n) == 1 + (IF n > 127 THEN 2 ELSE 1) + n

(* The fields that cmux_service_decode finds. *)
Extended(o) == o[2] % 2 = 0
DecodedLength(o) ==
  IF Extended(o) THEN (o[2] \div 2) + 256 * o[3] ELSE o[2] \div 2
DecodedBody(o) == SubSeq(o, IF Extended(o) THEN 4 ELSE 3, Len(o))

----------------------------------------------------------------------------
(* The _encode_length function of the service. *)
BodyLength(r) ==
  CASE r.service = PARAMETER_NEGOTIATION -> 8
    [] r.service \in {MODEM_STATUS, REMOTE_LINE_STATUS} -> 2
    [] r.service = REMOTE_PORT_NEGOTIATION -> PortNegotiationLength(r.data)
    [] r.service = SERVICE_NEGOTIATION -> IF BothGiven(r.data) THEN 4 ELSE 2
    [] r.service = TEST -> Len(r.data.octets)
    [] OTHER -> 0

(* The _encode function of the service. *)
BodyEncode(r) ==
  CASE r.service = PARAMETER_NEGOTIATION -> ParameterNegotiationEncode(r.data)
    [] r.service = MODEM_STATUS -> ModemStatusEncode(r.data)
    [] r.service = REMOTE_PORT_NEGOTIATION -> PortNegotiationEncode(r.data)
    [] r.service = REMOTE_LINE_STATUS -> LineStatusEncode(r.data)
    [] r.service = SERVICE_NEGOTIATION -> ServiceNegotiationEncode(r.data)
    [] r.service = TEST -> r.data.octets
    [] OTHER -> <<>>

(* cmux_service_request_get_length *)
RequestLength(r) == ServiceLength(BodyLength(r))

(* cmux_service_request_encode *)
RequestEncode(r) == ServiceEncode(r.service, r.cr, BodyEncode(r), BodyLength(r))

(* The _decode function of the service, given a body of some length. *)
BodyDecode(service, body, length) ==
  CASE service = PARAMETER_NEGOTIATION -> ParameterNegotiationDecode(body)
    [] service = MODEM_STATUS -> ModemStatusDecode(body)
    [] service = REMOTE_PORT_NEGOTIATION -> PortNegotiationDecode(body)
    [] service = REMOTE_LINE_STATUS -> LineStatusDecode(body)
    [] service = SERVICE_NEGOTIATION -> ServiceNegotiationDecode(body)
    [] service = TEST -> [octets |-> SubSeq(body, 1, length)]
    [] OTHER -> NoData

(* cmux_service_request_decode *)
RequestDecode(o) ==
  LET service == 4 * (o[1] \div 4)
  IN  [service |-> service, cr |-> HasBit(o[1], 2),
       data |-> BodyDecode(service, DecodedBody(o), DecodedLength(o))]

----------------------------------------------------------------------------
(* The longest message that arrives: a frame with the extended length      *)
(* field is never found valid (module FrameCodecProofs).                   *)
Carried == 127

Init ==
  /\ asked = NoRequest /\ heard = NoRequest /\ agreed = NoRequest
  /\ wire = <<>>

(* cmux_client_request by the program. *)
Ask(r) ==
  /\ asked = NoRequest
  /\ asked' = r
  /\ wire' = RequestEncode(r)
  /\ UNCHANGED <<heard, agreed>>

(* The program answers with what it got. *)
Answer(r) == [service |-> r.service, cr |-> FALSE, data |-> r.data]

(* The server's handler decodes the message for its program, which calls   *)
(* cmux_server_reply with what it got.                                     *)
Hear ==
  /\ wire # <<>> /\ Len(wire) <= Carried /\ heard = NoRequest
  /\ heard' = RequestDecode(wire)
  /\ wire' = RequestEncode(Answer(RequestDecode(wire)))
  /\ UNCHANGED <<asked, agreed>>

(* The client's handler decodes the answer. *)
Learn ==
  /\ wire # <<>> /\ heard # NoRequest
  /\ agreed' = RequestDecode(wire)
  /\ wire' = <<>>
  /\ UNCHANGED <<asked, heard>>

(* The exchange is over: the answer has come, or nothing will. *)
Finish ==
  /\ agreed # NoRequest \/ Len(wire) > Carried
  /\ asked' = NoRequest /\ heard' = NoRequest /\ agreed' = NoRequest
  /\ wire' = <<>>

Next == (\E r \in Requests : Ask(r)) \/ Hear \/ Learn \/ Finish

Spec == Init /\ [][Next]_vars

----------------------------------------------------------------------------
(* What both programs are given is a request with its parameters in their  *)
(* ranges, and what is sent are octets.                                    *)
TypeOK ==
  /\ {asked, heard, agreed} \subseteq Request \cup {NoRequest}
  /\ wire \in Seq(Octet)

(* cmux_client_request and cmux_server_reply allocate the length that      *)
(* cmux_service_request_get_length computes, and the body the length of    *)
(* its own _encode_length: what is written fits exactly, though RPN and    *)
(* SNC decide in two places whether they have parameters.                  *)
ServiceFits ==
  wire # <<>> =>
    Len(wire) = RequestLength(IF heard = NoRequest THEN asked ELSE heard)

(* cmux_service_decode finds the length of the body that was encoded       *)
(* exactly when it has the short form, up to 127.                          *)
LengthSurvives ==
  wire # <<>> =>
    LET n == Len(DecodedBody(wire))
    IN  DecodedLength(wire) = n <=> n <= 127

(* The requests whose fields have room for their values.  The octet of the *)
(* timer counts units of 100 ms; a service without a codec, as data is,    *)
(* becomes a query.                                                        *)
Representable(r) ==
  CASE r.service = PARAMETER_NEGOTIATION ->
         /\ r.data.dlci < 64 /\ r.data.frame_type < 16 /\ r.data.layer_type < 16
         /\ r.data.priority < 64 /\ r.data.window_size < 8
         /\ r.data.ack_timer_msec % 100 = 0 /\ r.data.ack_timer_msec <= 25500
    [] r.service = MODEM_STATUS -> r.data.dlci < 64
    [] r.service = REMOTE_LINE_STATUS -> r.data.dlci < 64 /\ r.data.status < 16
    [] r.service = SERVICE_NEGOTIATION ->
         /\ r.data.dlci < 64
         /\ r.data.service = 0 <=> r.data.voice_codec = 0
    [] r.service = REMOTE_PORT_NEGOTIATION ->
         /\ r.data.dlci < 64
         /\ \A f \in r.data.set :
              LET v == r.data.value[f]
              IN  CASE f = "speed" -> \E k \in 1 .. 9 : BaudRates[k] = v
                    [] f = "data_bits" -> v \in 5 .. 8
                    [] f = "stop_bits" -> v \in {1, 15}
                    [] f = "parity" -> v \in 0 .. 3 \cup {NoParity}
                    [] OTHER -> TRUE
    [] OTHER -> TRUE

(* s has what r has, of the port parameters those that are set. *)
Same(r, s) ==
  IF r.service = REMOTE_PORT_NEGOTIATION
  THEN /\ s.service = r.service /\ s.cr = r.cr
       /\ s.data.dlci = r.data.dlci /\ s.data.set = r.data.set
       /\ \A f \in r.data.set : s.data.value[f] = r.data.value[f]
  ELSE s = r

(* The timers of parameter_negotiation.h, lines 143-148: hundredths of a   *)
(* second, from 10 ms to 25.5 s.                                           *)
DocumentedTimer(ms) == ms % 10 = 0 /\ ms \in 10 .. 25500

(* A timer of parameter_negotiation.h that no number of 100 ms makes up.   *)
BetweenUnits(r) ==
  /\ r.service = PARAMETER_NEGOTIATION
  /\ DocumentedTimer(r.data.ack_timer_msec)
  /\ r.data.ack_timer_msec % 100 # 0

(* The server's program gets exactly what the client's program asked for,  *)
(* if the fields have room for it, and something else otherwise.  Nothing  *)
(* is said here of a timer that parameter_negotiation.h allows and the     *)
(* octet cannot hold: TimerHeardAsAsked is about those.                    *)
HeardAsAsked ==
  heard # NoRequest /\ ~BetweenUnits(asked) =>
    (Same(asked, heard) <=> Representable(asked))

(* The server's program gets the acknowledgement timer that was asked for, *)
(* if it is one of those that parameter_negotiation.h allows.  Violated:   *)
(* parameter_negotiation_encode divides by 100, and 10 ms become 0.        *)
TimerHeardAsAsked ==
  heard # NoRequest /\ asked.service = PARAMETER_NEGOTIATION =>
    (DocumentedTimer(asked.data.ack_timer_msec) =>
       heard.data.ack_timer_msec = asked.data.ack_timer_msec)

(* Both programs end with the same parameters, whatever was asked for:     *)
(* what the fields had no room for is lost on the way there, and nothing   *)
(* on the way back.                                                        *)
Agreement ==
  agreed # NoRequest => agreed = Answer(heard)
=============================================================================
