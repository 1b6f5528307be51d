--------------------------- MODULE ServiceProofs ---------------------------
(***************************************************************************)
(* Proofs about ServiceCodec, for every set of requests: the services with *)
(* any parameters of the types of their structs, test patterns of any      *)
(* length.                                                                 *)
(*                                                                         *)
(* The argument, bottom up: every body is encoded to the octets that its   *)
(* length function counts; the decoder finds header, length and body in    *)
(* the message; a body that was decoded is encoded again to the same       *)
(* octets; the invariant Exchange says what is on the line at each point   *)
(* of the exchange, and the properties of ServiceCodec follow from it.     *)
(***************************************************************************)
EXTENDS ServiceCodec, SequenceTheorems, TLAPS

(* Octets: of a DLCI, of a number of 16 bits, of flags.                    *)
LEMMA DlciOctetIsOctet ==
  ASSUME NEW d \in Octet
  PROVE  DlciOctet(d) \in Octet
<1>1. 4 * d + 3 \in Nat
  BY DEF Octet
<1>2. \A n \in Nat : n % 256 \in 0 .. 255
  OBVIOUS
<1> QED
  BY <1>1, <1>2 DEF DlciOctet, Octet

LEMMA TwoOctetsSplit ==
  ASSUME NEW n, n \in TwoOctets
  PROVE  n % 256 \in Octet /\ n \div 256 \in Octet
<1>1. n \in Int /\ 0 <= n /\ n <= 65535
  BY DEF TwoOctets
<1> HIDE DEF TwoOctets
<1>2. n % 256 \in Octet
  BY <1>1 DEF Octet
<1>3. n \div 256 \in Octet
  BY <1>1 DEF Octet
<1> QED
  BY <1>2, <1>3

LEMMA InTwoOctets ==
  ASSUME NEW n \in Int, 0 <= n, n <= 65535
  PROVE  n \in TwoOctets
BY DEF TwoOctets

LEMMA BitValue ==
  ASSUME NEW b, NEW w \in Nat
  PROVE  Bit(b, w) \in {0, w}
  BY DEF Bit

(* Every encoder writes as many octets as its _encode_length says. *)
LEMMA NegotiationOctets ==
  ASSUME NEW p \in ParameterNegotiation
  PROVE  /\ ParameterNegotiationEncode(p) \in Seq(Octet)
         /\ Len(ParameterNegotiationEncode(p)) = 8
<1>1. p.dlci \in Octet /\ p.priority \in Octet /\ p.window_size \in Octet
  BY DEF ParameterNegotiation
<1>2. p.frame_type \in Nat /\ p.layer_type \in Nat /\ p.ack_timer_msec \in Nat
  BY DEF ParameterNegotiation
<1>3. p.max_retransmissions \in Octet /\ p.max_frame_size \in TwoOctets
  BY DEF ParameterNegotiation
<1>4. \A n \in Octet : n % 64 \in Octet /\ n % 8 \in Octet
  BY DEF Octet
<1>5. \A a, b \in Nat : (a % 16) + 16 * (b % 16) \in Octet
  <2>1. \A a \in Nat : a % 16 \in 0 .. 15
    OBVIOUS
  <2>2. \A a, b \in 0 .. 15 : a + 16 * b \in Octet
    BY DEF Octet
  <2> QED
    BY <2>1, <2>2
<1>6. \A t \in Nat : (t \div 100) % 256 \in Octet
  <2>1. \A t \in Nat : t \div 100 \in Nat
    OBVIOUS
  <2>2. \A t \in Nat : t % 256 \in Octet
    BY DEF Octet
  <2> QED
    BY <2>1, <2>2
<1>7. p.dlci % 64 \in Octet /\ p.priority % 64 \in Octet /\ p.window_size % 8 \in Octet
  BY <1>1, <1>4
<1>8. (p.frame_type % 16) + 16 * (p.layer_type % 16) \in Octet
  BY <1>2, <1>5
<1>9. (p.ack_timer_msec \div 100) % 256 \in Octet
  BY <1>2, <1>6
<1>10. p.max_frame_size % 256 \in Octet /\ p.max_frame_size \div 256 \in Octet
  BY <1>3, TwoOctetsSplit
<1> QED
  BY <1>3, <1>7, <1>8, <1>9, <1>10 DEF ParameterNegotiationEncode

LEMMA ModemOctets ==
  ASSUME NEW p \in ModemStatus
  PROVE  /\ ModemStatusEncode(p) \in Seq(Octet)
         /\ Len(ModemStatusEncode(p)) = 2
<1>1. DlciOctet(p.dlci) \in Octet
  BY DlciOctetIsOctet DEF ModemStatus
<1>2. 1 + Bit("fc" \in p.signals, 2) + Bit("rtc" \in p.signals, 4)
        + Bit("rtr" \in p.signals, 8) + Bit("ic" \in p.signals, 64)
        + Bit("dv" \in p.signals, 128) \in Octet
  BY BitValue DEF Octet
<1> QED
  BY <1>1, <1>2 DEF ModemStatusEncode

LEMMA LineOctets ==
  ASSUME NEW p \in LineStatus
  PROVE  /\ LineStatusEncode(p) \in Seq(Octet)
         /\ Len(LineStatusEncode(p)) = 2
<1>1. DlciOctet(p.dlci) \in Octet
  BY DlciOctetIsOctet DEF LineStatus
<1>2. p.status % 16 \in Octet
  BY DEF LineStatus, Octet
<1> QED
  BY <1>1, <1>2 DEF LineStatusEncode

LEMMA ServiceNegotiationOctets ==
  ASSUME NEW p \in ServiceNegotiation
  PROVE  /\ ServiceNegotiationEncode(p) \in Seq(Octet)
         /\ Len(ServiceNegotiationEncode(p)) = IF BothGiven(p) THEN 4 ELSE 2
<1>1. DlciOctet(p.dlci) \in Octet
  BY DlciOctetIsOctet DEF ServiceNegotiation
<1>2. p.service \in Octet /\ p.voice_codec \in Octet /\ 3 \in Octet /\ 1 \in Octet
  BY DEF ServiceNegotiation, ServiceValues, VoiceCodecs, Octet
<1> QED
  BY <1>1, <1>2 DEF ServiceNegotiationEncode

(* The octets of the port parameters. *)
LEMMA FlowOctet ==
  ASSUME NEW flags
  PROVE  FlowBits(flags) \in Octet
  BY BitValue DEF FlowBits, Octet

LEMMA LineOctet ==
  ASSUME NEW set
  PROVE  LineBits(set) \in Octet
  BY BitValue DEF LineBits, Octet

LEMMA CodesOfPort ==
  ASSUME NEW rate, NEW bits, NEW parity
  PROVE  /\ BaudKey(rate) \in 0 .. 8
         /\ DataBits(bits) \in 0 .. 3
         /\ ParityBits(parity) \in {0, 8, 24, 40, 56}
<1>1. BaudKey(rate) \in 0 .. 8
  BY DEF BaudKey, DefaultBaud
<1>2. DataBits(bits) \in 0 .. 3
  BY DEF DataBits
<1>3. ParityCode(parity) \in 0 .. 3
  BY DEF ParityCode
<1>4. \A c \in 0 .. 3 : 8 + 16 * c \in {8, 24, 40, 56}
  OBVIOUS
<1> QED
  BY <1>1, <1>2, <1>3, <1>4 DEF ParityBits

LEMMA PortOctets ==
  ASSUME NEW p \in PortParameters
  PROVE  /\ PortNegotiationEncode(p) \in Seq(Octet)
         /\ Len(PortNegotiationEncode(p)) = PortNegotiationLength(p)
<1>1. DlciOctet(p.dlci) \in Octet
  BY DlciOctetIsOctet DEF PortParameters
<1>2. /\ Sent(p, "xon", 17) \in Octet
      /\ Sent(p, "xoff", 19) \in Octet
  BY DEF PortParameters, Octet, Sent
<1>3. BaudKey(Sent(p, "speed", DefaultSpeed)) \in Octet
  BY CodesOfPort DEF Octet
<1>4. DataBits(Sent(p, "data_bits", 8)) + Bit(Sent(p, "stop_bits", 1) = 15, 4)
        + ParityBits(Sent(p, "parity", NoParity)) \in Octet
  <2>1. DataBits(Sent(p, "data_bits", 8)) \in 0 .. 3
    BY CodesOfPort
  <2>2. ParityBits(Sent(p, "parity", NoParity)) \in {0, 8, 24, 40, 56}
    BY CodesOfPort
  <2>3. Bit(Sent(p, "stop_bits", 1) = 15, 4) \in {0, 4}
    BY BitValue
  <2> QED
    BY <2>1, <2>2, <2>3 DEF Octet
<1>5. 1 \in Octet /\ 8 \in Octet
  BY DEF Octet
<1> QED
  BY <1>1, <1>2, <1>3, <1>4, <1>5, FlowOctet, LineOctet
  DEF PortNegotiationEncode, PortNegotiationLength

----------------------------------------------------------------------------
(* The services that cmux_service_request_codec.c knows, by their requests. *)
Services == Bodyless \cup {PARAMETER_NEGOTIATION, TEST, MODEM_STATUS,
  REMOTE_PORT_NEGOTIATION, REMOTE_LINE_STATUS, SERVICE_NEGOTIATION}

LEMMA RequestCases ==
  ASSUME NEW r \in Request
  PROVE  /\ r = [service |-> r.service, cr |-> r.cr, data |-> r.data]
         /\ r.cr \in BOOLEAN
         /\ \/ r.service = PARAMETER_NEGOTIATION /\ r.data \in ParameterNegotiation
            \/ r.service = MODEM_STATUS /\ r.data \in ModemStatus
            \/ r.service = REMOTE_PORT_NEGOTIATION /\ r.data \in PortParameters
            \/ r.service = REMOTE_LINE_STATUS /\ r.data \in LineStatus
            \/ r.service = SERVICE_NEGOTIATION /\ r.data \in ServiceNegotiation
            \/ r.service = TEST /\ r.data \in TestData
            \/ r.service \in Bodyless /\ r.data = NoData
  BY DEF Request

(* cmux_service_request_encode writes a body of the length that            *)
(* cmux_service_request_get_length counted, all of it octets.              *)
LEMMA BodyOctets ==
  ASSUME NEW r \in Request
  PROVE  BodyEncode(r) \in Seq(Octet) /\ Len(BodyEncode(r)) = BodyLength(r)
<1> USE DEF PARAMETER_NEGOTIATION, MODEM_STATUS, REMOTE_PORT_NEGOTIATION,
            REMOTE_LINE_STATUS, SERVICE_NEGOTIATION, TEST, BodyEncode, BodyLength
<1>1. CASE r.service = PARAMETER_NEGOTIATION /\ r.data \in ParameterNegotiation
  BY <1>1, NegotiationOctets
<1>2. CASE r.service = MODEM_STATUS /\ r.data \in ModemStatus
  BY <1>2, ModemOctets
<1>3. CASE r.service = REMOTE_PORT_NEGOTIATION /\ r.data \in PortParameters
  BY <1>3, PortOctets
<1>4. CASE r.service = REMOTE_LINE_STATUS /\ r.data \in LineStatus
  BY <1>4, LineOctets
<1>5. CASE r.service = SERVICE_NEGOTIATION /\ r.data \in ServiceNegotiation
  <2>1. BodyEncode(r) = ServiceNegotiationEncode(r.data)
    BY <1>5
  <2>2. CASE BothGiven(r.data)
    BY <1>5, <2>1, <2>2, ServiceNegotiationOctets
  <2>3. CASE ~BothGiven(r.data)
    BY <1>5, <2>1, <2>3, ServiceNegotiationOctets
  <2> QED
    BY <2>2, <2>3
<1>6. CASE r.service = TEST /\ r.data \in TestData
  BY <1>6 DEF TestData
<1>7. CASE r.service \in Bodyless
  BY <1>7 DEF Bodyless, POWER_SAVING, MULTIPLEXER_CLOSE_DOWN,
              FLOW_CONTROL_ON, FLOW_CONTROL_OFF, UNSUPPORTED
<1> QED
  BY <1>1, <1>2, <1>3, <1>4, <1>5, <1>6, <1>7, RequestCases

(* Service and C/R bit come back from the first octet. *)
LEMMA HeaderOctet ==
  ASSUME NEW s \in Services, NEW cr \in BOOLEAN
  PROVE  LET octet == 4 * (s \div 4) + 1 + Bit(cr, 2)
         IN  octet \in Octet /\ 4 * (octet \div 4) = s /\ HasBit(octet, 2) = cr
<1> DEFINE Codes == {128, 64, 192, 32, 160, 96, 224, 16, 144, 80, 208}
           octet == 4 * (s \div 4) + 1 + Bit(cr, 2)
<1>1. s \in Codes
  BY DEF Services, Bodyless, PARAMETER_NEGOTIATION, MODEM_STATUS,
         REMOTE_PORT_NEGOTIATION, REMOTE_LINE_STATUS, SERVICE_NEGOTIATION, TEST,
         POWER_SAVING, MULTIPLEXER_CLOSE_DOWN, FLOW_CONTROL_ON,
         FLOW_CONTROL_OFF, UNSUPPORTED
<1>2. 4 * (s \div 4) = s
  BY <1>1
<1>3. \A c \in Codes, b \in {1, 3} :
        c + b \in 0 .. 255 /\ 4 * ((c + b) \div 4) = c
  OBVIOUS
<1>4. \A c \in Codes : ((c + 3) \div 2) % 2 = 1 /\ ((c + 1) \div 2) % 2 = 0
  OBVIOUS
<1>5. s + 1 + 2 = s + 3 /\ s + 1 + 0 = s + 1
  BY <1>1
<1>6. octet = IF cr THEN s + 3 ELSE s + 1
  BY <1>2, <1>5 DEF Bit
<1>7. HasBit(octet, 2) <=> cr
  BY <1>1, <1>4, <1>6 DEF HasBit
<1>8. octet \in Octet /\ 4 * (octet \div 4) = s
  BY <1>1, <1>3, <1>6 DEF Octet
<1> QED
  BY <1>7, <1>8 DEF HasBit

(* The length field, and where the pieces of a message stand. *)
LEMMA LengthField ==
  ASSUME NEW n \in Nat
  PROVE  /\ LengthOctets(n) \in Seq(Octet)
         /\ Len(LengthOctets(n)) = IF n > 127 THEN 2 ELSE 1
         /\ n <= 127 => LengthOctets(n)[1] = 2 * n + 1
         /\ n > 127 => /\ LengthOctets(n)[1] = 2 * (n % 128)
                       /\ LengthOctets(n)[2] = (n \div 128) % 256
<1>1. CASE n <= 127
  <2>1. 2 * n + 1 \in Octet
    BY <1>1 DEF Octet
  <2>2. LengthOctets(n) = <<2 * n + 1>>
    BY <1>1 DEF LengthOctets
  <2> QED
    BY <1>1, <2>1, <2>2
<1>2. CASE n > 127
  <2>1. n % 128 \in 0 .. 127 /\ n \div 128 \in Nat
    OBVIOUS
  <2>2. \A m \in 0 .. 127 : 2 * m \in Octet
    BY DEF Octet
  <2>3. \A m \in Nat : m % 256 \in Octet
    BY DEF Octet
  <2> QED
    BY <1>2, <2>1, <2>2, <2>3 DEF LengthOctets
<1> QED
  BY <1>1, <1>2

LEMMA ThreePieces ==
  ASSUME NEW a \in Octet, NEW mid \in Seq(Octet), Len(mid) \in {1, 2},
         NEW body \in Seq(Octet)
  PROVE  LET o == <<a>> \o mid \o body IN
         /\ o \in Seq(Octet)
         /\ Len(o) = 1 + Len(mid) + Len(body)
         /\ o[1] = a
         /\ \A i \in 1 .. Len(mid) : o[i + 1] = mid[i]
         /\ SubSeq(o, Len(mid) + 2, Len(o)) = body
<1> DEFINE o == <<a>> \o mid \o body
           head == <<a>> \o mid
<1>1. <<a>> \in Seq(Octet) /\ Len(<<a>>) = 1 /\ <<a>>[1] = a
  OBVIOUS
<1>2. /\ head \in Seq(Octet)
      /\ Len(head) = 1 + Len(mid)
      /\ \A i \in 1 .. 1 + Len(mid) :
           head[i] = IF i <= 1 THEN <<a>>[i] ELSE mid[i - 1]
  BY <1>1, ConcatProperties
<1>3. o = head \o body
  OBVIOUS
<1> HIDE DEF head, o
<1>4. /\ o \in Seq(Octet)
      /\ Len(o) = Len(head) + Len(body)
      /\ \A i \in 1 .. Len(head) + Len(body) :
           o[i] = IF i <= Len(head) THEN head[i] ELSE body[i - Len(head)]
  BY <1>2, <1>3, ConcatProperties
<1>5. Len(mid) \in Nat /\ Len(body) \in Nat
  OBVIOUS
<1>6. o[1] = head[1] /\ head[1] = a
  BY <1>1, <1>2, <1>4, <1>5
<1>7. ASSUME NEW i \in 1 .. Len(mid) PROVE o[i + 1] = mid[i]
  BY <1>2, <1>4, <1>5
<1>8. SubSeq(o, Len(head) + 1, Len(o)) = body
  <2>1. CASE Len(body) = 0
    BY <1>2, <1>4, <1>5, <2>1, SubSeqEmpty
  <2>2. CASE Len(body) > 0
    <3>1. SubSeq(o, Len(head) + 1, Len(o)) = SubSeq(body, 1, Len(body))
      <4>1. /\ Len(head) + 1 \in Len(head) + 1 .. Len(head) + Len(body)
            /\ Len(o) \in Len(head) + 1 .. Len(head) + Len(body)
        BY <1>2, <1>4, <1>5, <2>2
      <4>2. (Len(head) + 1) - Len(head) = 1 /\ Len(o) - Len(head) = Len(body)
        BY <1>2, <1>4, <1>5
      <4>3. SubSeq(head \o body, Len(head) + 1, Len(o))
              = SubSeq(body, (Len(head) + 1) - Len(head), Len(o) - Len(head))
        BY <1>2, <4>1, SubSeqOfConcat2
      <4> QED
        BY <1>3, <4>2, <4>3
    <3> QED
      BY <3>1, SubSeqFull
  <2> QED
    BY <1>5, <2>1, <2>2
<1>9. Len(head) + 1 = Len(mid) + 2 /\ Len(o) = 1 + Len(mid) + Len(body)
  BY <1>2, <1>4, <1>5
<1> QED
  BY <1>4, <1>6, <1>7, <1>8, <1>9 DEF o

(* Eight bits of a length of eight bits or more come back as nine. *)
LEMMA LongLengthLost ==
  ASSUME NEW n \in Nat, n > 127
  PROVE  ((2 * (n % 128)) \div 2) + 256 * ((n \div 128) % 256) # n
<1>1. /\ n \div 128 \in Nat /\ n \div 128 > 0 /\ n % 128 \in Nat
      /\ n = 128 * (n \div 128) + (n % 128)
  OBVIOUS
<1>2. \A m \in Nat : (2 * m) \div 2 = m
  OBVIOUS
<1>3. \A q \in Nat : q > 0 => q % 256 \in Nat /\ 256 * (q % 256) # 128 * q
  OBVIOUS
<1>4. \A q, k \in Nat : q > 0 => k + 256 * (q % 256) # 128 * q + k
  <2> SUFFICES ASSUME NEW q \in Nat, NEW k \in Nat, q > 0
               PROVE  k + 256 * (q % 256) # 128 * q + k
    OBVIOUS
  <2>1. q % 256 \in Nat /\ 256 * (q % 256) # 128 * q
    BY <1>3
  <2>2. PICK m \in Nat : m = q % 256
    BY <2>1
  <2> QED
    BY <2>1, <2>2
<1> DEFINE q == n \div 128
           k == n % 128
<1>5. q \in Nat /\ k \in Nat /\ q > 0 /\ n = 128 * q + k
  BY <1>1
<1>6. (2 * k) \div 2 = k
  BY <1>2, <1>5
<1> HIDE DEF q, k
<1>7. ((2 * k) \div 2) + 256 * (q % 256) # n
  BY <1>4, <1>5, <1>6
<1> QED
  BY <1>7 DEF q, k

(* What the decoder finds in a message. *)
LEMMA MessageDecodes ==
  ASSUME NEW s \in Services, NEW cr \in BOOLEAN, NEW body \in Seq(Octet),
         NEW o, o = ServiceEncode(s, cr, body, Len(body))
  PROVE  /\ o \in Seq(Octet) /\ o # <<>>
         /\ Len(o) = ServiceLength(Len(body))
         /\ o[1] = 4 * (s \div 4) + 1 + Bit(cr, 2)
         /\ DecodedBody(o) = body
         /\ DecodedLength(o) = Len(body) <=> Len(body) <= 127
<1> DEFINE n == Len(body)
           first == 4 * (s \div 4) + 1 + Bit(cr, 2)
<1>1. n \in Nat
  OBVIOUS
<1>2. first \in Octet
  BY HeaderOctet
<1>3. /\ LengthOctets(n) \in Seq(Octet)
      /\ Len(LengthOctets(n)) = IF n > 127 THEN 2 ELSE 1
  BY <1>1, LengthField
<1>4. o = <<first>> \o LengthOctets(n) \o body
  BY DEF ServiceEncode
<1>5. /\ o \in Seq(Octet)
      /\ Len(o) = 1 + Len(LengthOctets(n)) + n
      /\ o[1] = first
      /\ \A i \in 1 .. Len(LengthOctets(n)) : o[i + 1] = LengthOctets(n)[i]
      /\ SubSeq(o, Len(LengthOctets(n)) + 2, Len(o)) = body
  <2> DEFINE mid == LengthOctets(n)
  <2>1. mid \in Seq(Octet) /\ Len(mid) \in {1, 2}
    BY <1>3
  <2>2. o = <<first>> \o mid \o body
    BY <1>4
  <2> HIDE DEF first, mid
  <2>3. LET x == <<first>> \o mid \o body IN
        /\ x \in Seq(Octet)
        /\ Len(x) = 1 + Len(mid) + Len(body)
        /\ x[1] = first
        /\ \A i \in 1 .. Len(mid) : x[i + 1] = mid[i]
        /\ SubSeq(x, Len(mid) + 2, Len(x)) = body
    BY <1>2, <2>1, ThreePieces
  <2> QED
    BY <2>2, <2>3 DEF mid
<1>6. o[2] = LengthOctets(n)[1]
  <2>1. 1 \in 1 .. Len(LengthOctets(n)) /\ 1 + 1 = 2
    BY <1>3
  <2> QED
    BY <1>5, <2>1
<1>7. n > 127 => o[3] = LengthOctets(n)[2]
  <2>1. n > 127 => 2 \in 1 .. Len(LengthOctets(n)) /\ 2 + 1 = 3
    BY <1>3
  <2> QED
    BY <1>5, <2>1
<1>8. /\ n <= 127 => o[2] = 2 * n + 1
      /\ n > 127 => o[2] = 2 * (n % 128) /\ o[3] = (n \div 128) % 256
  BY <1>1, <1>6, <1>7, LengthField
<1>9. Extended(o) <=> n > 127
  <2>1. \A m \in Nat : (2 * m) % 2 = 0 /\ (2 * m + 1) % 2 = 1
    OBVIOUS
  <2>2. n % 128 \in Nat
    BY <1>1
  <2>3. CASE n <= 127
    BY <1>1, <1>8, <2>1, <2>3 DEF Extended
  <2>4. CASE n > 127
    BY <1>8, <2>1, <2>2, <2>4 DEF Extended
  <2> QED
    BY <1>1, <2>3, <2>4
<1>10. DecodedBody(o) = body
  <2>1. Len(LengthOctets(n)) + 2 = IF Extended(o) THEN 4 ELSE 3
    BY <1>3, <1>9
  <2> QED
    BY <1>5, <2>1 DEF DecodedBody
<1>11. n <= 127 => DecodedLength(o) = n
  <2>1. \A m \in Nat : (2 * m + 1) \div 2 = m
    OBVIOUS
  <2> QED
    BY <1>1, <1>8, <1>9, <2>1 DEF DecodedLength
<1>12. n > 127 => DecodedLength(o) # n
  BY <1>1, <1>8, <1>9, LongLengthLost DEF DecodedLength
<1>13. Len(o) = ServiceLength(n) /\ o # <<>>
  BY <1>1, <1>3, <1>5 DEF ServiceLength
<1> QED
  BY <1>1, <1>5, <1>6, <1>10, <1>11, <1>12, <1>13

----------------------------------------------------------------------------
(* Each body, decoded and encoded again, is the same.                      *)
LEMMA DlciAgain ==
  ASSUME NEW d \in Octet
  PROVE  /\ DlciOctet(d) \div 4 \in Octet
         /\ DlciOctet(DlciOctet(d) \div 4) = DlciOctet(d)
<1>1. PICK k \in 0 .. 63 : (4 * d + 3) % 256 = 4 * k + 3
  BY DEF Octet
<1>2. DlciOctet(d) = 4 * k + 3
  BY <1>1 DEF DlciOctet
<1>3. (4 * k + 3) \div 4 = k /\ (4 * k + 3) % 256 = 4 * k + 3
  OBVIOUS
<1> QED
  BY <1>2, <1>3 DEF DlciOctet, Octet

LEMMA NegotiationAgain ==
  ASSUME NEW p \in ParameterNegotiation,
         NEW q, q = ParameterNegotiationDecode(ParameterNegotiationEncode(p))
  PROVE  /\ q \in ParameterNegotiation
         /\ ParameterNegotiationEncode(q) = ParameterNegotiationEncode(p)
<1> DEFINE o == ParameterNegotiationEncode(p)
<1>1. /\ o \in Seq(Octet) /\ Len(o) = 8
      /\ \A i \in 1 .. 8 : o[i] \in Octet
  BY NegotiationOctets
<1>2. /\ o[1] = p.dlci % 64 /\ o[3] = p.priority % 64 /\ o[8] = p.window_size % 8
      /\ o = <<o[1], o[2], o[3], o[4], o[5], o[6], o[7], o[8]>>
  BY DEF ParameterNegotiationEncode
<1>3. \A n \in Octet : n % 64 \in 0 .. 63 /\ n % 8 \in 0 .. 7
  BY DEF Octet
<1>4. o[1] \in 0 .. 63 /\ o[3] \in 0 .. 63 /\ o[8] \in 0 .. 7
  <2>1. p.dlci \in Octet /\ p.priority \in Octet /\ p.window_size \in Octet
    BY DEF ParameterNegotiation
  <2> QED
    BY <1>2, <1>3, <2>1
<1> HIDE DEF o
<1>5. q = [dlci |-> o[1] % 64, frame_type |-> o[2] % 16, layer_type |-> o[2] \div 16,
           priority |-> o[3] % 64, ack_timer_msec |-> o[4] * 100,
           max_frame_size |-> o[5] + 256 * o[6],
           max_retransmissions |-> o[7], window_size |-> o[8] % 8]
  BY DEF ParameterNegotiationDecode, o
<1>6. \A n \in 0 .. 63 : n % 64 = n /\ n \in Octet
  BY DEF Octet
<1>7. \A n \in 0 .. 7 : n % 8 = n /\ n \in Octet
  BY DEF Octet
<1>8. \A n \in Octet : /\ n % 16 \in Nat /\ n \div 16 \in Nat /\ n * 100 \in Nat
                        /\ ((n % 16) % 16) + 16 * ((n \div 16) % 16) = n
                        /\ ((n * 100) \div 100) % 256 = n
  <2> SUFFICES ASSUME NEW n \in Octet
               PROVE  /\ n % 16 \in Nat /\ n \div 16 \in Nat /\ n * 100 \in Nat
                      /\ ((n % 16) % 16) + 16 * ((n \div 16) % 16) = n
                      /\ ((n * 100) \div 100) % 256 = n
    OBVIOUS
  <2>1. n \in 0 .. 255
    BY DEF Octet
  <2>2. PICK k \in 0 .. 15, m \in 0 .. 15 : n = 16 * k + m /\ n \div 16 = k /\ n % 16 = m
    BY <2>1
  <2>3. m % 16 = m /\ k % 16 = k
    OBVIOUS
  <2>4. (n * 100) \div 100 = n /\ n % 256 = n
    BY <2>1
  <2> QED
    BY <2>1, <2>2, <2>3, <2>4
<1>9. /\ o[5] + 256 * o[6] \in TwoOctets
      /\ (o[5] + 256 * o[6]) % 256 = o[5]
      /\ (o[5] + 256 * o[6]) \div 256 = o[6]
  <2> DEFINE a == o[5]
             b == o[6]
  <2>1. a \in 0 .. 255 /\ b \in 0 .. 255
    BY <1>1 DEF Octet
  <2> HIDE DEF a, b
  <2>2. a + 256 * b \in Int /\ 0 <= a + 256 * b /\ a + 256 * b <= 65535
    BY <2>1
  <2>3. (a + 256 * b) % 256 = a /\ (a + 256 * b) \div 256 = b
    BY <2>1
  <2> QED
    BY <2>2, <2>3, InTwoOctets DEF a, b
<1>10. /\ q.dlci = o[1] /\ q.priority = o[3] /\ q.window_size = o[8]
       /\ q.max_retransmissions = o[7]
  BY <1>4, <1>5, <1>6, <1>7
<1>11. /\ q.frame_type = o[2] % 16 /\ q.layer_type = o[2] \div 16
       /\ q.ack_timer_msec = o[4] * 100
       /\ q.max_frame_size = o[5] + 256 * o[6]
  BY <1>5
<1>12. q \in ParameterNegotiation
  <2>1. o[1] \in Octet /\ o[3] \in Octet /\ o[7] \in Octet /\ o[8] \in Octet
    BY <1>1
  <2>2. o[2] % 16 \in Nat /\ o[2] \div 16 \in Nat /\ o[4] * 100 \in Nat
    BY <1>1, <1>8
  <2>3. o[1] % 64 \in Octet /\ o[3] % 64 \in Octet /\ o[8] % 8 \in Octet
    BY <1>4, <1>6, <1>7
  <2>4. o[5] + 256 * o[6] \in TwoOctets
    BY <1>9
  <2> DEFINE size == o[5] + 256 * o[6]
             timer == o[4] * 100
             type == o[2] % 16
             layer == o[2] \div 16
  <2> HIDE DEF size, timer, type, layer
  <2>5. q = [dlci |-> o[1] % 64, frame_type |-> type, layer_type |-> layer,
             priority |-> o[3] % 64, ack_timer_msec |-> timer,
             max_frame_size |-> size,
             max_retransmissions |-> o[7], window_size |-> o[8] % 8]
    BY <1>5 DEF size, timer, type, layer
  <2>6. size \in TwoOctets /\ timer \in Nat /\ type \in Nat /\ layer \in Nat
    BY <2>2, <2>4 DEF size, timer, type, layer
  <2> QED
    BY <2>1, <2>3, <2>5, <2>6 DEF ParameterNegotiation
<1>13. /\ q.dlci % 64 = o[1] /\ q.priority % 64 = o[3] /\ q.window_size % 8 = o[8]
       /\ q.max_retransmissions = o[7]
  BY <1>4, <1>6, <1>7, <1>10
<1>14. (q.frame_type % 16) + 16 * (q.layer_type % 16) = o[2]
  BY <1>1, <1>8, <1>11
<1>15. (q.ack_timer_msec \div 100) % 256 = o[4]
  BY <1>1, <1>8, <1>11
<1>16. q.max_frame_size % 256 = o[5] /\ q.max_frame_size \div 256 = o[6]
  BY <1>9, <1>11
<1>17. ParameterNegotiationEncode(q) = <<o[1], o[2], o[3], o[4], o[5], o[6], o[7], o[8]>>
  BY <1>13, <1>14, <1>15, <1>16 DEF ParameterNegotiationEncode
<1> QED
  BY <1>2, <1>12, <1>17 DEF o

LEMMA LineAgain ==
  ASSUME NEW p \in LineStatus, NEW q, q = LineStatusDecode(LineStatusEncode(p))
  PROVE  q \in LineStatus /\ LineStatusEncode(q) = LineStatusEncode(p)
<1>1. p.dlci \in Octet /\ p.status \in Nat
  BY DEF LineStatus
<1>2. q = [dlci |-> DlciOctet(p.dlci) \div 4, status |-> (p.status % 16) % 16]
  BY DEF LineStatusDecode, LineStatusEncode
<1>3. p.status % 16 \in Nat /\ (p.status % 16) % 16 = p.status % 16
  BY <1>1
<1> QED
  BY <1>1, <1>2, <1>3, DlciAgain DEF LineStatus, LineStatusEncode

LEMMA ServiceNegotiationDecoded ==
  ASSUME NEW p \in ServiceNegotiation,
         NEW q, q = ServiceNegotiationDecode(ServiceNegotiationEncode(p))
  PROVE  q = [dlci |-> DlciOctet(p.dlci) \div 4,
              service |-> IF BothGiven(p) THEN p.service ELSE 0,
              voice_codec |-> IF BothGiven(p) THEN p.voice_codec ELSE 0]
<1>1. p.service \in ServiceValues /\ p.voice_codec \in VoiceCodecs
  BY DEF ServiceNegotiation
<1>2. \A v \in ServiceValues \cup VoiceCodecs : v - (v % 2) = v
  BY DEF ServiceValues, VoiceCodecs
<1>3. CASE BothGiven(p)
  <2>1. q = [dlci |-> DlciOctet(p.dlci) \div 4,
             service |-> p.service - (p.service % 2),
             voice_codec |-> p.voice_codec - (p.voice_codec % 2)]
    BY <1>3 DEF ServiceNegotiationDecode, ServiceNegotiationEncode
  <2> QED
    BY <1>1, <1>2, <1>3, <2>1
<1>4. CASE ~BothGiven(p)
  BY <1>4 DEF ServiceNegotiationDecode, ServiceNegotiationEncode
<1> QED
  BY <1>3, <1>4

LEMMA ServiceNegotiationAgain ==
  ASSUME NEW p \in ServiceNegotiation,
         NEW q, q = ServiceNegotiationDecode(ServiceNegotiationEncode(p))
  PROVE  /\ q \in ServiceNegotiation
         /\ ServiceNegotiationEncode(q) = ServiceNegotiationEncode(p)
<1>1. /\ p.dlci \in Octet /\ p.service \in ServiceValues
      /\ p.voice_codec \in VoiceCodecs
  BY DEF ServiceNegotiation
<1>2. q = [dlci |-> DlciOctet(p.dlci) \div 4,
           service |-> IF BothGiven(p) THEN p.service ELSE 0,
           voice_codec |-> IF BothGiven(p) THEN p.voice_codec ELSE 0]
  BY ServiceNegotiationDecoded
<1>3. 0 \in ServiceValues /\ 0 \in VoiceCodecs
  BY DEF ServiceValues, VoiceCodecs
<1>4. CASE BothGiven(p)
  BY <1>1, <1>2, <1>4, DlciAgain
  DEF ServiceNegotiation, ServiceNegotiationEncode, BothGiven
<1>5. CASE ~BothGiven(p)
  BY <1>1, <1>2, <1>3, <1>5, DlciAgain
  DEF ServiceNegotiation, ServiceNegotiationEncode, BothGiven
<1> QED
  BY <1>4, <1>5

(* The bits of an octet. *)
LEMMA EightBits ==
  ASSUME NEW b1 \in {0, 1}, NEW b2 \in {0, 1}, NEW b4 \in {0, 1},
         NEW b8 \in {0, 1}, NEW b16 \in {0, 1}, NEW b32 \in {0, 1},
         NEW b64 \in {0, 1}, NEW b128 \in {0, 1},
         NEW o, o = b1 + 2 * b2 + 4 * b4 + 8 * b8 + 16 * b16 + 32 * b32
                      + 64 * b64 + 128 * b128
  PROVE  /\ HasBit(o, 1) <=> b1 = 1
         /\ HasBit(o, 2) <=> b2 = 1
         /\ HasBit(o, 4) <=> b4 = 1
         /\ HasBit(o, 8) <=> b8 = 1
         /\ HasBit(o, 16) <=> b16 = 1
         /\ HasBit(o, 32) <=> b32 = 1
         /\ HasBit(o, 64) <=> b64 = 1
         /\ HasBit(o, 128) <=> b128 = 1
<1>1. o \in Int
  OBVIOUS
<1>2. (o \div 1) % 2 = b1
  OBVIOUS
<1>3. (o \div 2) % 2 = b2
  OBVIOUS
<1>4. (o \div 4) % 2 = b4
  OBVIOUS
<1>5. (o \div 8) % 2 = b8
  OBVIOUS
<1>6. (o \div 16) % 2 = b16
  OBVIOUS
<1>7. (o \div 32) % 2 = b32
  OBVIOUS
<1>8. (o \div 64) % 2 = b64
  OBVIOUS
<1>9. (o \div 128) % 2 = b128
  OBVIOUS
<1> QED
  BY <1>2, <1>3, <1>4, <1>5, <1>6, <1>7, <1>8, <1>9 DEF HasBit

(* All signals come back, and every bit of the port parameters' masks.     *)
LEMMA ModemDecoded ==
  ASSUME NEW p \in ModemStatus, NEW q, q = ModemStatusDecode(ModemStatusEncode(p))
  PROVE  q = [dlci |-> DlciOctet(p.dlci) \div 4, signals |-> p.signals]
<1> DEFINE B(s) == Bit(s \in p.signals, 1)
           octet == 1 + Bit("fc" \in p.signals, 2) + Bit("rtc" \in p.signals, 4)
                      + Bit("rtr" \in p.signals, 8) + Bit("ic" \in p.signals, 64)
                      + Bit("dv" \in p.signals, 128)
<1>1. p.dlci \in Octet /\ p.signals \in SUBSET Signals
  BY DEF ModemStatus
<1>2. \A s \in Signals : B(s) \in {0, 1} /\ (B(s) = 1 <=> s \in p.signals)
  BY DEF Bit
<1>3. octet = 1 + 2 * B("fc") + 4 * B("rtc") + 8 * B("rtr") + 16 * 0 + 32 * 0
                + 64 * B("ic") + 128 * B("dv")
  BY DEF Bit
<1>4. /\ HasBit(octet, 2) <=> B("fc") = 1
      /\ HasBit(octet, 4) <=> B("rtc") = 1
      /\ HasBit(octet, 8) <=> B("rtr") = 1
      /\ HasBit(octet, 64) <=> B("ic") = 1
      /\ HasBit(octet, 128) <=> B("dv") = 1
  <2> HIDE DEF octet, B
  <2> QED
    BY <1>2, <1>3, EightBits DEF Signals
<1>5. q = [dlci |-> DlciOctet(p.dlci) \div 4,
           signals |-> {s \in Signals : HasBit(octet, SignalWeight[s])}]
  BY DEF ModemStatusDecode, ModemStatusEncode
<1> HIDE DEF octet, B
<1>6. {s \in Signals : HasBit(octet, SignalWeight[s])} = p.signals
  BY <1>1, <1>2, <1>4 DEF Signals, SignalWeight
<1> QED
  BY <1>5, <1>6

LEMMA ModemAgain ==
  ASSUME NEW p \in ModemStatus, NEW q, q = ModemStatusDecode(ModemStatusEncode(p))
  PROVE  q \in ModemStatus /\ ModemStatusEncode(q) = ModemStatusEncode(p)
<1>1. p.dlci \in Octet /\ p.signals \in SUBSET Signals
  BY DEF ModemStatus
<1>2. q = [dlci |-> DlciOctet(p.dlci) \div 4, signals |-> p.signals]
  BY ModemDecoded
<1> QED
  BY <1>1, <1>2, DlciAgain DEF ModemStatus, ModemStatusEncode

LEMMA FlowMask ==
  ASSUME NEW flags
  PROVE  \A f \in FlowFlags : HasBit(FlowBits(flags), FlowWeight[f]) <=> f \in flags
<1> DEFINE B(f) == Bit(f \in flags, 1)
<1>1. \A f \in FlowFlags : B(f) \in {0, 1} /\ (B(f) = 1 <=> f \in flags)
  BY DEF Bit
<1>2. FlowBits(flags) =
        B("input_xon_xoff") + 2 * B("output_xon_xoff") + 4 * B("input_rtr")
          + 8 * B("output_rtr") + 16 * B("input_rtc") + 32 * B("output_rtc")
          + 64 * 0 + 128 * 0
  BY DEF FlowBits, Bit
<1> HIDE DEF B
<1>3. /\ HasBit(FlowBits(flags), 1) <=> B("input_xon_xoff") = 1
      /\ HasBit(FlowBits(flags), 2) <=> B("output_xon_xoff") = 1
      /\ HasBit(FlowBits(flags), 4) <=> B("input_rtr") = 1
      /\ HasBit(FlowBits(flags), 8) <=> B("output_rtr") = 1
      /\ HasBit(FlowBits(flags), 16) <=> B("input_rtc") = 1
      /\ HasBit(FlowBits(flags), 32) <=> B("output_rtc") = 1
  BY <1>1, <1>2, EightBits DEF FlowFlags
<1> QED
  BY <1>1, <1>3 DEF FlowFlags, FlowWeight

LEMMA LineMask ==
  ASSUME NEW set
  PROVE  \A f \in LineParameters :
           /\ HasBit(LineBits(set), LineWeight[f]) <=> f \in set
           /\ HasBit(LineBits(set), 16) <=> "parity" \in set
<1> DEFINE B(f) == Bit(f \in set, 1)
<1>1. \A f \in LineParameters : B(f) \in {0, 1} /\ (B(f) = 1 <=> f \in set)
  BY DEF Bit
<1>2. LineBits(set) =
        B("speed") + 2 * B("data_bits") + 4 * B("stop_bits") + 8 * B("parity")
          + 16 * B("parity") + 32 * B("xon") + 64 * B("xoff") + 128 * 0
  BY DEF LineBits, Bit
<1> HIDE DEF B
<1>3. /\ HasBit(LineBits(set), 1) <=> B("speed") = 1
      /\ HasBit(LineBits(set), 2) <=> B("data_bits") = 1
      /\ HasBit(LineBits(set), 4) <=> B("stop_bits") = 1
      /\ HasBit(LineBits(set), 8) <=> B("parity") = 1
      /\ HasBit(LineBits(set), 16) <=> B("parity") = 1
      /\ HasBit(LineBits(set), 32) <=> B("xon") = 1
      /\ HasBit(LineBits(set), 64) <=> B("xoff") = 1
  BY <1>1, <1>2, EightBits DEF LineParameters
<1> QED
  BY <1>1, <1>3 DEF LineParameters, LineWeight

(* Each code of the line, decoded and encoded again, is the same.          *)
LEMMA BaudAgain ==
  ASSUME NEW k \in 0 .. 8
  PROVE  BaudRates[k + 1] \in Nat /\ BaudKey(BaudRates[k + 1]) = k
<1>1. \A i, j \in 0 .. 8 : BaudRates[i + 1] = BaudRates[j + 1] => i = j
  BY DEF BaudRates
<1> QED
  BY <1>1 DEF BaudKey, BaudRates

LEMMA FormatAgain ==
  ASSUME NEW d \in 0 .. 3, NEW s \in {0, 4}, NEW y \in {0, 8, 24, 40, 56},
         NEW o, o = d + s + y
  PROVE  /\ o % 4 = d
         /\ HasBit(o, 4) <=> s = 4
         /\ HasBit(o, 8) <=> y # 0
         /\ y # 0 => (o \div 16) % 4 = y \div 16
<1>1. o % 4 = d
  OBVIOUS
<1>2. (o \div 4) % 2 = 1 <=> s = 4
  OBVIOUS
<1>3. (o \div 8) % 2 = 1 <=> y # 0
  OBVIOUS
<1>4. y # 0 => (o \div 16) % 4 = y \div 16
  OBVIOUS
<1> QED
  BY <1>1, <1>2, <1>3, <1>4 DEF HasBit

LEMMA ParityAgain ==
  ASSUME NEW y \in {0, 8, 24, 40, 56},
         NEW v, v = IF y = 0 THEN NoParity ELSE y \div 16
  PROVE  ParityBits(v) = y /\ v \in Octet
<1>1. y # 0 => y \div 16 \in 0 .. 3 /\ 8 + 16 * (y \div 16) = y
  OBVIOUS
<1>2. \A c \in 0 .. 3 : ParityBits(c) = 8 + 16 * c /\ c \in Octet
  BY DEF ParityBits, ParityCode, NoParity, Octet
<1>3. ParityBits(NoParity) = 0 /\ NoParity \in Octet
  BY DEF ParityBits, NoParity, Octet
<1> QED
  BY <1>1, <1>2, <1>3

(* q has the fields of struct remote_port_parameters_t. *)
PortRecord(q) == q = [dlci |-> q.dlci, set |-> q.set, value |-> q.value]

LEMMA PortTyped ==
  ASSUME NEW q, PortRecord(q),
         q.dlci \in Octet, q.set \in SUBSET Parameters,
         q.value \in [Parameters -> Nat],
         \A f \in {"data_bits", "stop_bits", "parity", "xon", "xoff"} :
           q.value[f] \in Octet,
         \A f \in FlowFlags : q.value[f] \in {0, 1}
  PROVE  q \in PortParameters
<1>1. q \in [dlci : Octet, set : SUBSET Parameters, value : [Parameters -> Nat]]
  BY DEF PortRecord
<1> QED
  BY <1>1 DEF PortParameters

(* What the encoder writes and the decoder finds, definition by definition. *)
LEMMA QueryEncoded ==
  ASSUME NEW p, ~HasChanges(p)
  PROVE  PortNegotiationEncode(p) = <<1, DlciOctet(p.dlci)>>
BY DEF PortNegotiationEncode

LEMMA PortEncoded ==
  ASSUME NEW p, HasChanges(p)
  PROVE  PortNegotiationEncode(p) =
           <<8, DlciOctet(p.dlci), BaudKey(Sent(p, "speed", DefaultSpeed)),
             DataBits(Sent(p, "data_bits", 8))
               + Bit(Sent(p, "stop_bits", 1) = 15, 4)
               + ParityBits(Sent(p, "parity", NoParity)),
             FlowBits({f \in FlowFlags \cap p.set : p.value[f] # 0}),
             Sent(p, "xon", 17), Sent(p, "xoff", 19),
             LineBits(p.set), FlowBits(p.set)>>
BY DEF PortNegotiationEncode

LEMMA PortDecoded ==
  ASSUME NEW o, NEW q, q = PortNegotiationDecode(o)
  PROVE  /\ q.dlci = o[2] \div 4 /\ q.set = DecodedSet(o)
         /\ q.value = [f \in Parameters |-> DecodedValue(o, f)]
         /\ \A f \in Parameters : q.value[f] = DecodedValue(o, f)
         /\ PortRecord(q)
BY DEF PortNegotiationDecode, PortRecord

LEMMA QueryDecoded ==
  ASSUME NEW o, o[1] # 8
  PROVE  DecodedSet(o) = {} /\ \A f \in Parameters : DecodedValue(o, f) = 0
<1>1. DecodedSet(o) = {}
  BY DEF DecodedSet
<1>2. \A f \in Parameters : DecodedValue(o, f) = 0
  BY Zenon DEF DecodedValue
<1> QED
  BY <1>1, <1>2

LEMMA ValuesDecoded ==
  ASSUME NEW o, o[1] = 8
  PROVE  /\ DecodedValue(o, "speed") = IF o[3] < 9 THEN BaudRates[o[3] + 1] ELSE 0
         /\ DecodedValue(o, "data_bits") = 5 + (o[4] % 4)
         /\ DecodedValue(o, "stop_bits") = IF HasBit(o[4], 4) THEN 15 ELSE 1
         /\ DecodedValue(o, "parity") =
              IF HasBit(o[4], 8) THEN (o[4] \div 16) % 4 ELSE NoParity
         /\ DecodedValue(o, "xon") = o[6]
         /\ DecodedValue(o, "xoff") = o[7]
         /\ \A f \in FlowFlags :
              DecodedValue(o, f) = IF HasBit(o[5], FlowWeight[f]) THEN 1 ELSE 0
<1>1. DecodedValue(o, "speed") = IF o[3] < 9 THEN BaudRates[o[3] + 1] ELSE 0
  BY Zenon DEF DecodedValue
<1>2. DecodedValue(o, "data_bits") = 5 + (o[4] % 4)
  BY Zenon DEF DecodedValue
<1>3. DecodedValue(o, "stop_bits") = IF HasBit(o[4], 4) THEN 15 ELSE 1
  BY Zenon DEF DecodedValue
<1>4. DecodedValue(o, "parity") =
        IF HasBit(o[4], 8) THEN (o[4] \div 16) % 4 ELSE NoParity
  BY Zenon DEF DecodedValue
<1>5. DecodedValue(o, "xon") = o[6] /\ DecodedValue(o, "xoff") = o[7]
  BY Zenon DEF DecodedValue
<1>6. ASSUME NEW f \in FlowFlags
      PROVE  DecodedValue(o, f) = IF HasBit(o[5], FlowWeight[f]) THEN 1 ELSE 0
  <2>1. f \notin LineParameters
    BY DEF FlowFlags, LineParameters
  <2> QED
    BY <2>1, Zenon DEF DecodedValue, LineParameters
<1> QED
  BY <1>1, <1>2, <1>3, <1>4, <1>5, <1>6, Zenon

LEMMA SetDecoded ==
  ASSUME NEW o, NEW set \in SUBSET Parameters,
         o[1] = 8, o[8] = LineBits(set), o[9] = FlowBits(set)
  PROVE  DecodedSet(o) = set
BY FlowMask, LineMask DEF DecodedSet, Parameters

LEMMA QueryAgain ==
  ASSUME NEW p \in PortParameters, ~HasChanges(p),
         NEW q, q = PortNegotiationDecode(PortNegotiationEncode(p))
  PROVE  /\ q \in PortParameters
         /\ PortNegotiationEncode(q) = PortNegotiationEncode(p)
<1> DEFINE o == PortNegotiationEncode(p)
<1>1. p.dlci \in Octet
  BY DEF PortParameters
<1>2. o = <<1, DlciOctet(p.dlci)>>
  BY QueryEncoded
<1>3. o[1] # 8 /\ o[2] = DlciOctet(p.dlci)
  BY <1>2
<1>4. /\ o[2] \div 4 \in Octet
      /\ DlciOctet(o[2] \div 4) = DlciOctet(p.dlci)
  BY <1>1, <1>3, DlciAgain
<1>5. q = PortNegotiationDecode(o)
  OBVIOUS
<1> HIDE DEF o
<1>6. /\ q.dlci = o[2] \div 4 /\ q.set = {}
      /\ q.value = [f \in Parameters |-> DecodedValue(o, f)]
      /\ \A f \in Parameters : q.value[f] = 0
      /\ PortRecord(q)
  BY <1>3, <1>5, PortDecoded, QueryDecoded
<1>7. q.value \in [Parameters -> Nat]
  BY <1>6
<1>8. q \in PortParameters
  <2>1. /\ {"data_bits", "stop_bits", "parity", "xon", "xoff"} \subseteq Parameters
        /\ FlowFlags \subseteq Parameters
    BY DEF Parameters, LineParameters
  <2>2. q.dlci \in Octet /\ q.set \in SUBSET Parameters
    BY <1>4, <1>6
  <2>3. \A f \in {"data_bits", "stop_bits", "parity", "xon", "xoff"} :
          q.value[f] \in Octet
    BY <1>6, <2>1 DEF Octet
  <2>4. \A f \in FlowFlags : q.value[f] \in {0, 1}
    BY <1>6, <2>1
  <2>5. PortRecord(q)
    BY <1>6
  <2> QED
    BY <1>7, <2>2, <2>3, <2>4, <2>5, PortTyped
<1>9. PortNegotiationEncode(q) = <<1, DlciOctet(q.dlci)>>
  BY <1>6, QueryEncoded DEF HasChanges
<1>10. q.dlci = o[2] \div 4
  BY <1>6
<1> QED
  BY <1>2, <1>4, <1>8, <1>9, <1>10 DEF o

(* q is what comes of p's parameters, in terms of the codes sent: baud rate *)
(* k, data bits d, stop bits s, parity y, flow control and characters.     *)
Codes(p, k, d, s, y, flow, xon, xoff) ==
  /\ k = BaudKey(Sent(p, "speed", DefaultSpeed))
  /\ d = DataBits(Sent(p, "data_bits", 8))
  /\ s = Bit(Sent(p, "stop_bits", 1) = 15, 4)
  /\ y = ParityBits(Sent(p, "parity", NoParity))
  /\ flow = {f \in FlowFlags \cap p.set : p.value[f] # 0}
  /\ xon = Sent(p, "xon", 17)
  /\ xoff = Sent(p, "xoff", 19)

Found(p, q, k, d, s, y, flow, xon, xoff) ==
  /\ k \in 0 .. 8 /\ d \in 0 .. 3 /\ s \in {0, 4} /\ y \in {0, 8, 24, 40, 56}
  /\ xon \in Octet /\ xoff \in Octet
  /\ q.dlci = DlciOctet(p.dlci) \div 4 /\ q.set = p.set
  /\ q.value = [f \in Parameters |-> q.value[f]]
  /\ PortRecord(q)
  /\ q.value["speed"] = BaudRates[k + 1]
  /\ q.value["data_bits"] = 5 + d
  /\ q.value["stop_bits"] = IF s = 4 THEN 15 ELSE 1
  /\ q.value["parity"] = IF y = 0 THEN NoParity ELSE y \div 16
  /\ q.value["xon"] = xon /\ q.value["xoff"] = xoff
  /\ \A f \in FlowFlags : q.value[f] = IF f \in flow THEN 1 ELSE 0

LEMMA CodesExist ==
  ASSUME NEW p
  PROVE  \E k, d, s, y, flow, xon, xoff : Codes(p, k, d, s, y, flow, xon, xoff)
<1> WITNESS BaudKey(Sent(p, "speed", DefaultSpeed)),
            DataBits(Sent(p, "data_bits", 8)),
            Bit(Sent(p, "stop_bits", 1) = 15, 4),
            ParityBits(Sent(p, "parity", NoParity)),
            {f \in FlowFlags \cap p.set : p.value[f] # 0},
            Sent(p, "xon", 17), Sent(p, "xoff", 19)
<1> QED
  BY Zenon DEF Codes

LEMMA PortDecodes ==
  ASSUME NEW p \in PortParameters, HasChanges(p),
         NEW q, q = PortNegotiationDecode(PortNegotiationEncode(p)),
         NEW k, NEW d, NEW s, NEW y, NEW flow, NEW xon, NEW xoff,
         Codes(p, k, d, s, y, flow, xon, xoff)
  PROVE  Found(p, q, k, d, s, y, flow, xon, xoff)
<1> DEFINE o == PortNegotiationEncode(p)
<1>1. /\ p.dlci \in Octet /\ p.set \in SUBSET Parameters
      /\ \A f \in {"xon", "xoff"} : p.value[f] \in Octet
  BY DEF PortParameters
<1>2. o = <<8, DlciOctet(p.dlci), k, d + s + y, FlowBits(flow), xon, xoff,
            LineBits(p.set), FlowBits(p.set)>>
  BY PortEncoded DEF Codes
<1>3. /\ d \in 0 .. 3 /\ s \in {0, 4} /\ y \in {0, 8, 24, 40, 56} /\ k \in 0 .. 8
  BY CodesOfPort, BitValue DEF Codes
<1>4. xon \in Octet /\ xoff \in Octet
  BY <1>1 DEF Octet, Sent, Codes
<1>5. q = PortNegotiationDecode(o)
  OBVIOUS
<1> HIDE DEF o
<1>6. /\ o[1] = 8 /\ o[2] = DlciOctet(p.dlci) /\ o[3] = k /\ o[4] = d + s + y
      /\ o[5] = FlowBits(flow) /\ o[6] = xon /\ o[7] = xoff
      /\ o[8] = LineBits(p.set) /\ o[9] = FlowBits(p.set)
  BY <1>2
<1>7. DecodedSet(o) = p.set
  BY <1>1, <1>6, SetDecoded
<1>8. /\ q.dlci = o[2] \div 4 /\ q.set = p.set
      /\ q.value = [f \in Parameters |-> DecodedValue(o, f)]
      /\ \A f \in Parameters : q.value[f] = DecodedValue(o, f)
      /\ PortRecord(q)
  BY <1>5, <1>7, PortDecoded
<1>9. /\ {"speed", "data_bits", "stop_bits", "parity", "xon", "xoff"} \subseteq Parameters
      /\ FlowFlags \subseteq Parameters
  BY DEF Parameters, LineParameters
<1>10. /\ q.value["speed"] = IF o[3] < 9 THEN BaudRates[o[3] + 1] ELSE 0
       /\ q.value["data_bits"] = 5 + (o[4] % 4)
       /\ q.value["stop_bits"] = IF HasBit(o[4], 4) THEN 15 ELSE 1
       /\ q.value["parity"] = IF HasBit(o[4], 8) THEN (o[4] \div 16) % 4 ELSE NoParity
       /\ q.value["xon"] = o[6]
       /\ q.value["xoff"] = o[7]
  BY <1>6, <1>8, <1>9, ValuesDecoded
<1>11. \A f \in FlowFlags : q.value[f] = IF HasBit(o[5], FlowWeight[f]) THEN 1 ELSE 0
  BY <1>6, <1>8, <1>9, ValuesDecoded
<1>12. \A f \in FlowFlags : q.value[f] = IF f \in flow THEN 1 ELSE 0
  BY <1>6, <1>11, FlowMask
<1>13. q.value["speed"] = BaudRates[k + 1]
  BY <1>3, <1>6, <1>10
<1>14. /\ q.value["data_bits"] = 5 + d
       /\ q.value["stop_bits"] = IF s = 4 THEN 15 ELSE 1
       /\ q.value["parity"] = IF y = 0 THEN NoParity ELSE y \div 16
  <2>1. /\ o[4] % 4 = d
        /\ HasBit(o[4], 4) <=> s = 4
        /\ HasBit(o[4], 8) <=> y # 0
        /\ y # 0 => (o[4] \div 16) % 4 = y \div 16
    BY <1>3, <1>6, FormatAgain
  <2>2. q.value["data_bits"] = 5 + d
    BY <1>10, <2>1
  <2>3. q.value["stop_bits"] = IF s = 4 THEN 15 ELSE 1
    BY <1>10, <2>1
  <2>4. q.value["parity"] = IF y = 0 THEN NoParity ELSE y \div 16
    BY <1>10, <2>1
  <2> QED
    BY <2>2, <2>3, <2>4
<1>15. q.value = [f \in Parameters |-> q.value[f]]
  BY <1>8
<1>16. q.value["xon"] = xon /\ q.value["xoff"] = xoff
  BY <1>6, <1>10
<1>17. q.dlci = DlciOctet(p.dlci) \div 4
  BY <1>6, <1>8
<1>18. q.set = p.set /\ PortRecord(q)
  BY <1>8
<1> QED
  BY <1>3, <1>4, <1>12, <1>13, <1>14, <1>15, <1>16, <1>17, <1>18, Zenon DEF Found

LEMMA PortAgain ==
  ASSUME NEW p \in PortParameters,
         NEW q, q = PortNegotiationDecode(PortNegotiationEncode(p))
  PROVE  /\ q \in PortParameters
         /\ PortNegotiationEncode(q) = PortNegotiationEncode(p)
<1> SUFFICES ASSUME HasChanges(p)
             PROVE  /\ q \in PortParameters
                    /\ PortNegotiationEncode(q) = PortNegotiationEncode(p)
  BY QueryAgain
<1> PICK k, d, s, y, flow, xon, xoff : Codes(p, k, d, s, y, flow, xon, xoff)
  BY CodesExist
<1>1. PortNegotiationEncode(p) =
        <<8, DlciOctet(p.dlci), k, d + s + y, FlowBits(flow), xon, xoff,
          LineBits(p.set), FlowBits(p.set)>>
  BY PortEncoded DEF Codes
<1>2. /\ "speed" \notin p.set => k = BaudKey(DefaultSpeed)
      /\ "data_bits" \notin p.set => d = DataBits(8)
      /\ "stop_bits" \notin p.set => s = Bit(1 = 15, 4)
      /\ "parity" \notin p.set => y = ParityBits(NoParity)
      /\ "xon" \notin p.set => xon = 17
      /\ "xoff" \notin p.set => xoff = 19
  BY DEF Sent, Codes
<1>3. Found(p, q, k, d, s, y, flow, xon, xoff)
  BY PortDecodes
<1>4. /\ p.dlci \in Octet /\ p.set \in SUBSET Parameters
  BY DEF PortParameters
<1>5. /\ DlciOctet(p.dlci) \div 4 \in Octet
      /\ DlciOctet(DlciOctet(p.dlci) \div 4) = DlciOctet(p.dlci)
  BY <1>4, DlciAgain
<1>6. q.value["speed"] \in Nat /\ BaudKey(q.value["speed"]) = k
  BY <1>3, BaudAgain DEF Found
<1>7. ParityBits(q.value["parity"]) = y /\ q.value["parity"] \in Octet
  BY <1>3, ParityAgain DEF Found
<1>8. \A f \in {"data_bits", "stop_bits", "parity", "xon", "xoff"} :
        q.value[f] \in Octet
  <2>1. 5 + d \in Octet /\ 15 \in Octet /\ 1 \in Octet
    BY <1>3 DEF Octet, Found
  <2> QED
    BY <1>3, <1>7, <2>1 DEF Found
<1>9. \A f \in FlowFlags : q.value[f] \in {0, 1}
  BY <1>3 DEF Found
<1>10. q.value \in [Parameters -> Nat]
  <2>1. \A n \in Octet : n \in Nat
    BY DEF Octet
  <2>2. \A f \in {"data_bits", "stop_bits", "parity", "xon", "xoff"} :
          q.value[f] \in Nat
    BY <1>8, <2>1
  <2>3. \A f \in LineParameters : q.value[f] \in Nat
    BY <1>6, <2>2, Zenon DEF LineParameters
  <2>4. \A f \in FlowFlags : q.value[f] \in Nat
    BY <1>9
  <2>5. \A f \in Parameters : q.value[f] \in Nat
    BY <2>3, <2>4 DEF Parameters
  <2>6. [f \in Parameters |-> q.value[f]] \in [Parameters -> Nat]
    BY <2>5
  <2>7. q.value = [f \in Parameters |-> q.value[f]]
    BY <1>3 DEF Found
  <2> QED
    BY <2>6, <2>7, Zenon
<1>11. q \in PortParameters
  <2>1. q.dlci \in Octet /\ q.set \in SUBSET Parameters
    BY <1>3, <1>4, <1>5 DEF Found
  <2>2. PortRecord(q)
    BY <1>3 DEF Found
  <2> QED
    BY <1>8, <1>9, <1>10, <2>1, <2>2, PortTyped
<1> DEFINE back == {f \in FlowFlags \cap q.set : q.value[f] # 0}
<1>12. PortNegotiationEncode(q) =
         <<8, DlciOctet(q.dlci), BaudKey(Sent(q, "speed", DefaultSpeed)),
           DataBits(Sent(q, "data_bits", 8)) + Bit(Sent(q, "stop_bits", 1) = 15, 4)
             + ParityBits(Sent(q, "parity", NoParity)),
           FlowBits(back), Sent(q, "xon", 17), Sent(q, "xoff", 19),
           LineBits(q.set), FlowBits(q.set)>>
  <2>1. HasChanges(q)
    BY <1>3 DEF HasChanges, Found
  <2> QED
    BY <2>1, PortEncoded
<1>13. q.set = p.set /\ q.dlci = DlciOctet(p.dlci) \div 4
  BY <1>3 DEF Found
<1>14. back = flow
  <2>1. \A f \in FlowFlags : q.value[f] # 0 <=> f \in flow
    <3>1. \A f \in FlowFlags : q.value[f] = IF f \in flow THEN 1 ELSE 0
      BY <1>3, Zenon DEF Found
    <3> QED
      BY <3>1
  <2>2. flow \subseteq FlowFlags \cap p.set
    BY DEF Codes
  <2> QED
    BY <1>13, <2>1, <2>2
<1>15. BaudKey(Sent(q, "speed", DefaultSpeed)) = k
  BY <1>2, <1>6, <1>13 DEF Sent
<1>16. DataBits(Sent(q, "data_bits", 8)) = d
  <2>1. DataBits(5 + d) = d
    BY <1>3 DEF DataBits, Found
  <2>2. q.value["data_bits"] = 5 + d
    BY <1>3 DEF Found
  <2> QED
    BY <1>2, <1>13, <2>1, <2>2 DEF Sent
<1>17. Bit(Sent(q, "stop_bits", 1) = 15, 4) = s
  <2>1. q.value["stop_bits"] = IF s = 4 THEN 15 ELSE 1
    BY <1>3 DEF Found
  <2>2. s \in {0, 4}
    BY <1>3 DEF Found
  <2> QED
    BY <1>2, <1>13, <2>1, <2>2 DEF Sent, Bit
<1>18. ParityBits(Sent(q, "parity", NoParity)) = y
  BY <1>2, <1>7, <1>13 DEF Sent
<1>19. Sent(q, "xon", 17) = xon /\ Sent(q, "xoff", 19) = xoff
  <2>1. q.value["xon"] = xon /\ q.value["xoff"] = xoff
    BY <1>3 DEF Found
  <2> QED
    BY <1>2, <1>13, <2>1 DEF Sent
<1> HIDE DEF back
<1> QED
  BY <1>1, <1>5, <1>11, <1>12, <1>13, <1>14, <1>15, <1>16, <1>17, <1>18, <1>19

----------------------------------------------------------------------------
(* Which parameters survive: those that the fields have room for.          *)
LEMMA BaudSurvives ==
  ASSUME NEW v
  PROVE  BaudRates[BaudKey(v) + 1] = v <=> \E n \in 1 .. 9 : BaudRates[n] = v
<1>1. CASE \E k \in 0 .. 8 : BaudRates[k + 1] = v
  <2>1. BaudKey(v) \in 0 .. 8 /\ BaudRates[BaudKey(v) + 1] = v
    BY <1>1 DEF BaudKey
  <2> QED
    BY <2>1
<1>2. CASE ~\E k \in 0 .. 8 : BaudRates[k + 1] = v
  <2>1. BaudKey(v) = 7
    BY <1>2 DEF BaudKey, DefaultBaud
  <2>2. \A n \in 1 .. 9 : n - 1 \in 0 .. 8 /\ (n - 1) + 1 = n
    OBVIOUS
  <2> QED
    BY <1>2, <2>1, <2>2
<1> QED
  BY <1>1, <1>2

LEMMA ParitySurvives ==
  ASSUME NEW v \in Octet, NEW y, y = ParityBits(v)
  PROVE  (IF y = 0 THEN NoParity ELSE y \div 16) = v <=> v \in 0 .. 3 \cup {NoParity}
<1>1. CASE v = NoParity
  BY <1>1 DEF ParityBits
<1>2. CASE v # NoParity
  <2>1. \A c \in 0 .. 3 : 8 + 16 * c # 0 /\ (8 + 16 * c) \div 16 = c
    OBVIOUS
  <2>2. ParityCode(v) \in 0 .. 3 /\ (ParityCode(v) = v <=> v \in 0 .. 3)
    BY DEF ParityCode, Octet
  <2>3. y = 8 + 16 * ParityCode(v)
    BY <1>2 DEF ParityBits
  <2>4. y # 0 /\ y \div 16 = ParityCode(v)
    BY <2>1, <2>2, <2>3
  <2> QED
    BY <1>2, <2>2, <2>4
<1> QED
  BY <1>1, <1>2

LEMMA DlciSurvives ==
  ASSUME NEW d \in Octet
  PROVE  DlciOctet(d) \div 4 = d <=> d < 64
<1>1. d \in 0 .. 255
  BY DEF Octet
<1> QED
  BY <1>1 DEF DlciOctet

LEMMA NibblesSurvive ==
  ASSUME NEW a \in Nat, NEW b \in Nat, NEW o, o = (a % 16) + 16 * (b % 16)
  PROVE  o % 16 = a % 16 /\ o \div 16 = b % 16
<1> DEFINE x == a % 16
           y == b % 16
<1>1. x \in 0 .. 15 /\ y \in 0 .. 15
  OBVIOUS
<1>2. o = x + 16 * y
  OBVIOUS
<1> HIDE DEF x, y
<1>3. o % 16 = x /\ o \div 16 = y
  BY <1>1, <1>2
<1> QED
  BY <1>3 DEF x, y

LEMMA TimerSurvives ==
  ASSUME NEW t \in Nat
  PROVE  ((t \div 100) % 256) * 100 = t <=> t % 100 = 0 /\ t <= 25500
<1> DEFINE q == t \div 100
           m == t % 100
<1>1. q \in Nat /\ m \in 0 .. 99 /\ t = 100 * q + m
  OBVIOUS
<1> HIDE DEF q, m
<1>2. q % 256 \in 0 .. 255 /\ (q <= 255 => q % 256 = q)
  BY <1>1
<1>3. (q % 256) * 100 = t <=> m = 0 /\ t <= 25500
  BY <1>1, <1>2
<1> QED
  BY <1>3 DEF q, m

LEMMA NegotiationSurvives ==
  ASSUME NEW p \in ParameterNegotiation,
         NEW q, q = ParameterNegotiationDecode(ParameterNegotiationEncode(p))
  PROVE  q = p <=> /\ p.dlci < 64 /\ p.frame_type < 16 /\ p.layer_type < 16
                   /\ p.priority < 64 /\ p.window_size < 8
                   /\ p.ack_timer_msec % 100 = 0 /\ p.ack_timer_msec <= 25500
<1> DEFINE types == (p.frame_type % 16) + 16 * (p.layer_type % 16)
           size == (p.max_frame_size % 256) + 256 * (p.max_frame_size \div 256)
<1>1. /\ p.dlci \in Octet /\ p.priority \in Octet /\ p.window_size \in Octet
      /\ p.frame_type \in Nat /\ p.layer_type \in Nat /\ p.ack_timer_msec \in Nat
      /\ p.max_frame_size \in TwoOctets
      /\ p = [dlci |-> p.dlci, frame_type |-> p.frame_type,
              layer_type |-> p.layer_type, priority |-> p.priority,
              ack_timer_msec |-> p.ack_timer_msec,
              max_frame_size |-> p.max_frame_size,
              max_retransmissions |-> p.max_retransmissions,
              window_size |-> p.window_size]
  BY DEF ParameterNegotiation
<1>2. q = [dlci |-> (p.dlci % 64) % 64, frame_type |-> types % 16,
           layer_type |-> types \div 16, priority |-> (p.priority % 64) % 64,
           ack_timer_msec |-> ((p.ack_timer_msec \div 100) % 256) * 100,
           max_frame_size |-> size,
           max_retransmissions |-> p.max_retransmissions,
           window_size |-> (p.window_size % 8) % 8]
  BY DEF ParameterNegotiationDecode, ParameterNegotiationEncode
<1>3. \A n \in Octet : /\ (n % 64) % 64 = n <=> n < 64
                       /\ (n % 8) % 8 = n <=> n < 8
  BY DEF Octet
<1>4. types % 16 = p.frame_type % 16 /\ types \div 16 = p.layer_type % 16
  BY <1>1, NibblesSurvive
<1>5. \A n \in Nat : n % 16 = n <=> n < 16
  OBVIOUS
<1>6. size = p.max_frame_size
  <2>1. \A n \in Nat : (n % 256) + 256 * (n \div 256) = n
    OBVIOUS
  <2> QED
    BY <1>1, <2>1 DEF TwoOctets
<1>7. /\ types % 16 = p.frame_type <=> p.frame_type < 16
      /\ types \div 16 = p.layer_type <=> p.layer_type < 16
  BY <1>1, <1>4, <1>5
<1>8. /\ (p.dlci % 64) % 64 = p.dlci <=> p.dlci < 64
      /\ (p.priority % 64) % 64 = p.priority <=> p.priority < 64
      /\ (p.window_size % 8) % 8 = p.window_size <=> p.window_size < 8
  BY <1>1, <1>3
<1>9. ((p.ack_timer_msec \div 100) % 256) * 100 = p.ack_timer_msec
        <=> p.ack_timer_msec % 100 = 0 /\ p.ack_timer_msec <= 25500
  BY <1>1, TimerSurvives
<1> HIDE DEF types, size
<1>10. /\ q.dlci = (p.dlci % 64) % 64 /\ q.frame_type = types % 16
       /\ q.layer_type = types \div 16 /\ q.priority = (p.priority % 64) % 64
       /\ q.ack_timer_msec = ((p.ack_timer_msec \div 100) % 256) * 100
       /\ q.max_frame_size = p.max_frame_size
       /\ q.max_retransmissions = p.max_retransmissions
       /\ q.window_size = (p.window_size % 8) % 8
  BY <1>2, <1>6
<1>11. q = p <=> /\ q.dlci = p.dlci /\ q.frame_type = p.frame_type
                 /\ q.layer_type = p.layer_type /\ q.priority = p.priority
                 /\ q.ack_timer_msec = p.ack_timer_msec
                 /\ q.window_size = p.window_size
  <2>1. q = [dlci |-> q.dlci, frame_type |-> q.frame_type,
             layer_type |-> q.layer_type, priority |-> q.priority,
             ack_timer_msec |-> q.ack_timer_msec,
             max_frame_size |-> q.max_frame_size,
             max_retransmissions |-> q.max_retransmissions,
             window_size |-> q.window_size]
    BY <1>2
  <2> QED
    BY <1>1, <1>10, <2>1, Zenon
<1> QED
  BY <1>7, <1>8, <1>9, <1>10, <1>11

LEMMA LineSurvives ==
  ASSUME NEW p \in LineStatus, NEW q, q = LineStatusDecode(LineStatusEncode(p))
  PROVE  q = p <=> p.dlci < 64 /\ p.status < 16
<1>1. /\ p.dlci \in Octet /\ p.status \in Nat
      /\ p = [dlci |-> p.dlci, status |-> p.status]
  BY DEF LineStatus
<1>2. q = [dlci |-> DlciOctet(p.dlci) \div 4, status |-> (p.status % 16) % 16]
  BY DEF LineStatusDecode, LineStatusEncode
<1>3. (p.status % 16) % 16 = p.status <=> p.status < 16
  BY <1>1
<1> QED
  BY <1>1, <1>2, <1>3, DlciSurvives

LEMMA ModemSurvives ==
  ASSUME NEW p \in ModemStatus, NEW q, q = ModemStatusDecode(ModemStatusEncode(p))
  PROVE  q = p <=> p.dlci < 64
<1>1. p.dlci \in Octet /\ p = [dlci |-> p.dlci, signals |-> p.signals]
  BY DEF ModemStatus
<1>2. q = [dlci |-> DlciOctet(p.dlci) \div 4, signals |-> p.signals]
  BY ModemDecoded
<1> QED
  BY <1>1, <1>2, DlciSurvives

LEMMA ServiceNegotiationSurvives ==
  ASSUME NEW p \in ServiceNegotiation,
         NEW q, q = ServiceNegotiationDecode(ServiceNegotiationEncode(p))
  PROVE  q = p <=> p.dlci < 64 /\ (p.service = 0 <=> p.voice_codec = 0)
<1>1. /\ p.dlci \in Octet
      /\ p = [dlci |-> p.dlci, service |-> p.service,
              voice_codec |-> p.voice_codec]
  BY DEF ServiceNegotiation
<1>2. q = [dlci |-> DlciOctet(p.dlci) \div 4,
           service |-> IF BothGiven(p) THEN p.service ELSE 0,
           voice_codec |-> IF BothGiven(p) THEN p.voice_codec ELSE 0]
  BY ServiceNegotiationDecoded
<1>3. CASE BothGiven(p)
  <2>1. q = [dlci |-> DlciOctet(p.dlci) \div 4, service |-> p.service,
             voice_codec |-> p.voice_codec]
    BY <1>2, <1>3
  <2>2. p.service # 0 /\ p.voice_codec # 0
    BY <1>3 DEF BothGiven
  <2> QED
    BY <1>1, <2>1, <2>2, DlciSurvives
<1>4. CASE ~BothGiven(p)
  <2>1. q = [dlci |-> DlciOctet(p.dlci) \div 4, service |-> 0, voice_codec |-> 0]
    BY <1>2, <1>4
  <2>2. p.service = 0 \/ p.voice_codec = 0
    BY <1>4 DEF BothGiven
  <2> QED
    BY <1>1, <2>1, <2>2, DlciSurvives
<1> QED
  BY <1>3, <1>4

(* Of the port parameters that are set, those that have a code.            *)
LEMMA PortSurvives ==
  ASSUME NEW p \in PortParameters,
         NEW q, q = PortNegotiationDecode(PortNegotiationEncode(p))
  PROVE  /\ q.dlci = p.dlci <=> p.dlci < 64
         /\ q.set = p.set
         /\ \A f \in p.set :
              q.value[f] = p.value[f] <=>
                LET v == p.value[f]
                IN  CASE f = "speed" -> \E n \in 1 .. 9 : BaudRates[n] = v
                      [] f = "data_bits" -> v \in 5 .. 8
                      [] f = "stop_bits" -> v \in {1, 15}
                      [] f = "parity" -> v \in 0 .. 3 \cup {NoParity}
                      [] OTHER -> TRUE
<1> DEFINE Coded(f, v) ==
             CASE f = "speed" -> \E n \in 1 .. 9 : BaudRates[n] = v
               [] f = "data_bits" -> v \in 5 .. 8
               [] f = "stop_bits" -> v \in {1, 15}
               [] f = "parity" -> v \in 0 .. 3 \cup {NoParity}
               [] OTHER -> TRUE
<1>1. /\ p.dlci \in Octet /\ p.set \subseteq Parameters
      /\ \A f \in {"data_bits", "stop_bits", "parity", "xon", "xoff"} :
           p.value[f] \in Octet
      /\ \A f \in FlowFlags : p.value[f] \in {0, 1}
  BY DEF PortParameters
<1>2. DlciOctet(p.dlci) \div 4 = p.dlci <=> p.dlci < 64
  BY <1>1, DlciSurvives
<1>3. CASE ~HasChanges(p)
  <2> DEFINE o == PortNegotiationEncode(p)
  <2>1. o = <<1, DlciOctet(p.dlci)>>
    BY <1>3, QueryEncoded
  <2>2. o[1] # 8 /\ o[2] = DlciOctet(p.dlci)
    BY <2>1
  <2>3. q = PortNegotiationDecode(o)
    OBVIOUS
  <2> HIDE DEF o
  <2>4. q.dlci = o[2] \div 4 /\ q.set = {}
    <3>1. q.dlci = o[2] \div 4 /\ q.set = DecodedSet(o)
      BY <2>3, PortDecoded
    <3>2. DecodedSet(o) = {}
      BY <2>2, QueryDecoded
    <3> QED
      BY <3>1, <3>2
  <2>5. p.set = {}
    BY <1>3 DEF HasChanges
  <2> QED
    BY <1>2, <2>2, <2>4, <2>5
<1>4. CASE HasChanges(p)
  <2> PICK k, d, s, y, flow, xon, xoff : Codes(p, k, d, s, y, flow, xon, xoff)
    BY CodesExist
  <2>1. Found(p, q, k, d, s, y, flow, xon, xoff)
    BY <1>4, PortDecodes
  <2>2. q.dlci = DlciOctet(p.dlci) \div 4 /\ q.set = p.set
    BY <2>1 DEF Found
  <2>3. "speed" \in p.set =>
          (q.value["speed"] = p.value["speed"]
             <=> \E n \in 1 .. 9 : BaudRates[n] = p.value["speed"])
    <3> SUFFICES ASSUME "speed" \in p.set
                 PROVE  q.value["speed"] = p.value["speed"]
                          <=> \E n \in 1 .. 9 : BaudRates[n] = p.value["speed"]
      OBVIOUS
    <3>1. k = BaudKey(p.value["speed"]) /\ k \in 0 .. 8
          /\ q.value["speed"] = BaudRates[k + 1]
      BY <2>1 DEF Found, Codes, Sent
    <3> QED
      BY <3>1, BaudSurvives
  <2>4. "data_bits" \in p.set =>
          (q.value["data_bits"] = p.value["data_bits"]
             <=> p.value["data_bits"] \in 5 .. 8)
    <3> SUFFICES ASSUME "data_bits" \in p.set
                 PROVE  q.value["data_bits"] = p.value["data_bits"]
                          <=> p.value["data_bits"] \in 5 .. 8
      OBVIOUS
    <3>1. d = DataBits(p.value["data_bits"]) /\ q.value["data_bits"] = 5 + d
      BY <2>1 DEF Found, Codes, Sent
    <3>2. \A b \in Octet : 5 + DataBits(b) = b <=> b \in 5 .. 8
      BY DEF DataBits, Octet
    <3> QED
      BY <1>1, <3>1, <3>2
  <2>5. "stop_bits" \in p.set =>
          (q.value["stop_bits"] = p.value["stop_bits"]
             <=> p.value["stop_bits"] \in {1, 15})
    <3> SUFFICES ASSUME "stop_bits" \in p.set
                 PROVE  q.value["stop_bits"] = p.value["stop_bits"]
                          <=> p.value["stop_bits"] \in {1, 15}
      OBVIOUS
    <3>1. /\ s = Bit(p.value["stop_bits"] = 15, 4)
          /\ q.value["stop_bits"] = IF s = 4 THEN 15 ELSE 1
      BY <2>1 DEF Found, Codes, Sent
    <3> QED
      BY <3>1 DEF Bit
  <2>6. "parity" \in p.set =>
          (q.value["parity"] = p.value["parity"]
             <=> p.value["parity"] \in 0 .. 3 \cup {NoParity})
    <3> SUFFICES ASSUME "parity" \in p.set
                 PROVE  q.value["parity"] = p.value["parity"]
                          <=> p.value["parity"] \in 0 .. 3 \cup {NoParity}
      OBVIOUS
    <3>1. /\ y = ParityBits(p.value["parity"])
          /\ q.value["parity"] = IF y = 0 THEN NoParity ELSE y \div 16
      BY <2>1 DEF Found, Codes, Sent
    <3> QED
      BY <1>1, <3>1, ParitySurvives
  <2>7. /\ "xon" \in p.set => q.value["xon"] = p.value["xon"]
        /\ "xoff" \in p.set => q.value["xoff"] = p.value["xoff"]
    BY <2>1 DEF Found, Codes, Sent
  <2>8. \A f \in FlowFlags \cap p.set : q.value[f] = p.value[f]
    <3>1. \A f \in FlowFlags : q.value[f] = IF f \in flow THEN 1 ELSE 0
      BY <2>1, Zenon DEF Found
    <3>2. flow = {f \in FlowFlags \cap p.set : p.value[f] # 0}
      BY DEF Codes
    <3> QED
      BY <1>1, <3>1, <3>2
  <2>9. ASSUME NEW f \in p.set
        PROVE  q.value[f] = p.value[f] <=> Coded(f, p.value[f])
    <3> DEFINE v == p.value[f]
               named == {"speed", "data_bits", "stop_bits", "parity"}
    <3>1. f \in named \/ f \in {"xon", "xoff"} \/ f \in FlowFlags
      BY <1>1 DEF Parameters, LineParameters
    <3>2. CASE f \in named
      BY <2>3, <2>4, <2>5, <2>6, <3>2
    <3>3. CASE f \notin named
      <4>1. Coded(f, v) = TRUE
        BY <3>3, Zenon
      <4>2. q.value[f] = p.value[f]
        BY <2>7, <2>8, <3>1, <3>3
      <4> QED
        BY <4>1, <4>2
    <3> QED
      BY <3>2, <3>3
  <2> QED
    BY <1>2, <2>2, <2>9
<1> QED
  BY <1>3, <1>4

----------------------------------------------------------------------------
(* The request that the decoder makes of the message that the encoder made *)
(* of r.                                                                   *)
Decoded(r) ==
  [service |-> r.service, cr |-> r.cr,
   data |-> BodyDecode(r.service, BodyEncode(r), BodyLength(r))]

LEMMA ServiceKnown ==
  ASSUME NEW r \in Request
  PROVE  r.service \in Services /\ r.cr \in BOOLEAN
BY DEF Request, Services

LEMMA NoRequestIsNone ==
  NoRequest \notin Request
<1>1. 0 \notin Services
  BY DEF Services, Bodyless, PARAMETER_NEGOTIATION, MODEM_STATUS,
         REMOTE_PORT_NEGOTIATION, REMOTE_LINE_STATUS, SERVICE_NEGOTIATION, TEST,
         POWER_SAVING, MULTIPLEXER_CLOSE_DOWN, FLOW_CONTROL_ON,
         FLOW_CONTROL_OFF, UNSUPPORTED
<1>2. NoRequest.service = 0
  BY DEF NoRequest
<1> QED
  BY <1>1, <1>2, ServiceKnown

LEMMA RequestMessage ==
  ASSUME NEW r \in Request, NEW o, o = RequestEncode(r)
  PROVE  /\ o \in Seq(Octet) /\ o # <<>>
         /\ Len(o) = RequestLength(r)
         /\ DecodedBody(o) = BodyEncode(r)
         /\ DecodedLength(o) = BodyLength(r) <=> BodyLength(r) <= 127
         /\ BodyLength(r) <= 127 => RequestDecode(o) = Decoded(r)
<1>1. r.service \in Services /\ r.cr \in BOOLEAN
  BY ServiceKnown
<1>2. BodyEncode(r) \in Seq(Octet) /\ BodyLength(r) = Len(BodyEncode(r))
  BY BodyOctets
<1>3. o = ServiceEncode(r.service, r.cr, BodyEncode(r), Len(BodyEncode(r)))
  BY <1>2 DEF RequestEncode
<1>4. /\ o \in Seq(Octet) /\ o # <<>>
      /\ Len(o) = ServiceLength(Len(BodyEncode(r)))
      /\ o[1] = 4 * (r.service \div 4) + 1 + Bit(r.cr, 2)
      /\ DecodedBody(o) = BodyEncode(r)
      /\ DecodedLength(o) = Len(BodyEncode(r)) <=> Len(BodyEncode(r)) <= 127
  BY <1>1, <1>2, <1>3, MessageDecodes
<1>5. 4 * (o[1] \div 4) = r.service /\ HasBit(o[1], 2) = r.cr
  BY <1>1, <1>4, HeaderOctet
<1>6. BodyLength(r) <= 127 => RequestDecode(o) = Decoded(r)
  BY <1>2, <1>4, <1>5 DEF RequestDecode, Decoded
<1> QED
  BY <1>2, <1>4, <1>6 DEF RequestLength

(* A request that came out of the decoder is encoded to the body it came   *)
(* from.                                                                   *)
LEMMA DecodedAgain ==
  ASSUME NEW r \in Request, NEW s, s = Decoded(r)
  PROVE  /\ s \in Request
         /\ BodyEncode(s) = BodyEncode(r)
         /\ BodyLength(s) = BodyLength(r)
<1>1. s.service = r.service /\ s.cr = r.cr /\ s.cr \in BOOLEAN
  BY ServiceKnown DEF Decoded
<1>2. s = [service |-> r.service, cr |-> r.cr, data |-> s.data]
  BY DEF Decoded
<1>3. s.data = BodyDecode(r.service, BodyEncode(r), BodyLength(r))
  BY DEF Decoded
<1> USE DEF PARAMETER_NEGOTIATION, MODEM_STATUS, REMOTE_PORT_NEGOTIATION,
            REMOTE_LINE_STATUS, SERVICE_NEGOTIATION, TEST
<1>4. s \in Request /\ BodyEncode(s) = BodyEncode(r)
  <2>1. CASE r.service = PARAMETER_NEGOTIATION /\ r.data \in ParameterNegotiation
    <3>1. s.data = ParameterNegotiationDecode(ParameterNegotiationEncode(r.data))
      BY <1>3, <2>1 DEF BodyDecode, BodyEncode
    <3>2. /\ s.data \in ParameterNegotiation
          /\ ParameterNegotiationEncode(s.data) = ParameterNegotiationEncode(r.data)
      BY <2>1, <3>1, NegotiationAgain
    <3> QED
      BY <1>1, <1>2, <2>1, <3>2 DEF Request, BodyEncode
  <2>2. CASE r.service = MODEM_STATUS /\ r.data \in ModemStatus
    <3>1. s.data = ModemStatusDecode(ModemStatusEncode(r.data))
      BY <1>3, <2>2 DEF BodyDecode, BodyEncode
    <3>2. /\ s.data \in ModemStatus
          /\ ModemStatusEncode(s.data) = ModemStatusEncode(r.data)
      BY <2>2, <3>1, ModemAgain
    <3> QED
      BY <1>1, <1>2, <2>2, <3>2 DEF Request, BodyEncode
  <2>3. CASE r.service = REMOTE_PORT_NEGOTIATION /\ r.data \in PortParameters
    <3>1. s.data = PortNegotiationDecode(PortNegotiationEncode(r.data))
      BY <1>3, <2>3 DEF BodyDecode, BodyEncode
    <3>2. /\ s.data \in PortParameters
          /\ PortNegotiationEncode(s.data) = PortNegotiationEncode(r.data)
      BY <2>3, <3>1, PortAgain
    <3> QED
      BY <1>1, <1>2, <2>3, <3>2 DEF Request, BodyEncode
  <2>4. CASE r.service = REMOTE_LINE_STATUS /\ r.data \in LineStatus
    <3>1. s.data = LineStatusDecode(LineStatusEncode(r.data))
      BY <1>3, <2>4 DEF BodyDecode, BodyEncode
    <3>2. /\ s.data \in LineStatus
          /\ LineStatusEncode(s.data) = LineStatusEncode(r.data)
      BY <2>4, <3>1, LineAgain
    <3> QED
      BY <1>1, <1>2, <2>4, <3>2 DEF Request, BodyEncode
  <2>5. CASE r.service = SERVICE_NEGOTIATION /\ r.data \in ServiceNegotiation
    <3>1. s.data = ServiceNegotiationDecode(ServiceNegotiationEncode(r.data))
      BY <1>3, <2>5 DEF BodyDecode, BodyEncode
    <3>2. /\ s.data \in ServiceNegotiation
          /\ ServiceNegotiationEncode(s.data) = ServiceNegotiationEncode(r.data)
      BY <2>5, <3>1, ServiceNegotiationAgain
    <3> QED
      BY <1>1, <1>2, <2>5, <3>2 DEF Request, BodyEncode
  <2>6. CASE r.service = TEST /\ r.data \in TestData
    <3>1. r.data.octets \in Seq(Octet) /\ r.data = [octets |-> r.data.octets]
      BY <2>6 DEF TestData
    <3>2. s.data = [octets |-> SubSeq(r.data.octets, 1, Len(r.data.octets))]
      BY <1>3, <2>6 DEF BodyDecode, BodyEncode, BodyLength
    <3>3. s.data = r.data
      BY <3>1, <3>2, SubSeqFull
    <3> QED
      BY <1>1, <1>2, <2>6, <3>3 DEF Request, BodyEncode
  <2>7. CASE r.service \in Bodyless /\ r.data = NoData
    <3> USE DEF Bodyless, POWER_SAVING, MULTIPLEXER_CLOSE_DOWN,
                FLOW_CONTROL_ON, FLOW_CONTROL_OFF, UNSUPPORTED
    <3>1. s.data = NoData
      BY <1>3, <2>7 DEF BodyDecode
    <3> QED
      BY <1>1, <1>2, <2>7, <3>1 DEF Request, BodyEncode
  <2> QED
    BY <2>1, <2>2, <2>3, <2>4, <2>5, <2>6, <2>7, RequestCases
<1> QED
  BY <1>4, BodyOctets

----------------------------------------------------------------------------
(* The decoder has made r of some message, and makes the same of the       *)
(* message that the encoder makes of r.                                    *)
Settled(r) == r \in Request /\ BodyLength(r) <= 127 /\ Decoded(r) = r

(* The message on the line is the one that the last of the two programs to *)
(* write has sent, and everything after the first decoding is settled.     *)
Exchange ==
  /\ asked \in Request \cup {NoRequest}
  /\ heard # NoRequest =>
       /\ asked # NoRequest /\ BodyLength(asked) <= 127
       /\ heard = Decoded(asked) /\ Settled(heard)
  /\ agreed # NoRequest => heard # NoRequest /\ agreed = Answer(heard)
  /\ wire # <<>> =>
       IF heard = NoRequest
       THEN asked \in Request /\ wire = RequestEncode(asked)
       ELSE wire = RequestEncode(Answer(heard))

(* A request that is carried arrives as it is exactly when its fields have *)
(* room for their values.                                                  *)
LEMMA RequestSurvives ==
  ASSUME NEW r \in Request, BodyLength(r) <= 127
  PROVE  Same(r, Decoded(r)) <=> Representable(r)
<1> DEFINE s == Decoded(r)
<1>1. /\ r = [service |-> r.service, cr |-> r.cr, data |-> r.data]
      /\ s = [service |-> r.service, cr |-> r.cr, data |-> s.data]
      /\ s.service = r.service /\ s.cr = r.cr
      /\ s.data = BodyDecode(r.service, BodyEncode(r), BodyLength(r))
  BY RequestCases DEF Decoded
<1> HIDE DEF s
<1>2. s = r <=> s.data = r.data
  BY <1>1
<1> USE DEF PARAMETER_NEGOTIATION, MODEM_STATUS, REMOTE_PORT_NEGOTIATION,
            REMOTE_LINE_STATUS, SERVICE_NEGOTIATION, TEST
<1>3. CASE r.service = PARAMETER_NEGOTIATION /\ r.data \in ParameterNegotiation
  <2>1. s.data = ParameterNegotiationDecode(ParameterNegotiationEncode(r.data))
    BY <1>1, <1>3 DEF BodyDecode, BodyEncode
  <2> QED
    BY <1>2, <1>3, <2>1, NegotiationSurvives DEF Same, Representable, s
<1>4. CASE r.service = MODEM_STATUS /\ r.data \in ModemStatus
  <2>1. s.data = ModemStatusDecode(ModemStatusEncode(r.data))
    BY <1>1, <1>4 DEF BodyDecode, BodyEncode
  <2> QED
    BY <1>2, <1>4, <2>1, ModemSurvives DEF Same, Representable, s
<1>5. CASE r.service = REMOTE_LINE_STATUS /\ r.data \in LineStatus
  <2>1. s.data = LineStatusDecode(LineStatusEncode(r.data))
    BY <1>1, <1>5 DEF BodyDecode, BodyEncode
  <2> QED
    BY <1>2, <1>5, <2>1, LineSurvives DEF Same, Representable, s
<1>6. CASE r.service = SERVICE_NEGOTIATION /\ r.data \in ServiceNegotiation
  <2>1. s.data = ServiceNegotiationDecode(ServiceNegotiationEncode(r.data))
    BY <1>1, <1>6 DEF BodyDecode, BodyEncode
  <2> QED
    BY <1>2, <1>6, <2>1, ServiceNegotiationSurvives DEF Same, Representable, s
<1>7. CASE r.service = TEST /\ r.data \in TestData
  <2>1. r.data.octets \in Seq(Octet) /\ r.data = [octets |-> r.data.octets]
    BY <1>7 DEF TestData
  <2>2. s.data = [octets |-> SubSeq(r.data.octets, 1, Len(r.data.octets))]
    BY <1>1, <1>7 DEF BodyDecode, BodyEncode, BodyLength
  <2>3. s.data = r.data
    BY <2>1, <2>2, SubSeqFull
  <2> QED
    BY <1>2, <1>7, <2>3 DEF Same, Representable, s
<1>8. CASE r.service \in Bodyless /\ r.data = NoData
  <2> USE DEF Bodyless, POWER_SAVING, MULTIPLEXER_CLOSE_DOWN,
              FLOW_CONTROL_ON, FLOW_CONTROL_OFF, UNSUPPORTED
  <2>1. s.data = NoData
    BY <1>1, <1>8 DEF BodyDecode
  <2> QED
    BY <1>2, <1>8, <2>1 DEF Same, Representable, s
<1>9. CASE r.service = REMOTE_PORT_NEGOTIATION /\ r.data \in PortParameters
  <2> DEFINE Coded(f, v) ==
               CASE f = "speed" -> \E n \in 1 .. 9 : BaudRates[n] = v
                 [] f = "data_bits" -> v \in 5 .. 8
                 [] f = "stop_bits" -> v \in {1, 15}
                 [] f = "parity" -> v \in 0 .. 3 \cup {NoParity}
                 [] OTHER -> TRUE
  <2>1. s.data = PortNegotiationDecode(PortNegotiationEncode(r.data))
    BY <1>1, <1>9 DEF BodyDecode, BodyEncode
  <2>2. /\ s.data.dlci = r.data.dlci <=> r.data.dlci < 64
        /\ s.data.set = r.data.set
        /\ \A f \in r.data.set :
             s.data.value[f] = r.data.value[f] <=> Coded(f, r.data.value[f])
    BY <1>9, <2>1, PortSurvives
  <2>3. Representable(r) <=> /\ r.data.dlci < 64
                             /\ \A f \in r.data.set : Coded(f, r.data.value[f])
    BY <1>9 DEF Representable
  <2>4. Same(r, s) <=> /\ s.data.dlci = r.data.dlci
                       /\ \A f \in r.data.set : s.data.value[f] = r.data.value[f]
    BY <1>1, <1>9, <2>2 DEF Same
  <2> HIDE DEF Coded
  <2>5. Same(r, s) <=> Representable(r)
    BY <2>2, <2>3, <2>4
  <2> QED
    BY <2>5 DEF s
<1> QED
  BY <1>3, <1>4, <1>5, <1>6, <1>7, <1>8, <1>9, RequestCases

LEMMA AnswerSettled ==
  ASSUME NEW r, Settled(r)
  PROVE  /\ Settled(Answer(r))
         /\ BodyEncode(Answer(r)) = BodyEncode(r)
         /\ BodyLength(Answer(r)) = BodyLength(r)
         /\ RequestLength(Answer(r)) = RequestLength(r)
<1>1. /\ r \in Request
      /\ r = [service |-> r.service, cr |-> r.cr, data |-> r.data]
  BY RequestCases DEF Settled
<1>2. Answer(r) = [service |-> r.service, cr |-> FALSE, data |-> r.data]
  BY DEF Answer
<1>3. Answer(r) \in Request
  BY <1>1, <1>2, RequestCases DEF Request
<1>4. BodyEncode(Answer(r)) = BodyEncode(r)
  BY <1>2 DEF BodyEncode
<1>5. BodyLength(Answer(r)) = BodyLength(r)
  BY <1>1, <1>3, <1>4, BodyOctets
<1>6. Decoded(Answer(r)) = Answer(r)
  <2>1. Decoded(r).data = r.data
    BY DEF Settled
  <2>2. BodyDecode(r.service, BodyEncode(r), BodyLength(r)) = r.data
    BY <2>1 DEF Decoded
  <2>3. Answer(r).service = r.service /\ Answer(r).cr = FALSE
    BY <1>2
  <2> QED
    BY <1>2, <1>4, <1>5, <2>2, <2>3 DEF Decoded
<1> QED
  BY <1>3, <1>4, <1>5, <1>6 DEF Settled, RequestLength

(* A message short enough to be carried is decoded to a settled request.   *)
LEMMA DecodedSettled ==
  ASSUME NEW r \in Request, Len(RequestEncode(r)) <= Carried
  PROVE  /\ RequestDecode(RequestEncode(r)) = Decoded(r)
         /\ Settled(Decoded(r)) /\ BodyLength(r) <= 127
<1>1. BodyLength(r) \in Nat
  BY BodyOctets
<1>2. Len(RequestEncode(r)) = 1 + (IF BodyLength(r) > 127 THEN 2 ELSE 1) + BodyLength(r)
  BY RequestMessage DEF RequestLength, ServiceLength
<1>3. BodyLength(r) <= 127
  BY <1>1, <1>2 DEF Carried
<1>4. RequestDecode(RequestEncode(r)) = Decoded(r)
  BY <1>3, RequestMessage
<1>5. /\ Decoded(r) \in Request
      /\ BodyEncode(Decoded(r)) = BodyEncode(r)
      /\ BodyLength(Decoded(r)) = BodyLength(r)
  BY DecodedAgain
<1>6. Decoded(Decoded(r)) = Decoded(r)
  BY <1>5 DEF Decoded
<1> QED
  BY <1>3, <1>4, <1>5, <1>6 DEF Settled

LEMMA InitExchange == Init => Exchange
BY DEF Init, Exchange

LEMMA NextExchange == Exchange /\ [Next]_vars => Exchange'
<1> SUFFICES ASSUME Exchange, [Next]_vars
             PROVE  Exchange'
  OBVIOUS
<1>1. ASSUME NEW r \in Requests, Ask(r)
      PROVE  Exchange'
  <2>1. r \in Request /\ r # NoRequest
    BY RequestsAssumption, NoRequestIsNone
  <2> QED
    BY <1>1, <2>1 DEF Exchange, Ask
<1>2. CASE Hear
  <2>1. asked \in Request /\ wire = RequestEncode(asked) /\ asked # NoRequest
    BY <1>2, NoRequestIsNone DEF Hear, Exchange
  <2>2. /\ RequestDecode(wire) = Decoded(asked) /\ Settled(Decoded(asked))
        /\ BodyLength(asked) <= 127
    BY <1>2, <2>1, DecodedSettled DEF Hear
  <2>3. heard' = Decoded(asked) /\ wire' = RequestEncode(Answer(Decoded(asked)))
    BY <1>2, <2>2 DEF Hear, Answer
  <2>4. heard' # NoRequest
    BY <2>2, <2>3, NoRequestIsNone DEF Settled
  <2>5. agreed = NoRequest /\ agreed' = agreed /\ asked' = asked
    BY <1>2 DEF Hear, Exchange
  <2> QED
    BY <2>1, <2>2, <2>3, <2>4, <2>5 DEF Exchange
<1>3. CASE Learn
  <2>1. Settled(heard) /\ wire = RequestEncode(Answer(heard))
    BY <1>3 DEF Learn, Exchange
  <2>2. Settled(Answer(heard))
    BY <2>1, AnswerSettled
  <2>3. RequestDecode(wire) = Answer(heard)
    BY <2>1, <2>2, RequestMessage DEF Settled
  <2> QED
    BY <1>3, <2>3 DEF Learn, Exchange
<1>4. CASE Finish
  BY <1>4 DEF Finish, Exchange
<1>5. CASE UNCHANGED vars
  BY <1>5 DEF vars, Exchange
<1> QED
  BY <1>1, <1>2, <1>3, <1>4, <1>5 DEF Next

(* Exchange holds throughout, whatever the client's program asks for: what *)
(* cmux_on_control_message of either side decodes was written by           *)
(* cmux_service_request_encode of the other.                               *)
THEOREM ExchangeInvariant == Spec => []Exchange
BY InitExchange, NextExchange, PTL DEF Spec

(* A message on the line is some request's, with the length that was       *)
(* allocated for the one it answers.                                       *)
LEMMA ExchangeWire ==
  Exchange /\ wire # <<>> =>
    \E r \in Request : /\ wire = RequestEncode(r)
                       /\ RequestLength(r) = RequestLength(IF heard = NoRequest
                                                           THEN asked ELSE heard)
<1> SUFFICES ASSUME Exchange, wire # <<>>
             PROVE  \E r \in Request :
                      /\ wire = RequestEncode(r)
                      /\ RequestLength(r) = RequestLength(IF heard = NoRequest
                                                          THEN asked ELSE heard)
  OBVIOUS
<1>1. CASE heard = NoRequest
  BY <1>1 DEF Exchange
<1>2. CASE heard # NoRequest
  <2>1. Settled(heard) /\ wire = RequestEncode(Answer(heard))
    BY <1>2 DEF Exchange
  <2> QED
    BY <1>2, <2>1, AnswerSettled DEF Settled
<1> QED
  BY <1>1, <1>2

(* The services that arrive are requests with their parameters in their    *)
(* ranges, and octets are sent (cmux_service_request_codec.c).             *)
THEOREM ServiceTypeOK == Spec => []TypeOK
<1>1. Exchange => TypeOK
  <2> SUFFICES ASSUME Exchange
               PROVE  TypeOK
    OBVIOUS
  <2>1. heard \in Request \cup {NoRequest}
    BY DEF Exchange, Settled
  <2>2. agreed \in Request \cup {NoRequest}
    BY AnswerSettled DEF Exchange, Settled
  <2>3. wire \in Seq(Octet)
    <3>1. CASE wire = <<>>
      BY <3>1
    <3>2. CASE wire # <<>>
      BY <3>2, ExchangeWire, RequestMessage
    <3> QED
      BY <3>1, <3>2
  <2> QED
    BY <2>1, <2>2, <2>3 DEF TypeOK, Exchange
<1> QED
  BY <1>1, ExchangeInvariant, PTL

(* cmux_client_request and cmux_server_reply fill exactly the memory that  *)
(* cmux_service_request_get_length told them to allocate.                  *)
THEOREM ServiceMemory == Spec => []ServiceFits
<1>1. Exchange => ServiceFits
  BY ExchangeWire, RequestMessage DEF ServiceFits
<1> QED
  BY <1>1, ExchangeInvariant, PTL

(* cmux_service_decode finds the length that cmux_service_encode wrote     *)
(* exactly when it is at most 127.                                         *)
THEOREM ServiceLengths == Spec => []LengthSurvives
<1>1. Exchange => LengthSurvives
  <2> SUFFICES ASSUME Exchange, wire # <<>>
               PROVE  LET n == Len(DecodedBody(wire))
                      IN  DecodedLength(wire) = n <=> n <= 127
    BY DEF LengthSurvives
  <2>1. PICK r \in Request : wire = RequestEncode(r)
    BY ExchangeWire
  <2>2. Len(BodyEncode(r)) = BodyLength(r)
    BY BodyOctets
  <2> QED
    BY <2>1, <2>2, RequestMessage
<1> QED
  BY <1>1, ExchangeInvariant, PTL

(* The server's program gets what the client's program asked for if every  *)
(* field of the service has room for its value, and only then.  The timers *)
(* between the units of 100 ms that parameter_negotiation.h allows are     *)
(* left open, as HeardAsAsked leaves them.                                 *)
THEOREM ServiceHeard == Spec => []HeardAsAsked
<1>1. Exchange => HeardAsAsked
  <2> SUFFICES ASSUME Exchange, heard # NoRequest, ~BetweenUnits(asked)
               PROVE  Same(asked, heard) <=> Representable(asked)
    BY DEF HeardAsAsked
  <2>1. asked \in Request /\ BodyLength(asked) <= 127 /\ heard = Decoded(asked)
    BY DEF Exchange
  <2> QED
    BY <2>1, RequestSurvives
<1> QED
  BY <1>1, ExchangeInvariant, PTL

(* Whatever the client's program asked for, in the end it has what the     *)
(* server's program was given: a second pass through encoder and decoder   *)
(* loses nothing.                                                          *)
THEOREM ServiceAgreement == Spec => []Agreement
<1>1. Exchange => Agreement
  BY DEF Exchange, Agreement, Answer
<1> QED
  BY <1>1, ExchangeInvariant, PTL
=============================================================================
