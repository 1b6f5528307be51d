----------------------------- MODULE MCService -----------------------------
(* Each field at the limits of its room and beyond, the others at a base    *)
(* value; every set of port parameters, with values that have a code and    *)
(* values that have none; test patterns up to the lengths where the service *)
(* and the frame get a longer length field.                                 *)
EXTENDS ServiceCodec

McDlcis == {0, 1, 63, 64, 255}

Base == [dlci |-> 1, frame_type |-> 1, layer_type |-> 3, priority |-> 7,
         ack_timer_msec |-> 100, max_frame_size |-> 31,
         max_retransmissions |-> 3, window_size |-> 2]
Negotiations ==
  {[Base EXCEPT !.dlci = d] : d \in McDlcis}
    \cup {[Base EXCEPT !.frame_type = t, !.layer_type = l] :
            t \in {0, 2, 15, 16}, l \in {0, 3, 15, 16}}
    \cup {[Base EXCEPT !.priority = p] : p \in {0, 63, 64}}
    \cup {[Base EXCEPT !.ack_timer_msec = t] :
            t \in {0, 10, 99, 100, 250, 300, 25500, 25501, 25600, 100000}}
    \cup {[Base EXCEPT !.max_frame_size = n] :
            n \in {1, 255, 256, 32767, 32768, 65535}}
    \cup {[Base EXCEPT !.max_retransmissions = n] : n \in {0, 100, 255}}
    \cup {[Base EXCEPT !.window_size = n] : n \in {0, 7, 8}}

Coded == [speed |-> 9600, data_bits |-> 7, stop_bits |-> 15, parity |-> 2,
          xon |-> 0, xoff |-> 255,
          input_xon_xoff |-> 1, output_xon_xoff |-> 0, input_rtr |-> 1,
          output_rtr |-> 1, input_rtc |-> 0, output_rtc |-> 1]
OddValues ==
  {[Coded EXCEPT ![f] = 0] : f \in Parameters}
    \cup {[Coded EXCEPT !.speed = b] : b \in {1200, 2400, 115200, 230400}}
    \cup {[Coded EXCEPT !.data_bits = n] : n \in {4, 5, 8, 9}}
    \cup {[Coded EXCEPT !.stop_bits = n] : n \in {1, 2}}
    \cup {[Coded EXCEPT !.parity = n] : n \in {1, 3, 4, 255}}
PortSets == {Parameters, LineParameters, FlowFlags, {"parity"}, {"xon"}, {}}

McRequests ==
  LET Of(service, structs) ==
        [service : {service}, cr : {TRUE}, data : structs]
  IN  Of(PARAMETER_NEGOTIATION, Negotiations)
        \cup Of(MODEM_STATUS, [dlci : McDlcis, signals : SUBSET Signals])
        \cup Of(REMOTE_LINE_STATUS, [dlci : McDlcis, status : {0, 3, 5, 9, 16, 25}])
        \cup Of(SERVICE_NEGOTIATION,
                [dlci : McDlcis, service : ServiceValues, voice_codec : VoiceCodecs])
        \cup Of(REMOTE_PORT_NEGOTIATION,
                [dlci : {1}, set : SUBSET Parameters, value : {Coded}]
                  \cup [dlci : McDlcis, set : PortSets, value : OddValues])
        \cup Of(TEST, {[octets |-> [k \in 1 .. n |-> 249]] :
                         n \in {0, 1, 5, 125, 126, 127, 128, 200}})
        \cup [service : Bodyless, cr : BOOLEAN, data : {NoData}]
=============================================================================
