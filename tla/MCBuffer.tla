------------------------------ MODULE MCBuffer ------------------------------
(* Two headers, without and with one byte of payload, which may be a flag.  *)
EXTENDS CmuxBuffer

MCPayloadLen == [h \in Headers |-> h - 1]
MCPayload == {Byte("data", 1), Flag}
NoNoise == {}
FlagNoise == {Flag}
=============================================================================
