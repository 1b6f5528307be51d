----------------------------- MODULE MCFreeLink -----------------------------
(* Two DLCIs: the multiplexer's own and one terminal.                       *)
EXTENDS FreeLink
=============================================================================
