------------------------------ MODULE MCSession ------------------------------
(* Two terminals beside the multiplexer's own DLCI: what one does must not  *)
(* touch the other.                                                         *)
EXTENDS Session
=============================================================================
