------------------------------- MODULE MCLwrb -------------------------------
(* Small rings: three cells hold two bytes, so both indices wrap and a      *)
(* chunk may be larger than what fits.                                      *)
EXTENDS Lwrb
=============================================================================
