----------------------------- MODULE CmuxFrame -----------------------------
(***************************************************************************)
(* The frames the client and the server exchange, as their handlers see    *)
(* them: struct frame_info_t without the layout on the wire, and of a      *)
(* service request only what the handlers tell apart.                      *)
(***************************************************************************)
EXTENDS Naturals, Sequences

CONSTANT MaximumDlci      \* options.maximum_dlci, given by the application

(* cmux_client_init and cmux_server_init refuse a maximum below 1. *)
ASSUME MaximumDlciAssumption == MaximumDlci \in Nat \ {0}

(* enum CONTROL_TYPE *)
Types == {"SABM", "UA", "DM", "DISC", "UIH", "UI"}

(* The multiplexer close down service carries a C/R bit of its own, which  *)
(* neither handler reads; "data" is the data of a terminal or any other    *)
(* service.                                                                *)
CloseDown == {"closeDown", "closedDown"}
Bodies == {"none", "data"} \cup CloseDown

Frame == [type : Types, dlci : Nat, body : Bodies]

Mk(type, dlci, body) == [type |-> type, dlci |-> dlci, body |-> body]

(* terminal_options and terminal_statuses are allocated with maximum_dlci  *)
(* elements each.                                                          *)
Slots == 0 .. MaximumDlci - 1

(* Mutant: no bound. *)
AllowedAny(dlci) == TRUE

(* The bound every entry point tests before it indexes the arrays. *)
Allowed(dlci) == dlci <= MaximumDlci

(* The last frame type recorded before anything was sent: memset 0. *)
LastTypes == Types \cup {"none"}

(* What an element of an array holds; outside the array, anything. *)
Element(array, dlci, values) ==
  IF dlci \in Slots THEN {array[dlci]} ELSE values
=============================================================================
