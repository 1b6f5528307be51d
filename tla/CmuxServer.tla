----------------------------- MODULE CmuxServer -----------------------------
(***************************************************************************)
(* lib/cmux/cmux_server.c: one server instance.  For every frame its       *)
(* handler calls the program's on_event, then the callback of the terminal *)
(* or of the multiplexer, and only then replies: the program, and a line   *)
(* that delivers synchronously, may call the instance again in between.    *)
(***************************************************************************)
EXTENDS CmuxFrame, SequencesExt

CONSTANT MaxNesting    \* bound: handler calls active at the same time

VARIABLES
  options,   \* terminal_options: whether a terminal has callbacks
  last,      \* terminal_statuses: type of the last frame sent on a terminal
  calls,     \* active handler calls and where they are, outermost first
  told,      \* what the callbacks told the program of each DLCI
  tx,        \* frames given to send_to_interface
  fault      \* an element outside an array was accessed

vars == <<options, last, calls, told, tx, fault>>

Init ==
  /\ options = [d \in Slots |-> FALSE]
  /\ last = [d \in Slots |-> "none"]
  /\ calls = <<>>
  /\ told = [d \in 0 .. MaximumDlci |-> "closed"]
  /\ tx = <<>>
  /\ fault = FALSE

(* cmux_server_free, cmux_server_init for the next instance, and the       *)
(* program's registrations with it; not from inside a callback.            *)
Renew(registered) ==
  /\ calls = <<>>
  /\ options' = [d \in Slots |-> d \in registered]
  /\ last' = [d \in Slots |-> "none"]
  /\ told' = [d \in 0 .. MaximumDlci |-> "closed"]
  /\ UNCHANGED <<calls, tx, fault>>

----------------------------------------------------------------------------
(* send_frame *)
SendFrame(f) ==
  IF Allowed(f.dlci)
  THEN /\ last' = [last EXCEPT ![f.dlci] = f.type]
       /\ tx' = Append(tx, f)
       /\ fault' = (fault \/ f.dlci \notin Slots)
  ELSE UNCHANGED <<last, tx, fault>>

(* cmux_server_request and cmux_server_reply, which differ in the P/F bit. *)
Request(d, type, body) ==
  /\ SendFrame(Mk(type, d, body))
  /\ UNCHANGED <<options, calls, told>>

Stop == Request(0, "UIH", "closeDown")

TerminalSend(d) == Request(d, "UIH", "data")

TerminalClose(d) == Request(d, "DISC", "none")

RegisterTerminal(d, registered) ==
  /\ Allowed(d)
  /\ options' = [options EXCEPT ![d] = registered]
  /\ fault' = (fault \/ d \notin Slots)
  /\ UNCHANGED <<last, calls, told, tx>>

----------------------------------------------------------------------------
(* Mutant: a DISC is not replied to. *)
RepliesNoDisc(f) ==
  CASE f.type = "SABM" -> <<Mk("UA", f.dlci, "none")>>
    [] f.type = "UIH" /\ f.dlci = 0 /\ f.body \in CloseDown ->
         <<Mk("UIH", 0, "closedDown")>>
    [] OTHER -> <<>>

(* The types that cmux_server_on_incoming_request replies to, and how. *)
Replies(f) ==
  CASE f.type = "SABM" -> <<Mk("UA", f.dlci, "none")>>
    [] f.type = "DISC" /\ f.dlci # 0 -> <<Mk("UA", f.dlci, "none")>>
    [] f.type = "UIH" /\ f.dlci = 0 /\ f.body \in CloseDown ->
         <<Mk("UIH", 0, "closedDown")>>
    [] OTHER -> <<>>

(* Mutant: on_terminal_open is called for a DISC too. *)
TellsOpen(f) == "open"

(* Mutant: the callbacks of SABM and DISC are swapped. *)
TellsSwapped(f) == IF f.type = "SABM" THEN "closed" ELSE "open"

(* The callback f calls tells the program that its DLCI is ... *)
Tells(f) == IF f.type = "SABM" THEN "open" ELSE "closed"

(* cmux_on_control_message, up to the call of on_event. *)
OnControlMessage(f) ==
  /\ Len(calls) < MaxNesting
  /\ \/ ~Allowed(f.dlci) /\ UNCHANGED <<calls, fault>>
     \/ /\ Allowed(f.dlci)
        /\ fault' = (fault \/ f.dlci \notin Slots)
        /\ calls' = Append(calls, [frame |-> f, stage |-> "event"])
  /\ UNCHANGED <<options, last, told, tx>>

(* on_event returns: the terminal's or the multiplexer's callback is       *)
(* called, with the options as they are now.  A frame without a reply is   *)
(* done with.                                                              *)
EventReturn ==
  /\ calls # <<>> /\ Last(calls).stage = "event"
  /\ LET f == Last(calls).frame
     IN  IF Replies(f) = <<>>
         THEN calls' = Front(calls) /\ UNCHANGED told
         ELSE /\ calls' = [calls EXCEPT ![Len(calls)].stage = "callback"]
              /\ \E registered \in Element(options, f.dlci, BOOLEAN) :
                   told' = IF f.dlci = 0 \/ registered
                           THEN [told EXCEPT ![f.dlci] = Tells(f)]
                           ELSE told
  /\ UNCHANGED <<options, last, tx, fault>>

(* The callback returns, and the handler replies. *)
CallbackReturn ==
  /\ calls # <<>> /\ Last(calls).stage = "callback"
  /\ SendFrame(Replies(Last(calls).frame)[1])
  /\ calls' = Front(calls)
  /\ UNCHANGED <<options, told>>
=============================================================================
