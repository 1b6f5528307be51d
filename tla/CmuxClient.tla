----------------------------- MODULE CmuxClient -----------------------------
(***************************************************************************)
(* lib/cmux/cmux_client.c: one client instance.  Its program calls the API *)
(* operations; cmux_on_control_message handles one frame that the ingress  *)
(* buffer found.  send_to_interface hands a frame to the line.             *)
(*                                                                         *)
(* On DLCI 0 the handler takes a copy of the terminal status, calls the    *)
(* program's on_event, and goes on with the copy: the program, and a line  *)
(* that delivers synchronously, may call the instance again meanwhile.     *)
(* After any other callback the handler touches nothing more, so what a    *)
(* program does in it is what it does right after it.                      *)
(***************************************************************************)
EXTENDS CmuxFrame, SequencesExt

CONSTANT MaxNesting    \* bound: handler calls active at the same time

VARIABLES
  options,   \* terminal_options: whether a terminal has callbacks
  last,      \* terminal_statuses: type of the last frame sent on a terminal
  calls,     \* calls of the handler that are inside on_event, outermost first
  told,      \* what the callbacks told the program of each DLCI
  tx,        \* frames given to send_to_interface
  fault      \* an element outside an array was accessed

vars == <<options, last, calls, told, tx, fault>>

Init ==
  /\ options = [d \in Slots |-> FALSE]
  /\ last = [d \in Slots |-> "none"]
  /\ calls = <<>>
  /\ told = [d \in 0 .. MaximumDlci |-> "closed"]
  /\ tx = <<>>
  /\ fault = FALSE

(* cmux_client_free, and cmux_client_init for the next instance: not from  *)
(* inside a callback, as the handler goes on with the instance after it.   *)
Renew ==
  /\ calls = <<>>
  /\ options' = [d \in Slots |-> FALSE]
  /\ last' = [d \in Slots |-> "none"]
  /\ told' = [d \in 0 .. MaximumDlci |-> "closed"]
  /\ UNCHANGED <<calls, tx, fault>>

----------------------------------------------------------------------------
(* Mutant: another field of the frame is recorded. *)
SendFrameBody(f) ==
  IF Allowed(f.dlci)
  THEN /\ last' = [last EXCEPT ![f.dlci] = f.body]
       /\ tx' = Append(tx, f)
       /\ fault' = (fault \/ f.dlci \notin Slots)
  ELSE UNCHANGED <<last, tx, fault>>

(* send_frame records the frame, then sends it: an answer that arrives     *)
(* before send_to_interface returns finds the record.                      *)
SendFrame(f) ==
  IF Allowed(f.dlci)
  THEN /\ last' = [last EXCEPT ![f.dlci] = f.type]
       /\ tx' = Append(tx, f)
       /\ fault' = (fault \/ f.dlci \notin Slots)
  ELSE UNCHANGED <<last, tx, fault>>

(* cmux_client_request *)
Request(d, type, body) ==
  /\ SendFrame(Mk(type, d, body))
  /\ UNCHANGED <<options, calls, told>>

(* cmux_client_terminal_open; registered: the program passed options. *)
TerminalOpen(d, registered) ==
  /\ Allowed(d)
  /\ options' = [options EXCEPT ![d] = registered]
  /\ SendFrame(Mk("SABM", d, "none"))
  /\ UNCHANGED <<calls, told>>

Start == TerminalOpen(0, FALSE)

Stop == Request(0, "UIH", "closeDown")

TerminalSend(d) == Request(d, "UIH", "data")

TerminalClose(d) == Request(d, "DISC", "none")

----------------------------------------------------------------------------
(* Mutant: the acknowledgement of a SABM is not passed on. *)
ToldNoOpen(f, lastType, registered) ==
  IF registered /\ f.type = "UA" /\ lastType = "DISC"
  THEN "closed" ELSE told[f.dlci]

(* The callback of a terminal other than 0 that f calls, if any: the       *)
(* acknowledgement is for the last command sent.                           *)
ToldTerminal(f, lastType, registered) ==
  CASE registered /\ f.type = "UA" /\ lastType = "SABM" -> "open"
    [] registered /\ f.type = "UA" /\ lastType = "DISC" -> "closed"
    [] OTHER -> told[f.dlci]

(* Mutant: on_stop is called for every service. *)
CallsOnStopAny(f) == f.type = "UIH" /\ f.body # "none"

(* on_stop is called for a close down command and for the answer to one. *)
CallsOnStop(f) == f.type = "UIH" /\ f.body \in CloseDown

(* The callback of the multiplexer that f calls, if any. *)
ToldMux(f, lastType) ==
  CASE f.type = "UA" /\ lastType = "SABM" -> "open"
    [] CallsOnStop(f) -> "closed"
    [] OTHER -> told[0]

(* cmux_on_control_message: frames the arrays have no element for are      *)
(* dropped.                                                                *)
OnControlMessage(f) ==
  /\ Len(calls) < MaxNesting
  /\ UNCHANGED <<options, last, tx>>
  /\ \/ ~Allowed(f.dlci) /\ UNCHANGED <<calls, told, fault>>
     \/ /\ Allowed(f.dlci)
        /\ fault' = (fault \/ f.dlci \notin Slots)
        /\ \E lastType \in Element(last, f.dlci, LastTypes),
              registered \in Element(options, f.dlci, BOOLEAN) :
             \/ /\ f.dlci = 0
                /\ calls' = Append(calls, [frame |-> f, last |-> lastType])
                /\ UNCHANGED told
             \/ /\ f.dlci # 0
                /\ told' = [told EXCEPT ![f.dlci] =
                              ToldTerminal(f, lastType, registered)]
                /\ UNCHANGED calls

(* on_event returns to the innermost handler call. *)
EventReturn ==
  /\ calls # <<>>
  /\ LET c == Last(calls)
     IN  told' = [told EXCEPT ![0] = ToldMux(c.frame, c.last)]
  /\ calls' = Front(calls)
  /\ UNCHANGED <<options, last, tx, fault>>
=============================================================================
