------------------------------ MODULE CmuxLink ------------------------------
(***************************************************************************)
(* A client and a server of lib/cmux joined by a line that delivers the    *)
(* frames of each direction in order.  A program may call its instance at  *)
(* any time, from inside a callback too; what it calls is left to the      *)
(* modules that extend this one.                                           *)
(***************************************************************************)
EXTENDS CmuxFrame, SequencesExt

CONSTANTS
  Dlci,          \* the DLCIs the two programs use
  MaxNesting,    \* bound: handler calls of one side active at the same time
  MaxWire        \* bound: frames in flight in one direction

(* A DLCI is a number, and so is the depth of the stacks. *)
ASSUME LinkAssumption == Dlci \subseteq Nat /\ MaxNesting \in Nat

VARIABLES
  cOptions, cLast, cCalls, cTold, c2s, cFault,
  sOptions, sLast, sCalls, sTold, s2c, sFault

cvars == <<cOptions, cLast, cCalls, cTold, cFault>>
svars == <<sOptions, sLast, sCalls, sTold, sFault>>
lvars == <<cOptions, cLast, cCalls, cTold, cFault, c2s,
           sOptions, sLast, sCalls, sTold, sFault, s2c>>

Client == INSTANCE CmuxClient WITH
  options <- cOptions, last <- cLast, calls <- cCalls, told <- cTold,
  tx <- c2s, fault <- cFault

Server == INSTANCE CmuxServer WITH
  options <- sOptions, last <- sLast, calls <- sCalls, told <- sTold,
  tx <- s2c, fault <- sFault

LinkInit == Client!Init /\ Server!Init

(* The number of elements of the queue or stack s that are in S. *)
Count(s, S) == Cardinality({i \in DOMAIN s : s[i] \in S})

(* What the stack of the server, and that of the client, may hold. *)
ServerCall == [frame : Frame, stage : {"event", "callback"}]
ClientCall == [frame : Frame, last : LastTypes]

----------------------------------------------------------------------------
(* A program calls its instance; it sends no more while MaxWire frames are *)
(* in flight (the replies of the handlers do not wait).                    *)
ClientCalls(Operation) ==
  /\ Len(c2s) < MaxWire
  /\ Operation
  /\ UNCHANGED <<svars, s2c>>

ServerCalls(Operation) ==
  /\ Len(s2c) < MaxWire
  /\ Operation
  /\ UNCHANGED <<cvars, c2s>>

(* The line delivers a frame, or a handler goes on. *)
ClientIngest ==
  /\ s2c # <<>>
  /\ Client!OnControlMessage(Head(s2c))
  /\ s2c' = Tail(s2c)
  /\ UNCHANGED svars

ServerIngest ==
  /\ c2s # <<>>
  /\ Server!OnControlMessage(Head(c2s))
  /\ c2s' = Tail(c2s)
  /\ UNCHANGED cvars

ClientReturn == Client!EventReturn /\ UNCHANGED <<svars, s2c>>

ServerEventReturn == Server!EventReturn /\ UNCHANGED <<cvars, c2s>>

ServerCallbackReturn == Server!CallbackReturn /\ UNCHANGED <<cvars, c2s>>

Handlers ==
  \/ ClientIngest
  \/ ClientReturn
  \/ ServerIngest
  \/ ServerEventReturn
  \/ ServerCallbackReturn

(* The line delivers, and a callback returns in the end even if the line   *)
(* delivers other frames to the same side from inside it: nothing in the   *)
(* library waits.                                                          *)
HandlersFairness ==
  /\ WF_lvars(ClientIngest) /\ WF_lvars(ServerIngest)
  /\ \A n \in 1 .. MaxNesting :
       /\ SF_lvars(Len(cCalls) = n /\ ClientReturn)
       /\ SF_lvars(Len(sCalls) = n /\ (ServerEventReturn \/ ServerCallbackReturn))
=============================================================================
