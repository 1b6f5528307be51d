------------------------------ MODULE FreeLink ------------------------------
(***************************************************************************)
(* The link with two programs that call the API as they please: they open, *)
(* close and stop without waiting for the callbacks, and the server's      *)
(* program closes terminals too.                                           *)
(***************************************************************************)
EXTENDS CmuxLink, FiniteSetsExt

CONSTANTS
  MaxAsked,    \* bound: requests of the client's program
  MaxServer    \* bound: calls of the server's program

VARIABLES
  asked,       \* history: requests of the client that call for an answer,
  answered,    \* and the answers its handler ingested, by kind of answer
  onStops,     \* calls of the client's on_stop, but for a server's command
  served       \* calls of the server's program

vars == <<lvars, asked, answered, onStops, served>>

Terminals == Dlci \ {0}

(* The answers to a SABM or DISC, and those to a close down command. *)
Responses(d) == {Mk("UA", d, "none"), Mk("DM", d, "none")}
Stopped == {Mk("UIH", 0, "closedDown")}
Answers == {Responses(d) : d \in Dlci} \cup {Stopped}

(* The command itself; a client gets it only from a server that stops.     *)
Command == Mk("UIH", 0, "closeDown")

(* The requests that the history counts, by the kind of answer to them: a  *)
(* UA, or the DM of a station that is disconnected, which are not told     *)
(* apart.  A DISC of DLCI 0 is none of them: it is a close down command by *)
(* what cmux_frame_type.h says, and nothing by what the server does.       *)
CallsFor(f, a) ==
  \/ f.type = "SABM" /\ a = Responses(f.dlci)
  \/ f.type = "DISC" /\ f.dlci # 0 /\ a = Responses(f.dlci)
  \/ f.body = "closeDown" /\ a = Stopped

Init ==
  /\ LinkInit
  /\ asked = [a \in Answers |-> 0]
  /\ answered = [a \in Answers |-> 0]
  /\ onStops = 0
  /\ served = 0

----------------------------------------------------------------------------
(* A request of the client's program, counted if the line took it. *)
ClientAsks(Operation) ==
  /\ SumFunction(asked) < MaxAsked
  /\ ClientCalls(Operation)
  /\ asked' = [a \in Answers |->
                 asked[a] + IF c2s' # c2s /\ CallsFor(Last(c2s'), a) THEN 1 ELSE 0]
  /\ UNCHANGED <<answered, onStops, served>>

ClientProgram ==
  \/ ClientAsks(Client!Start)
  \/ ClientAsks(Client!Stop)
  \/ \E d \in Dlci :
       \/ ClientAsks(Client!TerminalOpen(d, TRUE))
       \/ ClientAsks(Client!TerminalClose(d))
       \/ ClientAsks(Client!TerminalSend(d))

ServerProgram ==
  /\ \/ /\ \E d \in Terminals, registered \in BOOLEAN :
             ServerCalls(Server!RegisterTerminal(d, registered))
        /\ UNCHANGED served
     \/ /\ served < MaxServer
        /\ served' = served + 1
        /\ \/ ServerCalls(Server!Stop)
           \/ \E d \in Dlci : \/ ServerCalls(Server!TerminalClose(d))
                               \/ ServerCalls(Server!TerminalSend(d))
  /\ UNCHANGED <<asked, answered, onStops>>

Deliver ==
  \/ /\ ClientIngest
     /\ answered' = [a \in Answers |->
                       answered[a] + IF Head(s2c) \in a THEN 1 ELSE 0]
     /\ UNCHANGED <<asked, onStops, served>>
  \/ /\ ClientReturn
     /\ LET f == Last(cCalls).frame
        IN  onStops' = onStops + IF Client!CallsOnStop(f) /\ f # Command
                                 THEN 1 ELSE 0
     /\ UNCHANGED <<asked, answered, served>>
  \/ /\ ServerIngest \/ ServerEventReturn \/ ServerCallbackReturn
     /\ UNCHANGED <<asked, answered, onStops, served>>

Next == ClientProgram \/ ServerProgram \/ Deliver

Spec == Init /\ [][Next]_vars

FairSpec == Spec /\ HandlersFairness

----------------------------------------------------------------------------
(* The frames that call for the answer a, and the server's calls for them. *)
Requests(a) == {f \in Frame : CallsFor(f, a)}
Handling(a) == {c \in ServerCall : c.frame \in Requests(a)}

(* The calls of the client's handler that have the answer to a stop. *)
HandlingStopped == {c \in ClientCall : c.frame \in Stopped}

(* Every variable stays in its type. *)
TypeOK ==
  /\ cOptions \in [Slots -> BOOLEAN] /\ sOptions \in [Slots -> BOOLEAN]
  /\ cLast \in [Slots -> LastTypes] /\ sLast \in [Slots -> LastTypes]
  /\ cTold \in [0 .. MaximumDlci -> {"open", "closed"}]
  /\ sTold \in [0 .. MaximumDlci -> {"open", "closed"}]
  /\ c2s \in Seq(Frame) /\ s2c \in Seq(Frame)
  /\ cCalls \in Seq(ClientCall) /\ sCalls \in Seq(ServerCall)
  /\ Len(cCalls) <= MaxNesting /\ Len(sCalls) <= MaxNesting
  /\ cFault \in BOOLEAN /\ sFault \in BOOLEAN
  /\ asked \in [Answers -> Nat] /\ answered \in [Answers -> Nat]
  /\ onStops \in Nat /\ served \in Nat

(* Every SABM, every DISC of a terminal and every close down command is    *)
(* answered exactly once: a request of the client is on its way, is in a   *)
(* handler call of the server, has its answer on the way, or was answered; *)
(* none is lost or answered twice, whatever the programs do in callbacks.  *)
(* Two cases are left out, where cmux_frame_type.h says one thing and the  *)
(* code does another: whether the answer to the DISC of a terminal that is *)
(* closed is UA or DM, and what a DISC of DLCI 0 does.                     *)
AnsweredOnce ==
  \A a \in Answers :
    asked[a] = Count(c2s, Requests(a)) + Count(sCalls, Handling(a))
             + Count(s2c, a) + answered[a]

(* No element outside the arrays of terminals is accessed, though the      *)
(* programs use DLCIs above the maximum: the DLCIs in use are the slots    *)
(* and some number no bound allows.                                        *)
NoFault == ~cFault /\ ~sFault

(* Every stop of the client's program makes its on_stop run exactly once:  *)
(* until then the command, the server's call for it, the answer or the     *)
(* client's call for that is under way somewhere.  Nothing else makes it   *)
(* run, no data sent on DLCI 0 and no other service, however the callbacks *)
(* nest.  What a close down command of the server does is left out: the    *)
(* code runs on_stop for it, cmux_client.h names the client's stop only.   *)
OnStopOncePerStop ==
  asked[Stopped] = Count(c2s, Requests(Stopped)) + Count(sCalls, Handling(Stopped))
                 + Count(s2c, Stopped) + Count(cCalls, HandlingStopped) + onStops

----------------------------------------------------------------------------
(* What a comment of the library says and the code does not do.            *)

Sent(s, type, d) == \E i \in DOMAIN s : s[i].type = type /\ s[i].dlci = d

(* cmux_frame_type.h: "the receiving station shall confirm the acceptance  *)
(* of the DISC command by the transmission of a UA response", also when    *)
(* the server's program closes the terminal.                               *)
ServerCloseConfirmed ==
  \A d \in Terminals : Sent(s2c, "DISC", d) ~> Sent(c2s, "UA", d)

=============================================================================
