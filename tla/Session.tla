------------------------------ MODULE Session ------------------------------
(***************************************************************************)
(* The link with two programs that follow readme.md: the client's program  *)
(* waits for the callback of each request before it goes on ("the code     *)
(* should wait for ..."), opens terminals on a started multiplexer only    *)
(* and stops it when they are closed; the server's program registers its   *)
(* terminals first, leaves closing to the client, and sends on terminals   *)
(* it was told are open, once on_terminal_open has returned.               *)
(*                                                                         *)
(* The line may lose frames: cmux_buffer.c passes over a frame whose check *)
(* sequence does not match.  The library has no timers; the client's       *)
(* program repeats a request whose callback has not come after a time that *)
(* is longer than any answer takes.  Either program may also give up its   *)
(* instance and begin anew with another one, when nothing is under way.    *)
(***************************************************************************)
EXTENDS CmuxLink

CONSTANTS
  MaxFaults,       \* bound: frames lost and restarts
  MaxRestarts      \* bound: restarts

(* Such programs use the multiplexer's own DLCI and terminals that the     *)
(* arrays have an element for.                                             *)
ASSUME SessionAssumption == 0 \in Dlci /\ Dlci \subseteq Slots

VARIABLES
  goal,            \* what the client's program wants of each DLCI
  faults,          \* the number of frames lost and restarts
  restarts,        \* the number of restarts
  gone             \* the DLCIs whose request or answer was lost

vars == <<lvars, goal, faults, restarts, gone>>

Terminals == Dlci \ {0}

Init ==
  /\ LinkInit
  /\ goal = [d \in Dlci |-> "closed"]
  /\ faults = 0
  /\ restarts = 0
  /\ gone = {}

IsRequest(f, d) ==
  f.dlci = d /\ (f.type \in {"SABM", "DISC"} \/ f.body = "closeDown")

IsAnswer(f, d) == f.dlci = d /\ (f.type = "UA" \/ f.body = "closedDown")

Requests(d) == {f \in Frame : IsRequest(f, d)}
Answers(d) == {f \in Frame : IsAnswer(f, d)}
Handling(d) == {c \in ServerCall : c.frame \in Requests(d)}
Hearing(d) == {c \in ClientCall : c.frame \in Answers(d)}

(* The requests for d and answers about d between the two programs. *)
UnderWay(d) ==
  Count(c2s, Requests(d)) + Count(sCalls, Handling(d))
    + Count(s2c, Answers(d)) + Count(cCalls, Hearing(d))

----------------------------------------------------------------------------
Reached(d, state) == goal[d] = state /\ cTold[d] = state

ClientAsks(d, state, Operation) ==
  /\ goal' = [goal EXCEPT ![d] = state]
  /\ ClientCalls(Operation)
  /\ UNCHANGED <<faults, restarts, gone>>

Start ==
  /\ Reached(0, "closed")
  /\ \A d \in Terminals : sOptions[d]
  /\ ClientAsks(0, "open", Client!Start)

Stop ==
  /\ Reached(0, "open")
  /\ \A d \in Terminals : Reached(d, "closed")
  /\ ClientAsks(0, "closed", Client!Stop)

Open(d) ==
  /\ Reached(0, "open") /\ Reached(d, "closed")
  /\ ClientAsks(d, "open", Client!TerminalOpen(d, TRUE))

Close(d) ==
  /\ Reached(d, "open")
  /\ ClientAsks(d, "closed", Client!TerminalClose(d))

Send(d) ==
  /\ Reached(d, "open")
  /\ ClientCalls(Client!TerminalSend(d))
  /\ UNCHANGED <<goal, faults, restarts, gone>>

(* The handler has called back about d and not replied yet. *)
InCallback(d) ==
  \E i \in DOMAIN sCalls :
    sCalls[i].frame.dlci = d /\ sCalls[i].stage = "callback"

Register(d) ==
  /\ ~sOptions[d]
  /\ ServerCalls(Server!RegisterTerminal(d, TRUE))
  /\ UNCHANGED <<goal, faults, restarts, gone>>

ServerSend(d) ==
  /\ sTold[d] = "open"
  /\ ~InCallback(d)
  /\ ServerCalls(Server!TerminalSend(d))
  /\ UNCHANGED <<goal, faults, restarts, gone>>

(* The line loses the frame that f is of queue q. *)
LoseFrom(f) ==
  /\ faults < MaxFaults
  /\ faults' = faults + 1
  /\ gone' = gone \cup {d \in Dlci : IsRequest(f, d) \/ IsAnswer(f, d)}
  /\ UNCHANGED <<cvars, svars, goal, restarts>>

Lose ==
  \/ c2s # <<>> /\ LoseFrom(Head(c2s)) /\ c2s' = Tail(c2s) /\ UNCHANGED s2c
  \/ s2c # <<>> /\ LoseFrom(Head(s2c)) /\ s2c' = Tail(s2c) /\ UNCHANGED c2s

(* The callback has not come in time: the program asks again. *)
Retry(d) ==
  /\ d \in gone
  /\ gone' = gone \ {d}
  /\ \/ d = 0 /\ goal[d] = "open" /\ ClientCalls(Client!Start)
     \/ d = 0 /\ goal[d] = "closed" /\ ClientCalls(Client!Stop)
     \/ d # 0 /\ goal[d] = "open" /\ ClientCalls(Client!TerminalOpen(d, TRUE))
     \/ d # 0 /\ goal[d] = "closed" /\ ClientCalls(Client!TerminalClose(d))
  /\ UNCHANGED <<goal, faults, restarts>>

(* A program begins anew.  The other one does not hear of it. *)
Restarts ==
  /\ faults < MaxFaults /\ restarts < MaxRestarts
  /\ faults' = faults + 1 /\ restarts' = restarts + 1
  /\ \A d \in Dlci : UnderWay(d) = 0

RestartClient ==
  /\ Restarts
  /\ Client!Renew
  /\ goal' = [d \in Dlci |-> "closed"]
  /\ gone' = {}
  /\ UNCHANGED <<svars, c2s, s2c>>

RestartServer ==
  /\ Restarts
  /\ Server!Renew(Terminals)
  /\ UNCHANGED <<cvars, c2s, s2c, goal, gone>>

Deliver == Handlers /\ UNCHANGED <<goal, faults, restarts, gone>>

Next ==
  \/ Start \/ Stop
  \/ \E d \in Terminals :
       Open(d) \/ Close(d) \/ Send(d) \/ Register(d) \/ ServerSend(d)
  \/ Deliver
  \/ Lose
  \/ RestartClient \/ RestartServer
  \/ \E d \in Dlci : Retry(d)

Spec == Init /\ [][Next]_vars

(* The program's timer expires and the request goes out, though the line   *)
(* may be busy now and then.                                               *)
FairSpec ==
  /\ Spec
  /\ HandlersFairness
  /\ \A d \in Dlci : SF_vars(Retry(d))

----------------------------------------------------------------------------
(* A DLCI with a goal not reached has exactly one request or answer        *)
(* somewhere between the two programs, or lost by the line; the others     *)
(* have none: nothing the two handlers do loses it or doubles it, and no   *)
(* request is asked for twice.                                             *)
OneOutstanding ==
  \A d \in Dlci :
    UnderWay(d) + (IF d \in gone THEN 1 ELSE 0)
      = IF goal[d] = cTold[d] THEN 0 ELSE 1

(* Data comes to the server only for terminals its program was told are    *)
(* open: the UA that lets the client send comes after on_terminal_open,    *)
(* and no DISC overtakes data, whatever the line loses.  After a restart,  *)
(* one that begins anew gets data of the terminals that the client's       *)
(* program was told are open.                                              *)
ServerData(d) ==
  /\ ServerIngest
  /\ Head(c2s).type = "UIH" /\ Head(c2s).dlci = d
ServerDataWhenOpen ==
  [][\A d \in Terminals :
       ServerData(d) => sTold[d] = "open" \/ (restarts > 0 /\ cTold[d] = "open")]_vars

(* The client's program gets data only of terminals it was told are open;  *)
(* after a fault, of those the server's program was told are open: its UA  *)
(* may be lost, and a client that begins anew finds terminals open.        *)
ClientData(d) ==
  /\ ClientIngest
  /\ Head(s2c).type = "UIH" /\ Head(s2c).dlci = d
ClientDataWhenOpen ==
  [][\A d \in Terminals :
       ClientData(d) => cTold[d] = "open" \/ (faults > 0 /\ sTold[d] = "open")]_vars

(* The callbacks the programs get are those of an abstract terminal.  With *)
(* CallbackComes they have its fairness too: once a goal is reached,       *)
(* neither Comply nor Confirm is enabled.                                  *)
Abstract == INSTANCE Terminal WITH
  peer <- [d \in Dlci |-> sTold[d]],
  told <- [d \in Dlci |-> cTold[d]]

ImplementsTerminal == Abstract!Spec

(* Every request of the client's program is answered by its callback, if   *)
(* the line stops losing frames.                                           *)
CallbackComes ==
  \A d \in Dlci : (goal[d] # cTold[d]) ~> (goal[d] = cTold[d])
=============================================================================
