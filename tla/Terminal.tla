------------------------------ MODULE Terminal ------------------------------
(***************************************************************************)
(* What lib/cmux promises the two programs about each DLCI: the client's   *)
(* program sets a goal, the server's program hears of it, and only then    *)
(* the client's program hears that it is reached.  DLCI 0 stands for the   *)
(* multiplexer itself: it is open between start and stop.                  *)
(***************************************************************************)
CONSTANT Dlci

VARIABLES
  goal,    \* what the client's program last asked for
  peer,    \* what the server's program was last told
  told     \* what the client's program was last told

vars == <<goal, peer, told>>

States == {"open", "closed"}

Init ==
  /\ goal = [d \in Dlci |-> "closed"]
  /\ peer = [d \in Dlci |-> "closed"]
  /\ told = [d \in Dlci |-> "closed"]

(* A new goal is set only once the last one was reached. *)
Ask(d) ==
  /\ told[d] = goal[d]
  /\ goal' \in {[goal EXCEPT ![d] = g] : g \in States \ {goal[d]}}
  /\ UNCHANGED <<peer, told>>

Comply(d) ==
  /\ told[d] # goal[d] /\ peer[d] # goal[d]
  /\ peer' = [peer EXCEPT ![d] = goal[d]]
  /\ UNCHANGED <<goal, told>>

Confirm(d) ==
  /\ told[d] # goal[d] /\ peer[d] = goal[d]
  /\ told' = [told EXCEPT ![d] = goal[d]]
  /\ UNCHANGED <<goal, peer>>

(* A program begins anew; the other one knows nothing of it. *)
Forget ==
  /\ goal' = [d \in Dlci |-> "closed"]
  /\ told' = [d \in Dlci |-> "closed"]
  /\ UNCHANGED peer

PeerForgets ==
  /\ peer' = [d \in Dlci |-> "closed"]
  /\ UNCHANGED <<goal, told>>

Next == Forget \/ PeerForgets \/ \E d \in Dlci : Ask(d) \/ Comply(d) \/ Confirm(d)

Spec == Init /\ [][Next]_vars

FairSpec ==
  /\ Spec
  /\ \A d \in Dlci : WF_vars(Comply(d)) /\ WF_vars(Confirm(d))
=============================================================================
