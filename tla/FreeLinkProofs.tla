--------------------------- MODULE FreeLinkProofs ---------------------------
(***************************************************************************)
(* The safety of the link with two programs that call as they please, for  *)
(* any set of DLCIs, any number of requests and any nesting of callbacks.  *)
(*                                                                         *)
(* AnsweredOnce is not inductive alone: it must be known of every frame on *)
(* its way to the server, and of every call of its handler, that it is one *)
(* the client sends; and of a call that has called back, that it replies.  *)
(* OnStopOncePerStop follows from it and from the way that each answer to  *)
(* a stop goes through the client's handler (OnStopInv).                   *)
(***************************************************************************)
EXTENDS FreeLink, LinkProofs

(* The frames the client's program sends: no other reaches the line, and   *)
(* none with a DLCI that the handlers drop.                                *)
ClientFrame ==
  {f \in Frame :
     /\ f.dlci \in Dlci \cup {0} /\ Allowed(f.dlci)
     /\ \/ f.type \in {"SABM", "DISC"} /\ f.body = "none"
        \/ f.type = "UIH" /\ f.body = "data"
        \/ f.type = "UIH" /\ f.body = "closeDown" /\ f.dlci = 0}

(* A call of the server's handler that has called back is going to reply. *)
ServedCall ==
  {c \in ServerCall :
     /\ c.frame \in ClientFrame
     /\ c.stage = "callback" => Server!Replies(c.frame) # <<>>}

(* The frames on the way to the client; its handler calls on_event for     *)
(* those of DLCI 0 only.                                                   *)
ServerFrame == {f \in Frame : f.dlci \in Dlci \cup {0}}
AnsweringCall == {c \in ClientCall : c.frame \in ServerFrame /\ c.frame.dlci = 0}

QueueInv ==
  /\ c2s \in Seq(ClientFrame) /\ sCalls \in Seq(ServedCall)
  /\ s2c \in Seq(ServerFrame) /\ cCalls \in Seq(AnsweringCall)

(* An access outside the arrays takes a DLCI that is the maximum itself. *)
FaultInv == cFault \/ sFault => MaximumDlci \in Dlci

(* Each answer to a stop that came to the client is in a call of its       *)
(* handler or has made on_stop run.                                        *)
OnStopInv == answered[Stopped] = Count(cCalls, HandlingStopped) + onStops

FreeLinkInv == TypeOK /\ QueueInv /\ FaultInv /\ AnsweredOnce /\ OnStopInv

----------------------------------------------------------------------------
(* The kinds of answers: two of a kind have the DLCI in common. *)
LEMMA AnswerKinds ==
  /\ Stopped \in Answers
  /\ \A a \in Answers : a = Stopped \/ \E d \in Dlci : a = Responses(d)
  /\ \A d : /\ Mk("UA", d, "none") \in Responses(d)
           /\ Mk("UA", d, "none") \notin Stopped
           /\ Responses(d) # Stopped
           /\ \A e : Mk("UA", d, "none") \in Responses(e) => d = e
  /\ \A a \in Answers : \A f \in a : f.type \in {"UA", "DM"} \/ f.body = "closedDown"
<1>1. Stopped \in Answers
  BY DEF Answers
<1>2. \A a \in Answers : a = Stopped \/ \E d \in Dlci : a = Responses(d)
  BY DEF Answers
<1>3. ASSUME NEW d
      PROVE  /\ Mk("UA", d, "none") \in Responses(d)
             /\ Mk("UA", d, "none") \notin Stopped
             /\ \A e : Mk("UA", d, "none") \in Responses(e) => d = e
  <2>1. Mk("UA", d, "none").type = "UA" /\ Mk("UA", d, "none").dlci = d
    BY DEF Mk
  <2>2. Mk("UIH", 0, "closedDown").type = "UIH"
    BY DEF Mk
  <2>3. \A e, t : Mk(t, e, "none").dlci = e
    BY DEF Mk
  <2> QED
    BY <2>1, <2>2, <2>3 DEF Responses, Stopped
<1>4. \A d : Responses(d) # Stopped
  BY <1>3
<1>5. ASSUME NEW a \in Answers, NEW f \in a
      PROVE  f.type \in {"UA", "DM"} \/ f.body = "closedDown"
  <2>1. \A d : \A g \in Responses(d) : g.type \in {"UA", "DM"}
    BY DEF Responses, Mk
  <2>2. \A g \in Stopped : g.body = "closedDown"
    BY DEF Stopped, Mk
  <2> QED
    BY <1>2, <1>5, <2>1, <2>2
<1> QED
  BY <1>1, <1>2, <1>3, <1>4, <1>5

(* The server replies to a request of the client with an answer of the     *)
(* kind it calls for, and to nothing else.                                 *)
LEMMA ReplyIsAnswer ==
  ASSUME NEW f \in ClientFrame
  PROVE  /\ Server!Replies(f) = <<>> => \A a \in Answers : f \notin Requests(a)
         /\ Server!Replies(f) # <<>> =>
              /\ Server!Replies(f)[1] \in Frame
              /\ Server!Replies(f)[1].dlci = f.dlci
              /\ \A a \in Answers : f \in Requests(a) <=> Server!Replies(f)[1] \in a
<1>1. /\ f \in Frame /\ f.dlci \in Nat
      /\ \/ f.type \in {"SABM", "DISC"} /\ f.body = "none"
         \/ f.type = "UIH" /\ f.body = "data"
         \/ f.type = "UIH" /\ f.body = "closeDown" /\ f.dlci = 0
  BY DEF ClientFrame, Frame
<1>2. \A a \in Answers : f \in Requests(a) <=> CallsFor(f, a)
  BY <1>1 DEF Requests
<1>5. CASE f.type = "SABM" \/ (f.type = "DISC" /\ f.dlci # 0)
  <2> DEFINE r == Mk("UA", f.dlci, "none")
  <2>1. Server!Replies(f) = <<r>>
    BY <1>5, RepliesCases
  <2>2. r \in Frame /\ r.dlci = f.dlci
    BY <1>1 DEF Frame, Types, Bodies, Mk
  <2>3. \A a \in Answers : CallsFor(f, a) <=> a = Responses(f.dlci)
    BY <1>1, <1>5, AnswerKinds DEF CallsFor
  <2>4. \A a \in Answers : r \in a <=> a = Responses(f.dlci)
    BY AnswerKinds
  <2> HIDE DEF r
  <2> QED
    BY <1>2, <2>1, <2>2, <2>3, <2>4
<1>6. CASE f.type = "UIH" /\ f.body = "closeDown" /\ f.dlci = 0
  <2> DEFINE r == Mk("UIH", 0, "closedDown")
  <2>1. Server!Replies(f) = <<r>>
    BY <1>6, RepliesCases DEF CloseDown
  <2>2. r \in Frame /\ r.dlci = f.dlci /\ r.type = "UIH"
    BY <1>6 DEF Frame, Types, Bodies, CloseDown, Mk
  <2>3. \A a \in Answers : CallsFor(f, a) <=> a = Stopped
    BY <1>6 DEF CallsFor
  <2>4. \A a \in Answers : r \in a <=> a = Stopped
    <3>1. \A d : \A g \in Responses(d) : g.type \in {"UA", "DM"}
      BY DEF Responses, Mk
    <3>2. r \in Stopped
      BY DEF Stopped
    <3> QED
      BY <2>2, <3>1, <3>2, AnswerKinds
  <2> HIDE DEF r
  <2> QED
    BY <1>2, <2>1, <2>2, <2>3, <2>4
<1>7. CASE \/ f.type = "DISC" /\ f.dlci = 0 /\ f.body = "none"
           \/ f.type = "UIH" /\ f.body = "data"
  <2>1. Server!Replies(f) = <<>>
    BY <1>7, RepliesCases DEF CloseDown
  <2>2. \A a \in Answers : ~CallsFor(f, a)
    BY <1>7 DEF CallsFor
  <2> QED
    BY <1>2, <2>1, <2>2
<1> QED
  BY <1>1, <1>5, <1>6, <1>7

(* The strengthening holds of a link just set up. *)
LEMMA InitFreeLinkInv == Init => FreeLinkInv
<1> SUFFICES ASSUME Init PROVE FreeLinkInv
  OBVIOUS
<1> USE DEF Init, LinkInit, Client!Init, Server!Init
<1>1. TypeOK
  <2>1. /\ cOptions \in [Slots -> BOOLEAN] /\ sOptions \in [Slots -> BOOLEAN]
        /\ cFault \in BOOLEAN /\ sFault \in BOOLEAN
    BY FrameNames
  <2>2. /\ cLast \in [Slots -> LastTypes] /\ sLast \in [Slots -> LastTypes]
        /\ cTold \in [0 .. MaximumDlci -> {"open", "closed"}]
        /\ sTold \in [0 .. MaximumDlci -> {"open", "closed"}]
    BY FrameNames DEF LastTypes
  <2>3. /\ c2s \in Seq(Frame) /\ s2c \in Seq(Frame)
        /\ cCalls \in Seq(ClientCall) /\ sCalls \in Seq(ServerCall)
        /\ Len(cCalls) <= MaxNesting /\ Len(sCalls) <= MaxNesting
    BY LinkAssumption
  <2>4. /\ asked \in [Answers -> Nat] /\ answered \in [Answers -> Nat]
        /\ onStops \in Nat /\ served \in Nat
    OBVIOUS
  <2> QED
    BY <2>1, <2>2, <2>3, <2>4 DEF TypeOK
<1>2. QueueInv
  BY DEF QueueInv
<1>3. AnsweredOnce
  BY CountEmpty DEF AnsweredOnce
<1>4. FaultInv
  BY DEF FaultInv
<1>5. OnStopInv
  BY CountEmpty, AnswerKinds DEF OnStopInv
<1> QED
  BY <1>1, <1>2, <1>3, <1>4, <1>5 DEF FreeLinkInv

----------------------------------------------------------------------------
(* A call of the client's program sends one frame, or none. *)
LEMMA ClientProgramEffect ==
  ASSUME TypeOK, ClientProgram
  PROVE  /\ cOptions' \in [Slots -> BOOLEAN] /\ cLast' \in [Slots -> LastTypes]
         /\ UNCHANGED <<cCalls, cTold, svars, s2c, answered, onStops, served>>
         /\ cFault' \in BOOLEAN /\ (cFault' => cFault \/ MaximumDlci \in Dlci)
         /\ \/ UNCHANGED <<c2s, asked>>
            \/ \E f \in ClientFrame :
                 /\ c2s' = Append(c2s, f)
                 /\ asked' = [a \in Answers |->
                                asked[a] + IF CallsFor(f, a) THEN 1 ELSE 0]
<1> DEFINE Asked ==
      asked' = [a \in Answers |->
                  asked[a] + IF c2s' # c2s /\ CallsFor(Last(c2s'), a) THEN 1 ELSE 0]
    Effect ==
      /\ cOptions' \in [Slots -> BOOLEAN] /\ cLast' \in [Slots -> LastTypes]
      /\ cFault' \in BOOLEAN /\ (cFault' => cFault \/ MaximumDlci \in Dlci)
      /\ \/ UNCHANGED <<c2s, asked>>
         \/ \E f \in ClientFrame :
              /\ c2s' = Append(c2s, f)
              /\ asked' = [a \in Answers |->
                             asked[a] + IF CallsFor(f, a) THEN 1 ELSE 0]
<1>0. /\ c2s \in Seq(Frame) /\ asked \in [Answers -> Nat]
      /\ cOptions \in [Slots -> BOOLEAN] /\ cLast \in [Slots -> LastTypes]
      /\ cFault \in BOOLEAN
      /\ 0 \in Slots /\ Allowed(0) /\ Dlci \subseteq Nat
  BY LinkAssumption, MaximumDlciAssumption DEF TypeOK, Slots, Allowed
<1>1. ASSUME NEW f \in ClientFrame, Client!SendFrame(f), Asked,
             cOptions' \in [Slots -> BOOLEAN]
      PROVE  Effect
  <2>1. /\ f \in Frame /\ Allowed(f.dlci) /\ f.type \in LastTypes
        /\ f.dlci \in Dlci \cup {0}
    BY DEF ClientFrame, Frame, LastTypes
  <2>2. /\ cLast' = [cLast EXCEPT ![f.dlci] = f.type]
        /\ c2s' = Append(c2s, f) /\ cFault' = (cFault \/ f.dlci \notin Slots)
    BY <1>1, <2>1, ClientSendsFrame
  <2>3. c2s' # c2s /\ Last(c2s') = f
    BY <1>0, <2>1, <2>2, AppendLast
  <2>4. asked' = [a \in Answers |-> asked[a] + IF CallsFor(f, a) THEN 1 ELSE 0]
    BY <1>1, <2>3
  <2>5. cLast' \in [Slots -> LastTypes]
    BY <1>0, <2>1, <2>2
  <2>6. cFault' \in BOOLEAN /\ (cFault' => cFault \/ MaximumDlci \in Dlci)
    BY <1>0, <2>1, <2>2, OnlyMaximum
  <2> QED
    BY <1>1, <2>2, <2>4, <2>5, <2>6
<1>2. ASSUME NEW d \in Dlci, NEW type, NEW body,
             type \in {"DISC", "UIH"}, type = "UIH" => body = "data",
             type = "DISC" => body = "none",
             Client!Request(d, type, body), Asked
      PROVE  Effect
  <2> DEFINE f == Mk(type, d, body)
  <2>1. /\ f.dlci = d /\ Client!SendFrame(f) /\ cOptions' \in [Slots -> BOOLEAN]
    BY <1>0, <1>2, FrameNames DEF Client!Request, Mk
  <2>2. CASE Allowed(d)
    <3>1. f \in ClientFrame
      BY <1>0, <1>2, <2>2 DEF ClientFrame, Frame, Mk, Types, Bodies
    <3> QED
      BY <1>1, <1>2, <2>1, <3>1
  <2>3. CASE ~Allowed(d)
    <3>1. UNCHANGED <<cLast, c2s, cFault>>
      BY <2>1, <2>3, NotSent
    <3>2. asked' = asked
      BY <1>0, <1>2, <3>1
    <3> QED
      BY <1>0, <2>1, <3>1, <3>2
  <2> QED
    BY <2>2, <2>3
<1>3. ASSUME NEW d \in Dlci \cup {0}, NEW registered \in BOOLEAN,
             Client!TerminalOpen(d, registered), Asked
      PROVE  Effect
  <2> DEFINE f == Mk("SABM", d, "none")
  <2>1. /\ Client!SendFrame(f) /\ Allowed(d)
        /\ cOptions' = [cOptions EXCEPT ![d] = registered]
    BY <1>3, FrameNames DEF Client!TerminalOpen
  <2>2. f \in ClientFrame
    BY <1>0, <2>1 DEF ClientFrame, Frame, Mk, Types, Bodies
  <2>3. cOptions' \in [Slots -> BOOLEAN]
    BY <1>0, <2>1
  <2> QED
    BY <1>1, <1>3, <2>1, <2>2, <2>3
<1>4. ASSUME Client!Stop, Asked
      PROVE  Effect
  <2> DEFINE f == Mk("UIH", 0, "closeDown")
  <2>1. Client!SendFrame(f) /\ cOptions' \in [Slots -> BOOLEAN]
    BY <1>0, <1>4, FrameNames DEF Client!Stop, Client!Request
  <2>2. f \in ClientFrame
    BY <1>0 DEF ClientFrame, Frame, Mk, Types, Bodies, CloseDown
  <2> QED
    BY <1>1, <1>4, <2>1, <2>2
<1>5. /\ UNCHANGED <<cCalls, cTold, svars, s2c, answered, onStops, served>>
      /\ Asked
      /\ \/ \E d \in Dlci \cup {0}, registered \in BOOLEAN :
              Client!TerminalOpen(d, registered)
         \/ Client!Stop
         \/ \E d \in Dlci : \/ Client!Request(d, "UIH", "data")
                            \/ Client!Request(d, "DISC", "none")
  BY DEF ClientProgram, ClientAsks, ClientCalls, Client!Start, Client!Stop,
         Client!TerminalOpen, Client!TerminalClose, Client!TerminalSend,
         Client!Request, svars
<1> HIDE DEF Asked, Effect
<1>6. Effect
  BY <1>2, <1>3, <1>4, <1>5
<1> QED
  BY <1>5, <1>6 DEF Effect

(* A call of the server's program sends one frame, which is no answer to a *)
(* request, or none.                                                       *)
LEMMA ServerProgramEffect ==
  ASSUME TypeOK, ServerProgram
  PROVE  /\ sOptions' \in [Slots -> BOOLEAN] /\ sLast' \in [Slots -> LastTypes]
         /\ UNCHANGED <<sCalls, sTold, cvars, c2s, asked, answered, onStops>>
         /\ served' \in Nat
         /\ sFault' \in BOOLEAN /\ (sFault' => sFault \/ MaximumDlci \in Dlci)
         /\ \/ UNCHANGED s2c
            \/ \E f \in Frame :
                 /\ f.dlci \in Dlci \cup {0} /\ \A a \in Answers : f \notin a
                 /\ s2c' = Append(s2c, f)
<1> DEFINE Effect ==
      /\ sOptions' \in [Slots -> BOOLEAN] /\ sLast' \in [Slots -> LastTypes]
      /\ sFault' \in BOOLEAN /\ (sFault' => sFault \/ MaximumDlci \in Dlci)
      /\ \/ UNCHANGED s2c
         \/ \E f \in Frame :
              /\ f.dlci \in Dlci \cup {0} /\ \A a \in Answers : f \notin a
              /\ s2c' = Append(s2c, f)
<1>0. /\ sOptions \in [Slots -> BOOLEAN] /\ sLast \in [Slots -> LastTypes]
      /\ sFault \in BOOLEAN /\ served \in Nat
      /\ 0 \in Slots /\ Allowed(0) /\ Dlci \subseteq Nat
  BY LinkAssumption, MaximumDlciAssumption DEF TypeOK, Slots, Allowed
<1>1. ASSUME NEW d \in Dlci \cup {0}, NEW type, NEW body,
             type \in {"DISC", "UIH"}, body \in {"none", "data", "closeDown"},
             Server!Request(d, type, body)
      PROVE  Effect
  <2> DEFINE f == Mk(type, d, body)
  <2>1. /\ f.dlci = d /\ Server!SendFrame(f) /\ sOptions' \in [Slots -> BOOLEAN]
    BY <1>0, <1>1, FrameNames DEF Server!Request, Mk
  <2>2. CASE Allowed(d)
    <3>1. /\ f \in Frame /\ f.type \in LastTypes
          /\ f.type = type /\ f.body = body
      BY <1>0, <1>1 DEF Frame, Mk, Types, Bodies, CloseDown, LastTypes
    <3>2. \A a \in Answers : f \notin a
      BY <1>1, <3>1, AnswerKinds
    <3>3. /\ sLast' = [sLast EXCEPT ![f.dlci] = f.type]
          /\ s2c' = Append(s2c, f) /\ sFault' = (sFault \/ f.dlci \notin Slots)
      BY <2>1, <2>2, <3>1, ServerSendsFrame
    <3>4. sLast' \in [Slots -> LastTypes]
      BY <1>0, <3>1, <3>3
    <3>5. sFault' \in BOOLEAN /\ (sFault' => sFault \/ MaximumDlci \in Dlci)
      BY <1>0, <2>1, <2>2, <3>3, OnlyMaximum
    <3> QED
      BY <2>1, <3>1, <3>2, <3>3, <3>4, <3>5
  <2>3. CASE ~Allowed(d)
    <3>1. UNCHANGED <<sLast, s2c, sFault>>
      BY <2>1, <2>3, NotSent
    <3> QED
      BY <1>0, <2>1, <3>1
  <2> QED
    BY <2>2, <2>3
<1>2. ASSUME NEW d \in Terminals, NEW registered \in BOOLEAN,
             Server!RegisterTerminal(d, registered)
      PROVE  Effect
  <2>1. /\ d \in Dlci \cup {0} /\ Allowed(d)
        /\ sOptions' = [sOptions EXCEPT ![d] = registered]
        /\ sFault' = (sFault \/ d \notin Slots)
        /\ UNCHANGED <<sLast, s2c>>
    BY <1>2, FrameNames DEF Server!RegisterTerminal, Terminals
  <2>2. sOptions' \in [Slots -> BOOLEAN]
    BY <1>0, <2>1
  <2>3. sFault' \in BOOLEAN /\ (sFault' => sFault \/ MaximumDlci \in Dlci)
    BY <1>0, <2>1, OnlyMaximum
  <2> QED
    BY <1>0, <2>1, <2>2, <2>3
<1>3. UNCHANGED <<sCalls, sTold, cvars, c2s, asked, answered, onStops>>
  BY DEF ServerProgram, ServerCalls, Server!RegisterTerminal, Server!Stop,
         Server!TerminalClose, Server!TerminalSend, Server!Request
<1>4. /\ served' \in Nat
      /\ \/ \E d \in Terminals, registered \in BOOLEAN :
              Server!RegisterTerminal(d, registered)
         \/ Server!Request(0, "UIH", "closeDown")
         \/ \E d \in Dlci : \/ Server!Request(d, "UIH", "data")
                            \/ Server!Request(d, "DISC", "none")
  BY <1>0 DEF ServerProgram, ServerCalls, Server!Stop, Server!TerminalClose,
              Server!TerminalSend
<1> HIDE DEF Effect
<1>5. Effect
  BY <1>1, <1>2, <1>4
<1> QED
  BY <1>3, <1>4, <1>5 DEF Effect

----------------------------------------------------------------------------
(* The places the requests for an answer are in are counted by numbers. *)
LEMMA AnswerCounts ==
  ASSUME TypeOK, NEW a \in Answers
  PROVE  /\ Count(c2s, Requests(a)) \in Nat /\ Count(sCalls, Handling(a)) \in Nat
         /\ Count(s2c, a) \in Nat /\ asked[a] \in Nat /\ answered[a] \in Nat
BY CountIsPlaces DEF TypeOK

(* A request of the client's program joins the queue, and is counted. *)
LEMMA ClientProgramStep == FreeLinkInv /\ ClientProgram => FreeLinkInv'
<1> SUFFICES ASSUME FreeLinkInv, ClientProgram PROVE FreeLinkInv'
  OBVIOUS
<1>0. TypeOK /\ QueueInv /\ FaultInv /\ AnsweredOnce /\ OnStopInv
  BY DEF FreeLinkInv
<1>1. /\ cOptions' \in [Slots -> BOOLEAN] /\ cLast' \in [Slots -> LastTypes]
      /\ UNCHANGED <<cCalls, cTold, svars, s2c, answered, onStops, served>>
      /\ cFault' \in BOOLEAN /\ (cFault' => cFault \/ MaximumDlci \in Dlci)
  BY <1>0, ClientProgramEffect
<1>2. /\ c2s' \in Seq(ClientFrame) /\ asked' \in [Answers -> Nat]
      /\ \A a \in Answers : asked'[a] - asked[a]
            = Count(c2s', Requests(a)) - Count(c2s, Requests(a))
  <2>1. CASE UNCHANGED <<c2s, asked>>
    <3>1. \A a \in Answers : /\ Count(c2s, Requests(a)) \in Nat /\ asked[a] \in Nat
      BY <1>0, AnswerCounts
    <3> QED
      BY <1>0, <1>1, <2>1, <3>1 DEF TypeOK, QueueInv
  <2>2. ASSUME NEW f \in ClientFrame, c2s' = Append(c2s, f),
               asked' = [a \in Answers |->
                           asked[a] + IF CallsFor(f, a) THEN 1 ELSE 0]
        PROVE  /\ c2s' \in Seq(ClientFrame) /\ asked' \in [Answers -> Nat]
               /\ \A a \in Answers : asked'[a] - asked[a]
                     = Count(c2s', Requests(a)) - Count(c2s, Requests(a))
    <3>0. c2s \in Seq(ClientFrame) /\ asked \in [Answers -> Nat] /\ f \in Frame
      BY <1>0 DEF TypeOK, QueueInv, ClientFrame
    <3>1. c2s' \in Seq(ClientFrame)
      BY <2>2, <3>0, AppendProperties
    <3>2. asked' \in [Answers -> Nat]
      BY <2>2, <3>0
    <3>3. ASSUME NEW a \in Answers
          PROVE  asked'[a] - asked[a]
                   = Count(c2s', Requests(a)) - Count(c2s, Requests(a))
      <4>1. Count(c2s', Requests(a))
              = Count(c2s, Requests(a)) + IF f \in Requests(a) THEN 1 ELSE 0
        BY <2>2, <3>0, CountAppend
      <4>2. f \in Requests(a) <=> CallsFor(f, a)
        BY <3>0 DEF Requests
      <4>3. asked'[a] = asked[a] + IF CallsFor(f, a) THEN 1 ELSE 0
        BY <2>2
      <4>4. Count(c2s, Requests(a)) \in Nat /\ asked[a] \in Nat
        BY <1>0, AnswerCounts
      <4> QED
        BY <4>1, <4>2, <4>3, <4>4
    <3> QED
      BY <3>1, <3>2, <3>3
  <2> QED
    BY <1>0, <2>1, <2>2, ClientProgramEffect
<1>3. TypeOK'
  <2>1. c2s' \in Seq(Frame)
    BY <1>2, SeqMonotonic DEF ClientFrame
  <2> QED
    BY <1>0, <1>1, <1>2, <2>1 DEF TypeOK, svars
<1>4. QueueInv'
  BY <1>0, <1>1, <1>2 DEF QueueInv, svars
<1>5. FaultInv'
  BY <1>0, <1>1 DEF FaultInv, svars
<1>6. AnsweredOnce'
  <2> SUFFICES ASSUME NEW a \in Answers
               PROVE  asked'[a] = Count(c2s', Requests(a)) + Count(sCalls', Handling(a))
                                + Count(s2c', a) + answered'[a]
    BY DEF AnsweredOnce
  <2>1. asked[a] = Count(c2s, Requests(a)) + Count(sCalls, Handling(a))
                 + Count(s2c, a) + answered[a]
    BY <1>0 DEF AnsweredOnce
  <2>2. Count(c2s, Requests(a)) \in Nat /\ Count(sCalls, Handling(a)) \in Nat
        /\ Count(s2c, a) \in Nat /\ asked[a] \in Nat /\ answered[a] \in Nat
    BY <1>0, AnswerCounts
  <2>3. Count(c2s', Requests(a)) \in Nat /\ asked'[a] \in Nat
    BY <1>2, CountIsPlaces
  <2>4. asked'[a] - asked[a] = Count(c2s', Requests(a)) - Count(c2s, Requests(a))
    BY <1>2
  <2>5. sCalls' = sCalls /\ s2c' = s2c /\ answered' = answered
    BY <1>1 DEF svars
  <2> QED
    BY <2>1, <2>2, <2>3, <2>4, <2>5
<1>7. OnStopInv'
  BY <1>0, <1>1 DEF OnStopInv
<1> QED
  BY <1>3, <1>4, <1>5, <1>6, <1>7 DEF FreeLinkInv

(* A frame of the server's program joins the other queue: it is no answer. *)
LEMMA ServerProgramStep == FreeLinkInv /\ ServerProgram => FreeLinkInv'
<1> SUFFICES ASSUME FreeLinkInv, ServerProgram PROVE FreeLinkInv'
  OBVIOUS
<1>0. TypeOK /\ QueueInv /\ FaultInv /\ AnsweredOnce /\ OnStopInv
  BY DEF FreeLinkInv
<1>1. /\ sOptions' \in [Slots -> BOOLEAN] /\ sLast' \in [Slots -> LastTypes]
      /\ UNCHANGED <<sCalls, sTold, cvars, c2s, asked, answered, onStops>>
      /\ served' \in Nat
      /\ sFault' \in BOOLEAN /\ (sFault' => sFault \/ MaximumDlci \in Dlci)
  BY <1>0, ServerProgramEffect
<1>2. /\ s2c' \in Seq(ServerFrame)
      /\ \A a \in Answers : Count(s2c', a) = Count(s2c, a)
  <2>1. ASSUME NEW f \in Frame, f.dlci \in Dlci \cup {0},
               \A a \in Answers : f \notin a, s2c' = Append(s2c, f)
        PROVE  /\ s2c' \in Seq(ServerFrame)
               /\ \A a \in Answers : Count(s2c', a) = Count(s2c, a)
    <3>1. f \in ServerFrame /\ s2c \in Seq(ServerFrame)
      BY <1>0, <2>1 DEF ServerFrame, QueueInv
    <3>2. s2c' \in Seq(ServerFrame)
      BY <2>1, <3>1, AppendProperties
    <3>3. ASSUME NEW a \in Answers PROVE Count(s2c', a) = Count(s2c, a)
      <4>1. s2c \in Seq(Frame) /\ Count(s2c, a) \in Nat
        BY <1>0, CountIsPlaces DEF TypeOK
      <4>2. Count(s2c', a) = Count(s2c, a) + IF f \in a THEN 1 ELSE 0
        BY <2>1, <4>1, CountAppend
      <4> QED
        BY <2>1, <4>1, <4>2
    <3> QED
      BY <3>2, <3>3
  <2> QED
    BY <1>0, <2>1, ServerProgramEffect DEF QueueInv
<1>3. TypeOK'
  <2>1. s2c' \in Seq(Frame)
    BY <1>2, SeqMonotonic DEF ServerFrame
  <2> QED
    BY <1>0, <1>1, <2>1 DEF TypeOK, cvars
<1>4. QueueInv'
  BY <1>0, <1>1, <1>2 DEF QueueInv, cvars
<1>5. FaultInv'
  BY <1>0, <1>1 DEF FaultInv, cvars
<1>6. AnsweredOnce'
  BY <1>0, <1>1, <1>2 DEF AnsweredOnce
<1>7. OnStopInv'
  BY <1>0, <1>1 DEF OnStopInv, cvars
<1> QED
  BY <1>3, <1>4, <1>5, <1>6, <1>7 DEF FreeLinkInv

(* The client's handler takes a frame: an answer is counted where it was   *)
(* on its way.                                                             *)
LEMMA ClientIngestStep ==
  ASSUME FreeLinkInv, ClientIngest, UNCHANGED <<asked, onStops, served>>,
         answered' = [a \in Answers |->
                        answered[a] + IF Head(s2c) \in a THEN 1 ELSE 0]
  PROVE  FreeLinkInv'
<1> DEFINE f == Head(s2c)
    Effect ==
      /\ cTold' \in [0 .. MaximumDlci -> {"open", "closed"}]
      /\ cFault' \in BOOLEAN /\ (cFault' => cFault \/ MaximumDlci \in Dlci)
      /\ Len(cCalls') <= MaxNesting
      /\ \/ f \notin Stopped /\ cCalls' = cCalls
         \/ \E lastType \in LastTypes :
              f.dlci = 0 /\ cCalls' = Append(cCalls, [frame |-> f, last |-> lastType])
<1>0. TypeOK /\ QueueInv /\ FaultInv /\ AnsweredOnce /\ OnStopInv
  BY DEF FreeLinkInv
<1>1. /\ s2c # <<>> /\ Client!OnControlMessage(f) /\ s2c' = Tail(s2c)
      /\ UNCHANGED <<sOptions, sLast, sCalls, sTold, sFault>>
      /\ UNCHANGED <<cOptions, cLast, c2s>>
  BY DEF ClientIngest, svars, Client!OnControlMessage
<1>2. /\ f \in ServerFrame /\ f \in Frame /\ f.dlci \in Dlci \cup {0}
      /\ Tail(s2c) \in Seq(ServerFrame)
  BY <1>0, <1>1, HeadTailProperties DEF QueueInv, ServerFrame
<1>3. f \in Stopped => f.dlci = 0 /\ Allowed(f.dlci)
  BY MaximumDlciAssumption DEF Stopped, Mk, Allowed
<1>4. Effect
  <2>0. /\ cTold \in [0 .. MaximumDlci -> {"open", "closed"}] /\ cFault \in BOOLEAN
        /\ cLast \in [Slots -> LastTypes] /\ cOptions \in [Slots -> BOOLEAN]
        /\ cCalls \in Seq(ClientCall) /\ Len(cCalls) <= MaxNesting
        /\ Len(cCalls) < MaxNesting /\ MaxNesting \in Nat /\ Len(cCalls) \in Nat
    BY <1>0, <1>1, LinkAssumption, LenProperties DEF TypeOK, Client!OnControlMessage
  <2>1. CASE ~Allowed(f.dlci)
    BY <1>1, <1>3, <2>0, <2>1, FrameNames DEF Client!OnControlMessage
  <2>2. ASSUME Allowed(f.dlci), cFault' = (cFault \/ f.dlci \notin Slots),
               NEW lastType \in LastTypes,
               f.dlci = 0, cTold' = cTold,
               cCalls' = Append(cCalls, [frame |-> f, last |-> lastType])
        PROVE  Effect
    <3>1. Len(cCalls') = Len(cCalls) + 1
      <4> DEFINE c == [frame |-> f, last |-> lastType]
      <4>1. c \in ClientCall /\ cCalls' = Append(cCalls, c)
        BY <1>2, <2>2 DEF ClientCall
      <4> HIDE DEF c
      <4> QED
        BY <2>0, <4>1, AppendProperties
    <3> QED
      BY <1>2, <2>0, <2>2, <3>1, OnlyMaximum
  <2>3. ASSUME Allowed(f.dlci), cFault' = (cFault \/ f.dlci \notin Slots),
               NEW lastType, NEW registered, f.dlci # 0, cCalls' = cCalls,
               cTold' = [cTold EXCEPT ![f.dlci] =
                           Client!ToldTerminal(f, lastType, registered)]
        PROVE  Effect
    <3>1. Client!ToldTerminal(f, lastType, registered) \in {"open", "closed"}
      BY <1>2, <2>0, <2>3, ToldType
    <3> QED
      BY <1>2, <1>3, <2>0, <2>3, <3>1, OnlyMaximum
  <2>4. CASE Allowed(f.dlci)
    <3>1. PICK lastType \in Element(cLast, f.dlci, LastTypes),
               registered \in Element(cOptions, f.dlci, BOOLEAN) :
            \/ /\ f.dlci = 0
               /\ cCalls' = Append(cCalls, [frame |-> f, last |-> lastType])
               /\ UNCHANGED cTold
            \/ /\ f.dlci # 0
               /\ cTold' = [cTold EXCEPT ![f.dlci] =
                              Client!ToldTerminal(f, lastType, registered)]
               /\ UNCHANGED cCalls
      BY <1>1, <2>4, FrameNames DEF Client!OnControlMessage
    <3>2. lastType \in LastTypes
      BY <2>0, <3>1, ElementType
    <3>3. cFault' = (cFault \/ f.dlci \notin Slots)
      BY <1>1, <2>4, FrameNames DEF Client!OnControlMessage
    <3> QED
      BY <2>2, <2>3, <2>4, <3>1, <3>2, <3>3
  <2> QED
    BY <2>1, <2>4
<1>5. /\ cCalls' \in Seq(ClientCall) /\ cCalls' \in Seq(AnsweringCall)
      /\ Count(cCalls', HandlingStopped)
           = Count(cCalls, HandlingStopped) + IF f \in Stopped THEN 1 ELSE 0
  <2>1. cCalls \in Seq(ClientCall) /\ cCalls \in Seq(AnsweringCall)
    BY <1>0 DEF TypeOK, QueueInv
  <2>2. Count(cCalls, HandlingStopped) \in Nat
    BY <2>1, CountIsPlaces
  <2>3. ASSUME NEW lastType \in LastTypes, f.dlci = 0,
               cCalls' = Append(cCalls, [frame |-> f, last |-> lastType])
        PROVE  /\ cCalls' \in Seq(ClientCall) /\ cCalls' \in Seq(AnsweringCall)
               /\ Count(cCalls', HandlingStopped)
                    = Count(cCalls, HandlingStopped) + IF f \in Stopped THEN 1 ELSE 0
    <3> DEFINE c == [frame |-> f, last |-> lastType]
    <3>1. c \in ClientCall /\ c.frame = f
      BY <1>2 DEF ClientCall
    <3>2. c \in AnsweringCall
      BY <1>2, <2>3, <3>1 DEF AnsweringCall
    <3>3. c \in HandlingStopped <=> f \in Stopped
      BY <3>1 DEF HandlingStopped
    <3>4. cCalls' = Append(cCalls, c)
      BY <2>3
    <3> HIDE DEF c, f
    <3>5. Count(Append(cCalls, c), HandlingStopped)
            = Count(cCalls, HandlingStopped) + IF c \in HandlingStopped THEN 1 ELSE 0
      BY <2>1, <3>1, CountAppend
    <3> QED
      BY <2>1, <3>1, <3>2, <3>3, <3>4, <3>5, AppendProperties
  <2> HIDE DEF f
  <2>4. CASE f \notin Stopped /\ cCalls' = cCalls
    BY <2>1, <2>2, <2>4
  <2>5. CASE \E lastType \in LastTypes :
               f.dlci = 0 /\ cCalls' = Append(cCalls, [frame |-> f, last |-> lastType])
    <3>1. PICK lastType \in LastTypes :
            f.dlci = 0 /\ cCalls' = Append(cCalls, [frame |-> f, last |-> lastType])
      BY <2>5
    <3> QED
      BY <2>3, <3>1
  <2> QED
    BY <1>4, <2>4, <2>5
<1>6. s2c' \in Seq(Frame) /\ s2c' \in Seq(ServerFrame)
  <2>1. ServerFrame \subseteq Frame
    BY DEF ServerFrame
  <2> QED
    BY <1>1, <1>2, <2>1, SeqMonotonic
<1>7. ASSUME NEW a \in Answers
      PROVE  /\ answered'[a] \in Nat
             /\ asked'[a] = Count(c2s', Requests(a)) + Count(sCalls', Handling(a))
                          + Count(s2c', a) + answered'[a]
  <2>1. s2c \in Seq(Frame) /\ Tail(s2c) \in Seq(Frame) /\ answered[a] \in Nat
    BY <1>0, <1>1, <1>6 DEF TypeOK
  <2> DEFINE one == IF f \in a THEN 1 ELSE 0
  <2>2. one \in Nat /\ Count(s2c, a) = Count(Tail(s2c), a) + one
    BY <1>1, <2>1, CountTail
  <2>3. answered'[a] = answered[a] + one
    OBVIOUS
  <2>4. Count(c2s, Requests(a)) \in Nat /\ Count(sCalls, Handling(a)) \in Nat
        /\ Count(Tail(s2c), a) \in Nat
    BY <1>0, <2>1, AnswerCounts, CountIsPlaces
  <2>5. asked[a] = Count(c2s, Requests(a)) + Count(sCalls, Handling(a))
                 + Count(s2c, a) + answered[a]
    BY <1>0 DEF AnsweredOnce
  <2>6. asked' = asked /\ c2s' = c2s /\ sCalls' = sCalls /\ s2c' = Tail(s2c)
    BY <1>1
  <2> HIDE DEF f, one
  <2> QED
    BY ONLY <2>1, <2>2, <2>3, <2>4, <2>5, <2>6
<1>8. TypeOK'
  <2>1. answered' \in [Answers -> Nat]
    BY <1>7
  <2> QED
    BY <1>0, <1>1, <1>4, <1>5, <1>6, <2>1 DEF TypeOK
<1>9. QueueInv'
  BY <1>0, <1>1, <1>5, <1>6 DEF QueueInv
<1>10. FaultInv'
  BY <1>0, <1>1, <1>4 DEF FaultInv
<1>11. AnsweredOnce'
  BY <1>7 DEF AnsweredOnce
<1>12. OnStopInv'
  <2> DEFINE one == IF f \in Stopped THEN 1 ELSE 0
  <2>1. answered'[Stopped] = answered[Stopped] + one
    BY AnswerKinds
  <2>2. answered[Stopped] = Count(cCalls, HandlingStopped) + onStops
    BY <1>0 DEF OnStopInv
  <2>3. Count(cCalls', HandlingStopped) = Count(cCalls, HandlingStopped) + one
    BY <1>5
  <2>4. Count(cCalls, HandlingStopped) \in Nat /\ onStops \in Nat /\ one \in Nat
    BY <1>0, CountIsPlaces DEF TypeOK
  <2> HIDE DEF one, f
  <2> QED
    BY <2>1, <2>2, <2>3, <2>4 DEF OnStopInv
<1> QED
  BY <1>8, <1>9, <1>10, <1>11, <1>12 DEF FreeLinkInv

(* The client's handler goes on: its program is told of the multiplexer,   *)
(* and an answer to a stop leaves the stack for a call of on_stop.         *)
LEMMA ClientReturnStep ==
  ASSUME FreeLinkInv, ClientReturn, UNCHANGED <<asked, answered, served>>,
         LET f == Last(cCalls).frame
         IN  onStops' = onStops + IF Client!CallsOnStop(f) /\ f # Command
                                  THEN 1 ELSE 0
  PROVE  FreeLinkInv'
<1>0. TypeOK /\ QueueInv /\ FaultInv /\ AnsweredOnce /\ OnStopInv
  BY DEF FreeLinkInv
<1>1. /\ cCalls # <<>> /\ cCalls' = Front(cCalls)
      /\ cTold' = [cTold EXCEPT ![0] =
                     Client!ToldMux(Last(cCalls).frame, Last(cCalls).last)]
      /\ UNCHANGED <<cOptions, cLast, c2s, cFault>>
      /\ UNCHANGED <<sOptions, sLast, sCalls, sTold, sFault, s2c>>
  BY StackNames DEF ClientReturn, Client!EventReturn, svars
<1>2. /\ cCalls \in Seq(AnsweringCall) /\ cCalls \in Seq(ClientCall)
      /\ Last(cCalls) \in AnsweringCall
  <2>1. cCalls \in Seq(AnsweringCall) /\ cCalls \in Seq(ClientCall)
    BY <1>0 DEF TypeOK, QueueInv
  <2> QED
    BY <1>1, <2>1, FrontProperties
<1>3. onStops' + Count(Front(cCalls), HandlingStopped)
        = onStops + Count(cCalls, HandlingStopped)
  <2> DEFINE c == Last(cCalls)
             f == c.frame
             one == IF f \in Stopped THEN 1 ELSE 0
             before == Count(cCalls, HandlingStopped)
             after == Count(Front(cCalls), HandlingStopped)
  <2>1. /\ c \in ClientCall /\ f \in Frame /\ f.dlci = 0
        /\ f = [type |-> f.type, dlci |-> f.dlci, body |-> f.body]
    BY <1>2 DEF AnsweringCall, ServerFrame, Frame
  <2>2. (Client!CallsOnStop(f) /\ f # Command) <=> f \in Stopped
    <3>1. Client!CallsOnStop(f) <=> f.type = "UIH" /\ f.body \in CloseDown
      BY FrameNames DEF Client!CallsOnStop
    <3> HIDE DEF f
    <3> QED
      BY <2>1, <3>1 DEF Command, Stopped, Mk, CloseDown
  <2>3. onStops' = onStops + one
    BY <2>2
  <2>4. c \in HandlingStopped <=> f \in Stopped
    BY <2>1 DEF HandlingStopped
  <2>5. before = after + IF c \in HandlingStopped THEN 1 ELSE 0
    BY <1>1, <1>2, CountFront
  <2>6. after \in Nat /\ onStops \in Nat
    <3>1. Front(cCalls) \in Seq(ClientCall)
      BY <1>1, <1>2, FrontProperties
    <3> QED
      BY <1>0, <3>1, CountIsPlaces DEF TypeOK
  <2> HIDE DEF before, after, c, f
  <2> QED
    BY <2>3, <2>4, <2>5, <2>6 DEF before, after
<1>4. /\ cCalls' \in Seq(AnsweringCall) /\ cCalls' \in Seq(ClientCall)
      /\ Len(cCalls') <= MaxNesting
  <2>1. cCalls \in Seq(ClientCall) /\ Len(cCalls) <= MaxNesting
        /\ MaxNesting \in Nat
    BY <1>0, LinkAssumption DEF TypeOK
  <2>2. Len(cCalls) \in Nat /\ Len(Front(cCalls)) = Len(cCalls) - 1
        /\ Front(cCalls) \in Seq(ClientCall)
    BY <1>1, <2>1, FrontProperties
  <2>3. Front(cCalls) \in Seq(AnsweringCall)
    BY <1>1, <1>2, FrontProperties
  <2> QED
    BY <1>1, <2>1, <2>2, <2>3
<1>5. cTold' \in [0 .. MaximumDlci -> {"open", "closed"}]
  <2>1. cTold \in [0 .. MaximumDlci -> {"open", "closed"}] /\ 0 \in 0 .. MaximumDlci
    BY <1>0, MaximumDlciAssumption DEF TypeOK
  <2>2. Client!ToldMux(Last(cCalls).frame, Last(cCalls).last) \in {"open", "closed"}
    BY <2>1 DEF Client!ToldMux
  <2> QED
    BY <1>1, <2>1, <2>2
<1>6. TypeOK'
  <2>1. onStops' \in Nat
    BY <1>0 DEF TypeOK
  <2> QED
    BY <1>0, <1>1, <1>4, <1>5, <2>1 DEF TypeOK
<1>7. QueueInv'
  BY <1>0, <1>1, <1>4 DEF QueueInv
<1>8. FaultInv'
  BY <1>0, <1>1 DEF FaultInv
<1>9. AnsweredOnce'
  BY <1>0, <1>1 DEF AnsweredOnce
<1>10. OnStopInv'
  <2>1. /\ answered[Stopped] = Count(cCalls, HandlingStopped) + onStops
        /\ answered' = answered /\ cCalls' = Front(cCalls)
    BY <1>0, <1>1 DEF OnStopInv
  <2>2. Count(cCalls', HandlingStopped) \in Nat /\ onStops' \in Nat
        /\ Count(cCalls, HandlingStopped) \in Nat /\ onStops \in Nat
    BY <1>0, <1>2, <1>4, <1>6, CountIsPlaces DEF TypeOK
  <2> QED
    BY <1>3, <2>1, <2>2 DEF OnStopInv
<1> QED
  BY <1>6, <1>7, <1>8, <1>9, <1>10 DEF FreeLinkInv

(* The server's handler takes a frame: a request moves to the stack.       *)
LEMMA ServerIngestStep ==
  ASSUME FreeLinkInv, ServerIngest, UNCHANGED <<asked, answered, onStops, served>>
  PROVE  FreeLinkInv'
<1> DEFINE f == Head(c2s)
           c == [frame |-> f, stage |-> "event"]
<1>0. TypeOK /\ QueueInv /\ FaultInv /\ AnsweredOnce /\ OnStopInv
  BY DEF FreeLinkInv
<1>1. /\ c2s # <<>> /\ Server!OnControlMessage(f) /\ c2s' = Tail(c2s)
      /\ UNCHANGED <<cOptions, cLast, cCalls, cTold, cFault>>
      /\ UNCHANGED <<sOptions, sLast, sTold, s2c>>
  BY DEF ServerIngest, cvars, Server!OnControlMessage
<1>2. /\ f \in ClientFrame /\ f \in Frame /\ f.dlci \in Dlci \cup {0}
      /\ Allowed(f.dlci) /\ Tail(c2s) \in Seq(ClientFrame)
  BY <1>0, <1>1, HeadTailProperties DEF QueueInv, ClientFrame
<1>3. c \in ServedCall /\ c \in ServerCall
  BY <1>2 DEF ServedCall, ServerCall
<1>4. /\ sFault' = (sFault \/ f.dlci \notin Slots)
      /\ sCalls' = Append(sCalls, c) /\ Len(sCalls) < MaxNesting
  BY <1>1, <1>2, FrameNames DEF Server!OnControlMessage
<1>5. OnStopInv'
  BY <1>0, <1>1 DEF OnStopInv
<1>6. /\ sCalls' \in Seq(ServedCall) /\ sCalls' \in Seq(ServerCall)
      /\ Len(sCalls') <= MaxNesting
  <2>1. sCalls \in Seq(ServedCall) /\ sCalls \in Seq(ServerCall)
        /\ Len(sCalls) \in Nat /\ MaxNesting \in Nat
    BY <1>0, LinkAssumption, LenProperties DEF TypeOK, QueueInv
  <2> HIDE DEF c
  <2>2. Len(Append(sCalls, c)) = Len(sCalls) + 1
        /\ Append(sCalls, c) \in Seq(ServedCall) /\ Append(sCalls, c) \in Seq(ServerCall)
    BY <1>3, <2>1, AppendProperties
  <2> QED
    BY <1>4, <2>1, <2>2
<1>7. c2s' \in Seq(ClientFrame) /\ c2s' \in Seq(Frame)
  BY <1>1, <1>2, SeqMonotonic DEF ClientFrame
<1>8. sFault' \in BOOLEAN /\ (sFault' => sFault \/ MaximumDlci \in Dlci)
  BY <1>0, <1>2, <1>4, OnlyMaximum DEF TypeOK
<1>9. ASSUME NEW a \in Answers
      PROVE  Count(c2s', Requests(a)) + Count(sCalls', Handling(a))
               = Count(c2s, Requests(a)) + Count(sCalls, Handling(a))
  <2> DEFINE one == IF f \in Requests(a) THEN 1 ELSE 0
  <2>1. c2s \in Seq(Frame) /\ sCalls \in Seq(ServerCall) /\ Tail(c2s) \in Seq(Frame)
    BY <1>0, <1>1, <1>7 DEF TypeOK
  <2>2. Count(c2s, Requests(a)) = Count(Tail(c2s), Requests(a)) + one
    BY <1>1, <2>1, CountTail
  <2>3. Count(sCalls', Handling(a)) = Count(sCalls, Handling(a)) + one
    <3>1. c \in Handling(a) <=> f \in Requests(a)
      BY <1>3 DEF Handling
    <3> HIDE DEF c
    <3>2. Count(sCalls', Handling(a))
            = Count(sCalls, Handling(a)) + IF c \in Handling(a) THEN 1 ELSE 0
      BY <1>3, <1>4, <2>1, CountAppend
    <3> QED
      BY <3>1, <3>2
  <2>4. Count(Tail(c2s), Requests(a)) \in Nat /\ Count(sCalls, Handling(a)) \in Nat
        /\ one \in Nat /\ c2s' = Tail(c2s)
    BY <1>1, <2>1, CountIsPlaces
  <2> HIDE DEF one, c, f
  <2> QED
    BY <2>2, <2>3, <2>4
<1>10. TypeOK'
  BY <1>0, <1>1, <1>6, <1>7, <1>8 DEF TypeOK
<1>11. QueueInv'
  BY <1>0, <1>1, <1>6, <1>7 DEF QueueInv
<1>12. FaultInv'
  BY <1>0, <1>1, <1>8 DEF FaultInv
<1>13. AnsweredOnce'
  BY <1>0, <1>1, <1>9 DEF AnsweredOnce
<1> QED
  BY <1>5, <1>10, <1>11, <1>12, <1>13 DEF FreeLinkInv

(* on_event returns to the server's handler: a frame it is done with is no *)
(* request; any other stays where it is in the stack.                      *)
LEMMA ServerEventReturnStep ==
  ASSUME FreeLinkInv, ServerEventReturn, UNCHANGED <<asked, answered, onStops, served>>
  PROVE  FreeLinkInv'
<1> DEFINE n == Len(sCalls)
           f == sCalls[n].frame
           Effect == /\ sCalls' \in Seq(ServedCall) /\ Len(sCalls') <= n
                     /\ \A a \in Answers :
                          Count(sCalls', Handling(a)) = Count(sCalls, Handling(a))
<1>0. TypeOK /\ QueueInv /\ FaultInv /\ AnsweredOnce /\ OnStopInv
  BY DEF FreeLinkInv
<1>1. /\ sCalls # <<>> /\ Server!EventReturn
      /\ UNCHANGED <<cOptions, cLast, cCalls, cTold, cFault, c2s>>
      /\ UNCHANGED <<sOptions, sLast, sFault, s2c>>
  BY DEF ServerEventReturn, cvars, Server!EventReturn
<1>2. /\ sCalls \in Seq(ServedCall) /\ sCalls \in Seq(ServerCall)
      /\ n \in Nat \ {0} /\ Last(sCalls) = sCalls[n] /\ sCalls[n] \in ServedCall
      /\ Front(sCalls) \in Seq(ServedCall) /\ Len(Front(sCalls)) = n - 1
  <2>1. sCalls \in Seq(ServedCall) /\ sCalls \in Seq(ServerCall)
    BY <1>0 DEF TypeOK, QueueInv
  <2> QED
    BY <1>1, <2>1, FrontProperties
<1>3. sCalls[n] \in ServerCall /\ f \in ClientFrame /\ Allowed(f.dlci) /\ f.dlci \in Nat
  BY <1>2 DEF ServedCall, ClientFrame, Frame
<1>4. OnStopInv'
  BY <1>0, <1>1 DEF OnStopInv
<1>5. Effect /\ sTold' \in [0 .. MaximumDlci -> {"open", "closed"}]
  <2>0. sTold \in [0 .. MaximumDlci -> {"open", "closed"}]
    BY <1>0 DEF TypeOK
  <2>1. CASE Server!Replies(f) = <<>>
    <3>1. sCalls' = Front(sCalls) /\ sTold' = sTold
      BY <1>1, <1>2, <2>1, StackNames DEF Server!EventReturn
    <3>2. ASSUME NEW a \in Answers
          PROVE  Count(Front(sCalls), Handling(a)) = Count(sCalls, Handling(a))
      <4>1. sCalls[n] \notin Handling(a)
        BY <1>3, <2>1, ReplyIsAnswer DEF Handling
      <4>2. Count(sCalls, Handling(a)) = Count(Front(sCalls), Handling(a))
                + IF Last(sCalls) \in Handling(a) THEN 1 ELSE 0
        BY <1>1, <1>2, CountFront
      <4>3. Count(Front(sCalls), Handling(a)) \in Nat
        BY <1>2, CountIsPlaces
      <4> QED
        BY <1>2, <4>1, <4>2, <4>3
    <3> QED
      BY <1>2, <2>0, <3>1, <3>2
  <2>2. CASE Server!Replies(f) # <<>>
    <3>1. /\ sCalls' = [sCalls EXCEPT ![n].stage = "callback"]
          /\ sTold' = sTold \/ sTold' = [sTold EXCEPT ![f.dlci] = Server!Tells(f)]
      BY <1>1, <1>2, <2>2, StackNames DEF Server!EventReturn
    <3>2. sTold' \in [0 .. MaximumDlci -> {"open", "closed"}]
      BY <1>3, <2>0, <3>1 DEF Server!Tells
    <3>3. /\ sCalls' = [sCalls EXCEPT ![n] = [frame |-> f, stage |-> "callback"]]
          /\ [frame |-> f, stage |-> "callback"] \in ServedCall
      <4>1. sCalls[n] = [frame |-> f, stage |-> sCalls[n].stage]
        BY <1>3 DEF ServerCall
      <4>2. [sCalls[n] EXCEPT !.stage = "callback"] = [frame |-> f, stage |-> "callback"]
        BY <1>3 DEF ServerCall
      <4>3. [frame |-> f, stage |-> "callback"] \in ServerCall
        BY <1>3 DEF ServerCall
      <4> QED
        BY <1>3, <2>2, <3>1, <4>2, <4>3 DEF ServedCall
    <3> DEFINE c == [frame |-> f, stage |-> "callback"]
    <3>4. c.frame = f /\ c \in ServerCall
      BY <3>3 DEF ServedCall
    <3>5. \A a \in Answers : c \in Handling(a) <=> sCalls[n] \in Handling(a)
      BY <1>3, <3>4 DEF Handling
    <3> HIDE DEF c
    <3>6. /\ sCalls' \in Seq(ServedCall) /\ Len(sCalls') = n
          /\ \A i \in 1 .. n : sCalls'[i] = IF i = n THEN c ELSE sCalls[i]
      BY <1>2, <3>3, ExceptSeq DEF c
    <3>7. \A a \in Answers :
            Count(sCalls', Handling(a)) = Count(sCalls, Handling(a))
      BY <1>2, <3>5, <3>6, CountSame
    <3> QED
      BY <1>2, <3>2, <3>6, <3>7
  <2> QED
    BY <2>1, <2>2
<1>6. TypeOK'
  <2>1. sCalls' \in Seq(ServerCall)
    BY <1>5, SeqMonotonic DEF ServedCall
  <2>2. Len(sCalls') <= MaxNesting
    <3>1. Len(sCalls') \in Nat /\ n <= MaxNesting /\ MaxNesting \in Nat
      BY <1>0, <2>1, LinkAssumption, LenProperties DEF TypeOK
    <3> QED
      BY <1>2, <1>5, <3>1
  <2> QED
    BY <1>0, <1>1, <1>5, <2>1, <2>2 DEF TypeOK
<1>7. QueueInv'
  BY <1>0, <1>1, <1>5 DEF QueueInv
<1>8. FaultInv'
  BY <1>0, <1>1 DEF FaultInv
<1>9. AnsweredOnce'
  BY <1>0, <1>1, <1>5 DEF AnsweredOnce
<1> QED
  BY <1>4, <1>6, <1>7, <1>8, <1>9 DEF FreeLinkInv

(* The callback returns to the server's handler: a request leaves the      *)
(* stack as its answer joins the queue to the client.                      *)
LEMMA ServerCallbackReturnStep ==
  ASSUME FreeLinkInv, ServerCallbackReturn,
         UNCHANGED <<asked, answered, onStops, served>>
  PROVE  FreeLinkInv'
<1> DEFINE n == Len(sCalls)
           f == sCalls[n].frame
           r == Server!Replies(f)[1]
<1>0. TypeOK /\ QueueInv /\ FaultInv /\ AnsweredOnce /\ OnStopInv
  BY DEF FreeLinkInv
<1>1. /\ sCalls # <<>> /\ Last(sCalls).stage = "callback"
      /\ Server!SendFrame(Server!Replies(Last(sCalls).frame)[1])
      /\ sCalls' = Front(sCalls)
      /\ UNCHANGED <<cOptions, cLast, cCalls, cTold, cFault, c2s>>
      /\ UNCHANGED <<sOptions, sTold>>
  BY StackNames DEF ServerCallbackReturn, cvars, Server!CallbackReturn
<1>2. /\ sCalls \in Seq(ServedCall) /\ sCalls \in Seq(ServerCall)
      /\ n \in Nat \ {0} /\ Last(sCalls) = sCalls[n] /\ sCalls[n] \in ServedCall
      /\ Front(sCalls) \in Seq(ServedCall) /\ Len(Front(sCalls)) = n - 1
  <2>1. sCalls \in Seq(ServedCall) /\ sCalls \in Seq(ServerCall)
    BY <1>0 DEF TypeOK, QueueInv
  <2> QED
    BY <1>1, <2>1, FrontProperties
<1>3. /\ sCalls[n] \in ServerCall /\ f \in ClientFrame
      /\ f.dlci \in Dlci \cup {0} /\ Allowed(f.dlci)
      /\ Server!Replies(f) # <<>>
  BY <1>1, <1>2 DEF ServedCall, ClientFrame
<1>4. /\ r \in Frame /\ r.dlci = f.dlci
      /\ \A a \in Answers : f \in Requests(a) <=> r \in a
  BY <1>3, ReplyIsAnswer
<1>5. /\ sLast' = [sLast EXCEPT ![r.dlci] = r.type]
      /\ s2c' = Append(s2c, r) /\ sFault' = (sFault \/ r.dlci \notin Slots)
  <2>1. Server!SendFrame(r) /\ Allowed(r.dlci)
    BY <1>1, <1>2, <1>3, <1>4
  <2> HIDE DEF r
  <2> QED
    BY <1>4, <2>1, ServerSendsFrame
<1> HIDE DEF r
<1>6. OnStopInv'
  BY <1>0, <1>1 DEF OnStopInv
<1>8. s2c' \in Seq(ServerFrame) /\ s2c' \in Seq(Frame)
  <2>1. r \in ServerFrame
    BY <1>3, <1>4 DEF ServerFrame
  <2>2. Append(s2c, r) \in Seq(ServerFrame)
    BY <1>0, <2>1, AppendProperties DEF QueueInv
  <2>3. s2c \in Seq(Frame)
    BY <1>0 DEF TypeOK
  <2>4. Append(s2c, r) \in Seq(Frame)
    BY <1>4, <2>3, AppendProperties
  <2> QED
    BY <1>5, <2>2, <2>4
<1>9. /\ sCalls' \in Seq(ServedCall) /\ sCalls' \in Seq(ServerCall)
      /\ Len(sCalls') <= MaxNesting
  <2>1. Front(sCalls) \in Seq(ServerCall)
    BY <1>1, <1>2, FrontProperties
  <2>2. n <= MaxNesting /\ MaxNesting \in Nat
    BY <1>0, LinkAssumption DEF TypeOK
  <2> QED
    BY <1>1, <1>2, <2>1, <2>2
<1>10. sFault' \in BOOLEAN /\ (sFault' => sFault \/ MaximumDlci \in Dlci)
  BY <1>0, <1>3, <1>4, <1>5, OnlyMaximum DEF TypeOK
<1>11. sLast' \in [Slots -> LastTypes]
  BY <1>0, <1>4, <1>5 DEF TypeOK, Frame, LastTypes
<1>12. ASSUME NEW a \in Answers
       PROVE  Count(sCalls', Handling(a)) + Count(s2c', a)
                = Count(sCalls, Handling(a)) + Count(s2c, a)
  <2> DEFINE one == IF f \in Requests(a) THEN 1 ELSE 0
             before == Count(sCalls, Handling(a))
             after == Count(Front(sCalls), Handling(a))
  <2>1. before = after + one
    <3>1. sCalls[n] \in Handling(a) <=> f \in Requests(a)
      BY <1>3 DEF Handling
    <3>2. before = after + IF Last(sCalls) \in Handling(a) THEN 1 ELSE 0
      BY <1>1, <1>2, CountFront
    <3> QED
      BY <1>2, <3>1, <3>2
  <2>2. Count(s2c', a) = Count(s2c, a) + one
    <3>1. s2c \in Seq(Frame)
      BY <1>0 DEF TypeOK
    <3>2. Count(s2c', a) = Count(s2c, a) + IF r \in a THEN 1 ELSE 0
      BY <1>4, <1>5, <3>1, CountAppend
    <3>3. r \in a <=> f \in Requests(a)
      BY <1>4
    <3> QED
      BY <3>2, <3>3
  <2>3. after \in Nat /\ Count(s2c, a) \in Nat /\ one \in Nat
        /\ Count(sCalls', Handling(a)) = after
    BY <1>0, <1>1, <1>2, AnswerCounts, CountIsPlaces
  <2> HIDE DEF one, before, after, f
  <2>4. Count(sCalls', Handling(a)) + Count(s2c', a) = before + Count(s2c, a)
    BY <2>1, <2>2, <2>3
  <2> QED
    BY <2>4 DEF before
<1>13. TypeOK'
  BY <1>0, <1>1, <1>8, <1>9, <1>10, <1>11 DEF TypeOK
<1>14. QueueInv'
  BY <1>0, <1>1, <1>8, <1>9 DEF QueueInv
<1>15. FaultInv'
  BY <1>0, <1>1, <1>10 DEF FaultInv
<1>16. AnsweredOnce'
  <2> SUFFICES ASSUME NEW a \in Answers
               PROVE  asked'[a] = Count(c2s', Requests(a)) + Count(sCalls', Handling(a))
                                + Count(s2c', a) + answered'[a]
    BY DEF AnsweredOnce
  <2> DEFINE x == Count(c2s, Requests(a))
             y == Count(sCalls, Handling(a))
             z == Count(s2c, a)
             y1 == Count(sCalls', Handling(a))
             z1 == Count(s2c', a)
  <2>1. /\ x \in Nat /\ y \in Nat /\ z \in Nat /\ answered[a] \in Nat
        /\ asked[a] = x + y + z + answered[a]
    BY <1>0, AnswerCounts DEF AnsweredOnce
  <2>2. y1 \in Nat /\ z1 \in Nat /\ y1 + z1 = y + z
    BY <1>8, <1>9, <1>12, CountIsPlaces
  <2>3. asked' = asked /\ answered' = answered /\ Count(c2s', Requests(a)) = x
    BY <1>1
  <2> HIDE DEF x, y, z, y1, z1
  <2>4. asked[a] = x + y1 + z1 + answered[a]
    BY <2>1, <2>2
  <2> QED
    BY <2>3, <2>4 DEF y1, z1
<1> QED
  BY <1>6, <1>13, <1>14, <1>15, <1>16 DEF FreeLinkInv

----------------------------------------------------------------------------
(* The strengthening is inductive: no interleaving of the two programs, of *)
(* the line and of the callbacks leaves it.                                *)
THEOREM FreeLinkInvariance == Spec => []FreeLinkInv
<1>1. FreeLinkInv /\ UNCHANGED vars => FreeLinkInv'
  <2> SUFFICES ASSUME FreeLinkInv, UNCHANGED vars PROVE FreeLinkInv'
    OBVIOUS
  <2> USE DEF vars, lvars
  <2>1. TypeOK'
    BY DEF FreeLinkInv, TypeOK
  <2>2. QueueInv'
    BY DEF FreeLinkInv, QueueInv
  <2>3. FaultInv' /\ AnsweredOnce' /\ OnStopInv'
    BY DEF FreeLinkInv, FaultInv, AnsweredOnce, OnStopInv
  <2> QED
    BY <2>1, <2>2, <2>3 DEF FreeLinkInv
<1>2. FreeLinkInv /\ Deliver => FreeLinkInv'
  BY ClientIngestStep, ClientReturnStep, ServerIngestStep,
     ServerEventReturnStep, ServerCallbackReturnStep DEF Deliver
<1>3. FreeLinkInv /\ [Next]_vars => FreeLinkInv'
  BY <1>1, <1>2, ClientProgramStep, ServerProgramStep DEF Next
<1> QED
  BY <1>3, InitFreeLinkInv, PTL DEF Spec

(* Every variable of the link stays in its type.                           *)
THEOREM FreeLinkTypeCorrect == Spec => []TypeOK
<1>1. FreeLinkInv => TypeOK
  BY DEF FreeLinkInv
<1> QED
  BY <1>1, FreeLinkInvariance, PTL

(* Every SABM, every DISC of a terminal other than 0 and every close down  *)
(* command that the client's program sends is answered exactly once, by UA *)
(* or DM and by the command's answer, whatever the programs call from      *)
(* inside their callbacks: it is on its way, in a call of cmux_server.c's  *)
(* handler, its answer is on the way, or was ingested.  Nothing is said of *)
(* a DISC of DLCI 0, which gets no answer.                                 *)
THEOREM EveryRequestAnsweredOnce == Spec => []AnsweredOnce
<1>1. FreeLinkInv => AnsweredOnce
  BY DEF FreeLinkInv
<1> QED
  BY <1>1, FreeLinkInvariance, PTL

(* While no program uses the DLCI that is the configured maximum itself,   *)
(* neither handler accesses an element outside its arrays of terminals,    *)
(* though programs use other DLCIs above it: the test dlci <= maximum_dlci *)
(* is wrong for that one number only.                                      *)
THEOREM OnlyTheMaximumFaults ==
  ASSUME MaximumDlci \notin Dlci
  PROVE  Spec => []NoFault
<1>1. FreeLinkInv => NoFault
  BY DEF FreeLinkInv, FaultInv, NoFault
<1> QED
  BY <1>1, FreeLinkInvariance, PTL

(* Every cmux_client_stop makes the client's on_stop run exactly once, and *)
(* apart from a server's own close down command nothing else does.         *)
THEOREM EveryStopCallsOnStopOnce == Spec => []OnStopOncePerStop
<1>1. FreeLinkInv => OnStopOncePerStop
  <2> SUFFICES ASSUME FreeLinkInv PROVE OnStopOncePerStop
    OBVIOUS
  <2>1. TypeOK /\ AnsweredOnce /\ OnStopInv /\ Stopped \in Answers
    BY AnswerKinds DEF FreeLinkInv
  <2>2. /\ Count(c2s, Requests(Stopped)) \in Nat /\ Count(s2c, Stopped) \in Nat
        /\ Count(sCalls, Handling(Stopped)) \in Nat
    BY <2>1, AnswerCounts
  <2>3. Count(cCalls, HandlingStopped) \in Nat /\ onStops \in Nat
    BY <2>1, CountIsPlaces DEF TypeOK
  <2> QED
    BY <2>1, <2>2, <2>3 DEF AnsweredOnce, OnStopInv, OnStopOncePerStop
<1> QED
  BY <1>1, FreeLinkInvariance, PTL
=============================================================================
