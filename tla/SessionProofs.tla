---------------------------- MODULE SessionProofs ----------------------------
(***************************************************************************)
(* The link with two programs that follow readme.md, for any set of        *)
(* terminals, any number of lost frames and restarts and any nesting of    *)
(* callbacks: no request is lost or doubled, and what the two programs are *)
(* told is what the abstract terminals of module Terminal allow.  With one *)
(* fault at most, data comes to programs that know of its terminal.        *)
(*                                                                         *)
(* OneOutstanding counts what is under way; the strengthening says what it *)
(* is: the request for the goal of its DLCI, or the answer to it, which    *)
(* the server's program heard of before; and that the client still knows   *)
(* what it asked.                                                          *)
(***************************************************************************)
EXTENDS Session, LinkProofs

States == {"open", "closed"}

(* The frame that asks for a state of a DLCI, and the one that grants it. *)
RequestFor(d, state) ==
  IF state = "open" THEN Mk("SABM", d, "none")
  ELSE IF d # 0 THEN Mk("DISC", d, "none")
  ELSE Mk("UIH", 0, "closeDown")
AnswerFor(d, state) ==
  IF state = "closed" /\ d = 0 THEN Mk("UIH", 0, "closedDown")
                              ELSE Mk("UA", d, "none")
Data == {Mk("UIH", d, "data") : d \in Terminals}

(* The DLCIs whose goal the server's program was told of. *)
Heard == {d \in Dlci : sTold[d] = goal[d]}

(* What may be under way in each place: from the call back on, the         *)
(* server's program has heard.                                             *)
ClientFrame == {RequestFor(d, goal[d]) : d \in Dlci} \cup Data
ServedCall ==
  {c \in ServerCall :
     /\ c.frame \in ClientFrame
     /\ c.stage = "callback" => c.frame \in {RequestFor(d, goal[d]) : d \in Heard}}
ServerFrame == {AnswerFor(d, goal[d]) : d \in Heard} \cup Data
AnsweringCall ==
  {c \in ClientCall :
     /\ 0 \in Heard
     /\ c.frame = AnswerFor(0, goal[0]) /\ c.last = RequestFor(0, goal[0]).type}

TypeInv ==
  /\ cOptions \in [Slots -> BOOLEAN] /\ sOptions \in [Slots -> BOOLEAN]
  /\ cLast \in [Slots -> LastTypes]
  /\ cTold \in [0 .. MaximumDlci -> States]
  /\ sTold \in [0 .. MaximumDlci -> States]
  /\ goal \in [Dlci -> States]
  /\ gone \in SUBSET Dlci

QueueInv ==
  /\ c2s \in Seq(ClientFrame) /\ sCalls \in Seq(ServedCall)
  /\ s2c \in Seq(ServerFrame) /\ cCalls \in Seq(AnsweringCall)

(* The client's records for a DLCI whose goal is not reached are those of  *)
(* its request; for one that was ever opened it has the callbacks.         *)
ClientKnows ==
  \A d \in Dlci :
    /\ goal[d] # cTold[d] => cLast[d] = RequestFor(d, goal[d]).type
    /\ d # 0 /\ (goal[d] = "open" \/ cTold[d] = "open") => cOptions[d]

(* Nothing is opened before the server's program has registered. *)
ServerKnows ==
  \/ \A d \in Dlci : goal[d] = "closed" /\ cTold[d] = "closed"
  \/ \A d \in Terminals : sOptions[d]

SessionInv ==
  TypeInv /\ QueueInv /\ ClientKnows /\ ServerKnows /\ OneOutstanding

(* A step of the abstract terminals, or none. *)
AbstractStep == [Abstract!Next]_(Abstract!vars)

----------------------------------------------------------------------------
(* The DLCIs in use pass every test and have an element. *)
LEMMA DlciFacts ==
  /\ 0 \in Dlci /\ 0 \in Slots /\ 0 \in 0 .. MaximumDlci
  /\ \A d \in Dlci : /\ d \in Nat /\ d \in Slots /\ d \in 0 .. MaximumDlci
                     /\ Allowed(d)
BY SessionAssumption, LinkAssumption, MaximumDlciAssumption DEF Slots, Allowed

(* A request is one of its DLCI only; the server replies with its answer,  *)
(* and tells its program what is asked for.                                *)
LEMMA RequestFacts ==
  ASSUME NEW d \in Dlci, NEW g \in States
  PROVE  /\ RequestFor(d, g) \in Frame /\ RequestFor(d, g).dlci = d
         /\ RequestFor(d, g).type \in LastTypes
         /\ \A e \in Dlci : RequestFor(d, g) \in Requests(e) <=> e = d
         /\ \A e \in Dlci : RequestFor(d, g) \notin Answers(e)
         /\ Server!Replies(RequestFor(d, g)) = <<AnswerFor(d, g)>>
         /\ Server!Tells(RequestFor(d, g)) = g
<1>0. d \in Nat
  BY DlciFacts
<1>1. CASE g = "open"
  <2> DEFINE f == Mk("SABM", d, "none")
  <2>1. RequestFor(d, g) = f /\ AnswerFor(d, g) = Mk("UA", d, "none")
    BY <1>1 DEF RequestFor, AnswerFor
  <2>2. f \in Frame /\ f.type = "SABM" /\ f.dlci = d /\ f.body = "none"
    BY <1>0 DEF Frame, Mk, Types, Bodies
  <2>3. Server!Replies(f) = <<Mk("UA", d, "none")>>
    BY <2>2, RepliesCases
  <2> HIDE DEF f
  <2> QED
    BY <1>1, <2>1, <2>2, <2>3
       DEF Requests, IsRequest, Answers, IsAnswer, LastTypes, Types, Server!Tells
<1>2. CASE g = "closed" /\ d # 0
  <2> DEFINE f == Mk("DISC", d, "none")
  <2>1. RequestFor(d, g) = f /\ AnswerFor(d, g) = Mk("UA", d, "none")
    BY <1>2 DEF RequestFor, AnswerFor
  <2>2. f \in Frame /\ f.type = "DISC" /\ f.dlci = d /\ f.body = "none"
    BY <1>0 DEF Frame, Mk, Types, Bodies
  <2>3. Server!Replies(f) = <<Mk("UA", d, "none")>>
    BY <1>2, <2>2, RepliesCases
  <2> HIDE DEF f
  <2> QED
    BY <1>2, <2>1, <2>2, <2>3
       DEF Requests, IsRequest, Answers, IsAnswer, LastTypes, Types, Server!Tells
<1>3. CASE g = "closed" /\ d = 0
  <2> DEFINE f == Mk("UIH", 0, "closeDown")
  <2>1. RequestFor(d, g) = f /\ AnswerFor(d, g) = Mk("UIH", 0, "closedDown")
    BY <1>3 DEF RequestFor, AnswerFor
  <2>2. f \in Frame /\ f.type = "UIH" /\ f.dlci = 0 /\ f.body = "closeDown"
    BY DEF Frame, Mk, Types, Bodies, CloseDown
  <2>3. Server!Replies(f) = <<Mk("UIH", 0, "closedDown")>>
    BY <2>2, RepliesCases DEF CloseDown
  <2> HIDE DEF f
  <2> QED
    BY <1>3, <2>1, <2>2, <2>3
       DEF Requests, IsRequest, Answers, IsAnswer, LastTypes, Types, Server!Tells
<1> QED
  BY <1>1, <1>2, <1>3 DEF States

(* An answer is one of its DLCI only. *)
LEMMA AnswerFacts ==
  ASSUME NEW d \in Dlci, NEW g \in States
  PROVE  /\ AnswerFor(d, g) \in Frame /\ AnswerFor(d, g).dlci = d
         /\ \A e \in Dlci : AnswerFor(d, g) \in Answers(e) <=> e = d
         /\ \A e \in Dlci : AnswerFor(d, g) \notin Requests(e)
<1>0. d \in Nat
  BY DlciFacts
<1>1. CASE g = "closed" /\ d = 0
  <2> DEFINE f == Mk("UIH", 0, "closedDown")
  <2>1. AnswerFor(d, g) = f
    BY <1>1 DEF AnswerFor
  <2>2. f \in Frame /\ f.type = "UIH" /\ f.dlci = 0 /\ f.body = "closedDown"
    BY DEF Frame, Mk, Types, Bodies, CloseDown
  <2> HIDE DEF f
  <2> QED
    BY <1>1, <2>1, <2>2 DEF Requests, IsRequest, Answers, IsAnswer
<1>2. CASE ~(g = "closed" /\ d = 0)
  <2> DEFINE f == Mk("UA", d, "none")
  <2>1. AnswerFor(d, g) = f
    BY <1>2 DEF AnswerFor
  <2>2. f \in Frame /\ f.type = "UA" /\ f.dlci = d /\ f.body = "none"
    BY <1>0 DEF Frame, Mk, Types, Bodies
  <2> HIDE DEF f
  <2> QED
    BY <2>1, <2>2 DEF Requests, IsRequest, Answers, IsAnswer
<1> QED
  BY <1>1, <1>2

(* Hearing it, the client tells its program what was asked for, if the     *)
(* request was the last it sent on that DLCI.                              *)
LEMMA AnswerTells ==
  ASSUME NEW d \in Dlci, NEW g \in States
  PROVE  /\ d = 0 => Client!ToldMux(AnswerFor(d, g), RequestFor(d, g).type) = g
         /\ d # 0 => Client!ToldTerminal(AnswerFor(d, g), RequestFor(d, g).type, TRUE) = g
<1>1. CASE g = "closed" /\ d = 0
  <2> DEFINE f == Mk("UIH", 0, "closedDown")
  <2>1. AnswerFor(d, g) = f /\ f.type = "UIH" /\ f.body = "closedDown"
    BY <1>1 DEF AnswerFor, Mk
  <2> HIDE DEF f
  <2>2. Client!ToldMux(f, RequestFor(d, g).type) = g
    BY <1>1, <2>1, FrameNames DEF Client!ToldMux, Client!CallsOnStop, CloseDown
  <2> QED
    BY <1>1, <2>1, <2>2
<1>2. CASE ~(g = "closed" /\ d = 0)
  <2> DEFINE f == Mk("UA", d, "none")
  <2>1. AnswerFor(d, g) = f /\ f.type = "UA"
    BY <1>2 DEF AnswerFor, Mk
  <2> HIDE DEF f
  <2>2. d = 0 => Client!ToldMux(f, RequestFor(d, g).type) = g
    BY <1>2, <2>1
    DEF Client!ToldMux, Client!CallsOnStop, RequestFor, Mk, States
  <2>3. d # 0 => Client!ToldTerminal(f, RequestFor(d, g).type, TRUE) = g
    BY <2>1 DEF Client!ToldTerminal, RequestFor, Mk, States
  <2> QED
    BY <2>1, <2>2, <2>3
<1> QED
  BY <1>1, <1>2

(* Data is neither, and neither handler replies to it. *)
LEMMA DataFacts ==
  ASSUME NEW x \in Data
  PROVE  /\ x \in Frame /\ x.dlci \in Terminals /\ x.dlci \in Dlci
         /\ x.type = "UIH" /\ x.body = "data"
         /\ \A e \in Dlci : x \notin Requests(e) /\ x \notin Answers(e)
         /\ Server!Replies(x) = <<>>
         /\ \A l, r : Client!ToldTerminal(x, l, r) = cTold[x.dlci]
<1>1. PICK d \in Terminals : x = Mk("UIH", d, "data")
  BY DEF Data
<1>2. d \in Nat /\ d \in Dlci /\ d # 0
  BY DlciFacts DEF Terminals
<1>3. x \in Frame /\ x.dlci = d /\ x.type = "UIH" /\ x.body = "data"
  BY <1>1, <1>2 DEF Frame, Mk, Types, Bodies
<1>4. Server!Replies(x) = <<>>
  BY <1>3, <1>2, RepliesCases DEF CloseDown
<1>5. \A l, r : Client!ToldTerminal(x, l, r) = cTold[x.dlci]
  BY <1>3 DEF Client!ToldTerminal
<1> QED
  BY <1>1, <1>2, <1>3, <1>4, <1>5 DEF Requests, IsRequest, Answers, IsAnswer

----------------------------------------------------------------------------
(* What is under way is counted by numbers. *)
LEMMA UnderWayCounts ==
  ASSUME QueueInv, NEW d
  PROVE  /\ Count(c2s, Requests(d)) \in Nat /\ Count(sCalls, Handling(d)) \in Nat
         /\ Count(s2c, Answers(d)) \in Nat /\ Count(cCalls, Hearing(d)) \in Nat
         /\ UnderWay(d) \in Nat
<1>1. /\ Count(c2s, Requests(d)) \in Nat /\ Count(sCalls, Handling(d)) \in Nat
      /\ Count(s2c, Answers(d)) \in Nat /\ Count(cCalls, Hearing(d)) \in Nat
  BY CountIsPlaces DEF QueueInv
<1> QED
  BY <1>1 DEF UnderWay

(* A request or an answer in any of the places is under way. *)
LEMMA SomethingUnderWay ==
  ASSUME QueueInv, NEW d,
         \/ \E i \in 1 .. Len(c2s) : c2s[i] \in Requests(d)
         \/ \E i \in 1 .. Len(sCalls) : sCalls[i] \in Handling(d)
         \/ \E i \in 1 .. Len(s2c) : s2c[i] \in Answers(d)
         \/ \E i \in 1 .. Len(cCalls) : cCalls[i] \in Hearing(d)
  PROVE  UnderWay(d) > 0
<1> DEFINE a == Count(c2s, Requests(d))
           b == Count(sCalls, Handling(d))
           x == Count(s2c, Answers(d))
           y == Count(cCalls, Hearing(d))
<1>1. a \in Nat /\ b \in Nat /\ x \in Nat /\ y \in Nat
  BY UnderWayCounts
<1>2. a > 0 \/ b > 0 \/ x > 0 \/ y > 0
  BY CountPositive DEF QueueInv
<1>3. UnderWay(d) = a + b + x + y
  BY DEF UnderWay
<1> HIDE DEF a, b, x, y
<1> QED
  BY <1>1, <1>2, <1>3

(* Then the goal is not reached, and nothing of that DLCI was lost. *)
LEMMA Outstanding ==
  ASSUME QueueInv, OneOutstanding, NEW d \in Dlci, UnderWay(d) > 0
  PROVE  UnderWay(d) = 1 /\ d \notin gone /\ goal[d] # cTold[d]
<1>1. UnderWay(d) \in Nat
  BY UnderWayCounts
<1>2. UnderWay(d) + (IF d \in gone THEN 1 ELSE 0) = IF goal[d] = cTold[d] THEN 0 ELSE 1
  BY DEF OneOutstanding
<1> QED
  BY <1>1, <1>2

(* And the other way round. *)
LEMMA NothingOutstanding ==
  ASSUME QueueInv, OneOutstanding, NEW d \in Dlci
  PROVE  /\ goal[d] = cTold[d] => UnderWay(d) = 0 /\ d \notin gone
         /\ d \in gone => UnderWay(d) = 0 /\ goal[d] # cTold[d]
<1>1. UnderWay(d) \in Nat
  BY UnderWayCounts
<1>2. UnderWay(d) + (IF d \in gone THEN 1 ELSE 0) = IF goal[d] = cTold[d] THEN 0 ELSE 1
  BY DEF OneOutstanding
<1> QED
  BY <1>1, <1>2

(* A sequence is one over every set that its elements are in. *)
LEMMA ElementsIn ==
  ASSUME NEW T, NEW s \in Seq(T), NEW U, \A i \in 1 .. Len(s) : s[i] \in U
  PROVE  s \in Seq(U)
BY SeqDef, LenProperties

(* What is under way stays right when only DLCIs with nothing under way    *)
(* get another goal, and the server's program forgets no other.            *)
LEMMA OthersStay ==
  ASSUME TypeInv, QueueInv, NEW D \in SUBSET Dlci,
         \A d \in D : UnderWay(d) = 0,
         \A d \in Dlci \ D : goal'[d] = goal[d] /\ (d \in Heard => d \in Heard')
  PROVE  /\ c2s \in Seq(ClientFrame') /\ sCalls \in Seq(ServedCall')
         /\ s2c \in Seq(ServerFrame') /\ cCalls \in Seq(AnsweringCall')
<1>0. /\ c2s \in Seq(ClientFrame) /\ sCalls \in Seq(ServedCall)
      /\ s2c \in Seq(ServerFrame) /\ cCalls \in Seq(AnsweringCall)
      /\ goal \in [Dlci -> States] /\ Heard \subseteq Dlci
  BY DEF QueueInv, TypeInv, Heard
<1>1. ASSUME NEW f \in ClientFrame, \A d \in D : f \notin Requests(d)
      PROVE  f \in ClientFrame'
  <2>1. CASE f \in Data
    BY <2>1 DEF ClientFrame
  <2>2. ASSUME NEW d \in Dlci, f = RequestFor(d, goal[d])
        PROVE  f \in ClientFrame'
    <3>1. d \notin D
      BY <1>0, <1>1, <2>2, RequestFacts
    <3> QED
      BY <2>2, <3>1 DEF ClientFrame
  <2> QED
    BY <2>1, <2>2 DEF ClientFrame
<1>2. c2s \in Seq(ClientFrame')
  <2>1. ASSUME NEW i \in 1 .. Len(c2s) PROVE c2s[i] \in ClientFrame'
    <3>1. \A d \in D : c2s[i] \notin Requests(d)
      BY SomethingUnderWay
    <3> QED
      BY <1>0, <1>1, <3>1, ElementOfSeq
  <2> QED
    BY <1>0, <2>1, ElementsIn
<1>3. sCalls \in Seq(ServedCall')
  <2>1. ASSUME NEW i \in 1 .. Len(sCalls) PROVE sCalls[i] \in ServedCall'
    <3> DEFINE c == sCalls[i]
    <3>1. c \in ServedCall /\ c \in ServerCall /\ c.frame \in ClientFrame
      BY <1>0, ElementOfSeq DEF ServedCall
    <3>2. \A d \in D : c \notin Handling(d)
      BY SomethingUnderWay
    <3> HIDE DEF c
    <3>3. \A d \in D : c.frame \notin Requests(d)
      BY <3>1, <3>2 DEF Handling
    <3>4. c.frame \in ClientFrame'
      BY <1>1, <3>1, <3>3
    <3>5. ASSUME NEW d \in Heard, c.frame = RequestFor(d, goal[d])
          PROVE  c.frame \in {RequestFor(e, goal'[e]) : e \in Heard'}
      <4>1. d \notin D /\ d \in Dlci
        BY <1>0, <3>3, <3>5, RequestFacts
      <4>2. goal'[d] = goal[d] /\ d \in Heard'
        BY <3>5, <4>1
      <4> QED
        BY ONLY <3>5, <4>2
    <3>6. c \in ServedCall'
      BY <3>1, <3>4, <3>5 DEF ServedCall
    <3> QED
      BY <3>6 DEF c
  <2> QED
    BY <1>0, <2>1, ElementsIn
<1>4. s2c \in Seq(ServerFrame')
  <2>1. ASSUME NEW i \in 1 .. Len(s2c) PROVE s2c[i] \in ServerFrame'
    <3>1. \A d \in D : s2c[i] \notin Answers(d)
      BY SomethingUnderWay
    <3>2. s2c[i] \in ServerFrame
      BY <1>0, ElementOfSeq
    <3>3. CASE s2c[i] \in Data
      BY <3>3 DEF ServerFrame
    <3>4. ASSUME NEW d \in Heard, s2c[i] = AnswerFor(d, goal[d])
          PROVE  s2c[i] \in ServerFrame'
      <4>1. d \notin D /\ d \in Dlci
        <5>1. d \in Dlci /\ goal[d] \in States
          BY <1>0
        <5>2. AnswerFor(d, goal[d]) \in Answers(d)
          BY <5>1, AnswerFacts
        <5> QED
          BY <3>1, <3>4, <5>1, <5>2
      <4>2. goal'[d] = goal[d] /\ d \in Heard'
        BY <3>4, <4>1
      <4> QED
        BY ONLY <3>4, <4>2 DEF ServerFrame
    <3> QED
      BY <3>2, <3>3, <3>4 DEF ServerFrame
  <2> QED
    BY <1>0, <2>1, ElementsIn
<1>5. cCalls \in Seq(AnsweringCall')
  <2>1. ASSUME NEW i \in 1 .. Len(cCalls) PROVE cCalls[i] \in AnsweringCall'
    <3> DEFINE c == cCalls[i]
    <3>1. c \in AnsweringCall /\ c \in ClientCall /\ 0 \in Heard
          /\ c.frame = AnswerFor(0, goal[0])
      BY <1>0, ElementOfSeq DEF AnsweringCall
    <3>2. \A d \in D : c \notin Hearing(d)
      BY SomethingUnderWay
    <3> HIDE DEF c
    <3>3. c \in Hearing(0)
      <4>1. 0 \in Dlci /\ goal[0] \in States
        BY <1>0, <3>1
      <4>2. AnswerFor(0, goal[0]) \in Answers(0)
        BY <4>1, AnswerFacts
      <4> QED
        BY <3>1, <4>2 DEF Hearing
    <3>4. 0 \notin D /\ 0 \in Dlci
      BY <1>0, <3>1, <3>2, <3>3
    <3>5. c \in AnsweringCall'
      BY <3>1, <3>4 DEF AnsweringCall
    <3> QED
      BY <3>5 DEF c
  <2> QED
    BY <1>0, <2>1, ElementsIn
<1> QED
  BY <1>2, <1>3, <1>4, <1>5

COROLLARY AllStay ==
  ASSUME TypeInv, QueueInv, goal' = goal, Heard \subseteq Heard'
  PROVE  /\ c2s \in Seq(ClientFrame') /\ sCalls \in Seq(ServedCall')
         /\ s2c \in Seq(ServerFrame') /\ cCalls \in Seq(AnsweringCall')
<1> DEFINE D == {}
<1>1. /\ D \in SUBSET Dlci /\ \A d \in D : UnderWay(d) = 0
      /\ \A d \in Dlci \ D : goal'[d] = goal[d] /\ (d \in Heard => d \in Heard')
  OBVIOUS
<1> HIDE DEF D
<1> QED
  BY <1>1, OthersStay

(* The strengthening holds of a link just set up, and so do the abstract   *)
(* terminals start closed.                                                 *)
LEMMA InitSessionInv == Init => SessionInv /\ Abstract!Init
<1> SUFFICES ASSUME Init PROVE SessionInv /\ Abstract!Init
  OBVIOUS
<1> USE DEF Init, LinkInit, Client!Init, Server!Init
<1>1. TypeInv
  BY FrameNames DEF TypeInv, States, LastTypes
<1>2. QueueInv
  BY DEF QueueInv
<1>3. ClientKnows /\ ServerKnows
  BY DlciFacts DEF ClientKnows, ServerKnows
<1>4. OneOutstanding
  <2>1. \A d \in Dlci : UnderWay(d) = 0
    BY CountEmpty DEF UnderWay
  <2> QED
    BY <2>1, DlciFacts DEF OneOutstanding
<1>5. Abstract!Init
  BY DlciFacts DEF Abstract!Init
<1> QED
  BY <1>1, <1>2, <1>3, <1>4, <1>5 DEF SessionInv

----------------------------------------------------------------------------
(* A step that changes no goal and tells no program anything is none of    *)
(* the abstract terminals.                                                 *)
LEMMA SilentStep == UNCHANGED <<goal, sTold, cTold>> => AbstractStep
BY DEF AbstractStep, Abstract!vars

(* A new goal asked for on a DLCI that reached the last one. *)
LEMMA AskStep ==
  ASSUME TypeInv, NEW d \in Dlci, NEW g \in States,
         goal[d] = cTold[d], g # goal[d], goal' = [goal EXCEPT ![d] = g],
         UNCHANGED <<sTold, cTold>>
  PROVE  AbstractStep
<1>1. Abstract!Ask(d)
  BY DEF Abstract!Ask, States, Abstract!States
<1> QED
  BY <1>1 DEF AbstractStep, Abstract!Next

(* The request for a new goal of d, or for the same one again after a      *)
(* loss, is sent.                                                          *)
LEMMA RequestStep ==
  ASSUME SessionInv, NEW d \in Dlci, NEW g \in States,
         goal[d] = cTold[d] \/ d \in gone, g # cTold[d],
         goal' = [goal EXCEPT ![d] = g], gone' = gone \ {d},
         c2s' = Append(c2s, RequestFor(d, g)),
         cLast' = [cLast EXCEPT ![d] = RequestFor(d, g).type],
         cOptions' \in [Slots -> BOOLEAN],
         \A e \in Dlci \ {d} : cOptions'[e] = cOptions[e],
         d # 0 => cOptions'[d] = TRUE \/ (g = "closed" /\ cOptions'[d] = cOptions[d]),
         \A t \in Terminals : sOptions[t],
         UNCHANGED <<cCalls, cTold, sOptions, sCalls, sTold, s2c>>
  PROVE  SessionInv'
<1> DEFINE r == RequestFor(d, g)
<1>0. /\ TypeInv /\ QueueInv /\ ClientKnows /\ ServerKnows /\ OneOutstanding
      /\ goal \in [Dlci -> States] /\ goal' \in [Dlci -> States]
      /\ goal'[d] = g /\ \A e \in Dlci \ {d} : goal'[e] = goal[e]
  BY DEF SessionInv, TypeInv
<1>1. UnderWay(d) = 0
  BY <1>0, NothingOutstanding
<1>2. /\ c2s \in Seq(ClientFrame') /\ sCalls \in Seq(ServedCall')
      /\ s2c \in Seq(ServerFrame') /\ cCalls \in Seq(AnsweringCall')
  <2>1. \A e \in Dlci \ {d} : e \in Heard => e \in Heard'
    BY <1>0 DEF Heard
  <2> DEFINE D == {d}
  <2>2. /\ D \in SUBSET Dlci /\ \A e \in D : UnderWay(e) = 0
        /\ \A e \in Dlci \ D : goal'[e] = goal[e] /\ (e \in Heard => e \in Heard')
    BY <1>0, <1>1, <2>1
  <2> HIDE DEF D
  <2> QED
    BY <1>0, <2>2, OthersStay
<1>3. /\ r \in ClientFrame' /\ r.type \in LastTypes
      /\ \A e \in Dlci : r \in Requests(e) <=> e = d
  BY <1>0, RequestFacts DEF ClientFrame
<1> HIDE DEF r
<1>4. TypeInv'
  BY <1>0, <1>3 DEF TypeInv, r
<1>5. QueueInv'
  <2>1. Append(c2s, r) \in Seq(ClientFrame')
    BY <1>2, <1>3, AppendProperties
  <2> QED
    BY <1>2, <2>1 DEF QueueInv, r
<1>6. ClientKnows'
  <2> SUFFICES ASSUME NEW e \in Dlci
               PROVE  /\ goal'[e] # cTold'[e] => cLast'[e] = RequestFor(e, goal'[e]).type
                      /\ e # 0 /\ (goal'[e] = "open" \/ cTold'[e] = "open") => cOptions'[e]
    BY DEF ClientKnows
  <2>1. CASE e = d
    <3>1. cLast'[d] = RequestFor(d, goal'[d]).type
      BY <1>0, DlciFacts DEF TypeInv
    <3>2. d # 0 /\ g = "closed" => cOptions[d]
      <4>1. g = "closed" => cTold[d] = "open"
        BY <1>0, DlciFacts DEF TypeInv, States
      <4> QED
        BY <1>0, <4>1 DEF ClientKnows
    <3> QED
      BY <2>1, <3>1, <3>2
  <2>2. CASE e # d
    <3>1. cLast'[e] = cLast[e] /\ cOptions'[e] = cOptions[e] /\ goal'[e] = goal[e]
      BY <1>0, <2>2, DlciFacts DEF TypeInv
    <3> QED
      BY <1>0, <3>1 DEF ClientKnows
  <2> QED
    BY <2>1, <2>2
<1>7. ServerKnows'
  BY DEF ServerKnows
<1>8. OneOutstanding'
  <2> SUFFICES ASSUME NEW e \in Dlci
               PROVE  UnderWay(e)' + (IF e \in gone' THEN 1 ELSE 0)
                        = IF goal'[e] = cTold'[e] THEN 0 ELSE 1
    BY DEF OneOutstanding
  <2>1. UnderWay(e)' = UnderWay(e) + IF e = d THEN 1 ELSE 0
    <3> DEFINE x == Count(c2s, Requests(e))
               y == Count(sCalls, Handling(e))
               z == Count(s2c, Answers(e))
               w == Count(cCalls, Hearing(e))
               one == IF e = d THEN 1 ELSE 0
    <3>1. x \in Nat /\ y \in Nat /\ z \in Nat /\ w \in Nat /\ one \in Nat
      BY <1>0, UnderWayCounts
    <3>2. Count(Append(c2s, r), Requests(e)) = x + one
      BY <1>2, <1>3, CountAppend
    <3>3. UnderWay(e)' = Count(Append(c2s, r), Requests(e)) + y + z + w
      BY DEF UnderWay, r
    <3>4. UnderWay(e) = x + y + z + w
      BY DEF UnderWay
    <3> HIDE DEF x, y, z, w, one
    <3>5. UnderWay(e)' = UnderWay(e) + one
      BY <3>1, <3>2, <3>3, <3>4
    <3> QED
      BY <3>5 DEF one
  <2>2. CASE e = d
    BY <1>0, <1>1, <2>1, <2>2
  <2>3. CASE e # d
    <3>1. UnderWay(e) \in Nat
      BY <1>0, UnderWayCounts
    <3>2. UnderWay(e)' = UnderWay(e) /\ goal'[e] = goal[e] /\ (e \in gone' <=> e \in gone)
      BY <1>0, <2>1, <2>3, <3>1
    <3> QED
      BY <1>0, <3>2 DEF OneOutstanding
  <2> QED
    BY <2>2, <2>3
<1> QED
  BY <1>4, <1>5, <1>6, <1>7, <1>8 DEF SessionInv

(* The call of the client's program that asks for a state of a DLCI. *)
AskFor(d, g) ==
  /\ \/ g = "open" /\ d = 0 /\ Client!Start
     \/ g = "open" /\ d # 0 /\ Client!TerminalOpen(d, TRUE)
     \/ g = "closed" /\ d = 0 /\ Client!Stop
     \/ g = "closed" /\ d # 0 /\ Client!TerminalClose(d)
  /\ UNCHANGED <<svars, s2c>>

(* It sends the request and keeps the records ClientKnows is about. *)
LEMMA AskForEffect ==
  ASSUME SessionInv, NEW d \in Dlci, NEW g \in States, AskFor(d, g)
  PROVE  /\ c2s' = Append(c2s, RequestFor(d, g))
         /\ cLast' = [cLast EXCEPT ![d] = RequestFor(d, g).type]
         /\ cOptions' \in [Slots -> BOOLEAN]
         /\ \A e \in Dlci \ {d} : cOptions'[e] = cOptions[e]
         /\ d # 0 => cOptions'[d] = TRUE \/ (g = "closed" /\ cOptions'[d] = cOptions[d])
         /\ UNCHANGED <<cCalls, cTold, sOptions, sCalls, sTold, s2c>>
<1> DEFINE r == RequestFor(d, g)
<1>0. cOptions \in [Slots -> BOOLEAN] /\ d \in Slots /\ Allowed(d)
  BY DlciFacts DEF SessionInv, TypeInv
<1>1. /\ Client!SendFrame(r)
      /\ UNCHANGED <<cCalls, cTold, sOptions, sCalls, sTold, s2c>>
      /\ \/ \E registered \in BOOLEAN :
              /\ cOptions' = [cOptions EXCEPT ![d] = registered]
              /\ d # 0 => registered
         \/ cOptions' = cOptions /\ g = "closed"
  BY FrameNames
     DEF AskFor, svars, Client!Start, Client!Stop, Client!TerminalOpen,
         Client!TerminalClose, Client!Request, RequestFor
<1>2. r \in Frame /\ r.dlci = d
  BY RequestFacts
<1>3. c2s' = Append(c2s, r) /\ cLast' = [cLast EXCEPT ![d] = r.type]
  <2> HIDE DEF r
  <2> QED
    BY <1>0, <1>1, <1>2, ClientSendsFrame
<1>4. /\ cOptions' \in [Slots -> BOOLEAN]
      /\ \A e \in Dlci \ {d} : cOptions'[e] = cOptions[e]
      /\ d # 0 => cOptions'[d] = TRUE \/ (g = "closed" /\ cOptions'[d] = cOptions[d])
  BY <1>0, <1>1, DlciFacts
<1> QED
  BY <1>1, <1>3, <1>4

(* The requests of the client's program. *)
LEMMA ClientRequestStep ==
  ASSUME SessionInv,
         \/ Start \/ Stop \/ \E d \in Terminals : Open(d) \/ Close(d)
         \/ \E d \in Dlci : Retry(d)
  PROVE  SessionInv' /\ AbstractStep
<1>0. /\ TypeInv /\ QueueInv /\ OneOutstanding /\ ServerKnows /\ 0 \in Dlci
      /\ goal \in [Dlci -> States] /\ gone \subseteq Dlci
  BY DlciFacts DEF SessionInv, TypeInv
<1>1. ASSUME NEW d \in Dlci, NEW g \in States, goal[d] = cTold[d], g # goal[d],
             goal' = [goal EXCEPT ![d] = g], AskFor(d, g), UNCHANGED gone,
             \A t \in Terminals : sOptions[t]
      PROVE  SessionInv' /\ AbstractStep
  <2>1. gone' = gone \ {d}
    BY <1>0, <1>1, NothingOutstanding
  <2>2. SessionInv'
    BY <1>1, <2>1, AskForEffect, RequestStep
  <2>3. UNCHANGED <<sTold, cTold>>
    BY <1>1, AskForEffect
  <2> QED
    BY <1>0, <1>1, <2>2, <2>3, AskStep
<1>2. ASSUME NEW d \in Dlci, goal[d] = "open" \/ cTold[d] = "open"
      PROVE  \A t \in Terminals : sOptions[t]
  BY <1>0, <1>2 DEF ServerKnows
<1>3. CASE Start
  <2>1. /\ goal[0] = "closed" /\ cTold[0] = "closed"
        /\ goal' = [goal EXCEPT ![0] = "open"] /\ AskFor(0, "open") /\ UNCHANGED gone
        /\ \A t \in Terminals : sOptions[t]
    BY <1>3 DEF Start, Reached, ClientAsks, ClientCalls, AskFor
  <2> QED
    BY <1>0, <1>1, <2>1 DEF States
<1>4. CASE Stop
  <2>1. /\ goal[0] = "open" /\ cTold[0] = "open"
        /\ goal' = [goal EXCEPT ![0] = "closed"] /\ AskFor(0, "closed") /\ UNCHANGED gone
    BY <1>4 DEF Stop, Reached, ClientAsks, ClientCalls, AskFor
  <2> QED
    BY <1>0, <1>1, <1>2, <2>1 DEF States
<1>5. ASSUME NEW d \in Terminals, Open(d)
      PROVE  SessionInv' /\ AbstractStep
  <2>1. /\ goal[d] = "closed" /\ cTold[d] = "closed" /\ goal[0] = "open"
        /\ goal' = [goal EXCEPT ![d] = "open"] /\ AskFor(d, "open") /\ UNCHANGED gone
        /\ d \in Dlci
    BY <1>5 DEF Open, Reached, ClientAsks, ClientCalls, AskFor, Terminals
  <2> QED
    BY <1>0, <1>1, <1>2, <2>1 DEF States
<1>6. ASSUME NEW d \in Terminals, Close(d)
      PROVE  SessionInv' /\ AbstractStep
  <2>1. /\ goal[d] = "open" /\ cTold[d] = "open"
        /\ goal' = [goal EXCEPT ![d] = "closed"] /\ AskFor(d, "closed") /\ UNCHANGED gone
        /\ d \in Dlci
    BY <1>6 DEF Close, Reached, ClientAsks, ClientCalls, AskFor, Terminals
  <2> QED
    BY <1>0, <1>1, <1>2, <2>1 DEF States
<1>7. ASSUME NEW d \in Dlci, Retry(d)
      PROVE  SessionInv' /\ AbstractStep
  <2>1. /\ d \in gone /\ gone' = gone \ {d} /\ UNCHANGED goal /\ AskFor(d, goal[d])
    BY <1>7 DEF Retry, ClientCalls, AskFor
  <2>2. goal[d] # cTold[d] /\ goal[d] \in States /\ cTold[d] \in States
    BY <1>0, <2>1, NothingOutstanding, DlciFacts DEF TypeInv
  <2>3. \A t \in Terminals : sOptions[t]
    BY <1>2, <2>2 DEF States
  <2>4. goal' = [goal EXCEPT ![d] = goal[d]]
    BY <1>0, <2>1
  <2>5. SessionInv'
    BY <2>1, <2>2, <2>3, <2>4, AskForEffect, RequestStep
  <2>6. UNCHANGED <<goal, sTold, cTold>>
    BY <2>1, <2>2, AskForEffect
  <2> QED
    BY <2>5, <2>6, SilentStep
<1> QED
  BY <1>3, <1>4, <1>5, <1>6, <1>7

(* Data of the client's program, of a terminal with no request under way.  *)
LEMMA SendStep ==
  ASSUME SessionInv, NEW d \in Terminals, Send(d)
  PROVE  SessionInv' /\ AbstractStep
<1> DEFINE x == Mk("UIH", d, "data")
<1>0. /\ TypeInv /\ QueueInv /\ ClientKnows /\ ServerKnows /\ OneOutstanding
      /\ x \in Data /\ x \in Frame /\ x.dlci = d /\ x.type = "UIH"
      /\ d \in Dlci /\ d \in Slots /\ Allowed(d)
  BY DataFacts, DlciFacts DEF SessionInv, Data, Terminals, Mk
<1>1. /\ goal[d] = cTold[d] /\ Client!SendFrame(x)
      /\ UNCHANGED <<cOptions, cCalls, cTold, sOptions, sCalls, sTold, s2c, goal, gone>>
  BY FrameNames DEF Send, Reached, ClientCalls, Client!TerminalSend, Client!Request, svars
<1> HIDE DEF x
<1>2. c2s' = Append(c2s, x) /\ cLast' = [cLast EXCEPT ![d] = "UIH"]
  BY <1>0, <1>1, ClientSendsFrame
<1>3. /\ c2s \in Seq(ClientFrame') /\ sCalls \in Seq(ServedCall')
      /\ s2c \in Seq(ServerFrame') /\ cCalls \in Seq(AnsweringCall')
  BY <1>0, <1>1, AllStay DEF Heard
<1>4. TypeInv'
  BY <1>0, <1>1, <1>2 DEF TypeInv, LastTypes, Types
<1>5. QueueInv'
  <2>1. x \in ClientFrame'
    BY <1>0 DEF ClientFrame
  <2> QED
    BY <1>1, <1>2, <1>3, <2>1, AppendProperties DEF QueueInv
<1>6. ClientKnows'
  <2>1. \A e \in Dlci \ {d} : cLast'[e] = cLast[e]
    BY <1>0, <1>2, DlciFacts DEF TypeInv
  <2> QED
    BY <1>0, <1>1, <2>1 DEF ClientKnows
<1>7. ServerKnows'
  BY <1>0, <1>1 DEF ServerKnows
<1>8. OneOutstanding'
  <2>1. ASSUME NEW e \in Dlci PROVE Count(c2s', Requests(e)) = Count(c2s, Requests(e))
    <3>1. Count(c2s, Requests(e)) \in Nat /\ x \notin Requests(e)
      BY <1>0, UnderWayCounts, DataFacts
    <3>2. Count(Append(c2s, x), Requests(e))
            = Count(c2s, Requests(e)) + IF x \in Requests(e) THEN 1 ELSE 0
      <4>1. c2s \in Seq(ClientFrame) /\ x \in ClientFrame
        BY <1>0 DEF QueueInv, ClientFrame
      <4> QED
        BY <4>1, CountAppend
    <3> QED
      BY <1>2, <3>1, <3>2
  <2> QED
    BY <1>0, <1>1, <2>1 DEF OneOutstanding, UnderWay
<1> QED
  BY <1>1, <1>4, <1>5, <1>6, <1>7, <1>8, SilentStep DEF SessionInv

(* Data of the server's program. *)
LEMMA ServerSendStep ==
  ASSUME SessionInv, NEW d \in Terminals, ServerSend(d)
  PROVE  SessionInv' /\ AbstractStep
<1> DEFINE x == Mk("UIH", d, "data")
<1>0. /\ TypeInv /\ QueueInv /\ ClientKnows /\ ServerKnows /\ OneOutstanding
      /\ x \in Data /\ x \in Frame /\ x.dlci = d /\ Allowed(d)
  BY DataFacts, DlciFacts DEF SessionInv, Data, Terminals, Mk
<1>1. /\ Server!SendFrame(x)
      /\ UNCHANGED <<cOptions, cLast, cCalls, cTold, c2s, sOptions, sCalls, sTold, goal, gone>>
  BY FrameNames DEF ServerSend, ServerCalls, Server!TerminalSend, Server!Request, cvars
<1> HIDE DEF x
<1>2. s2c' = Append(s2c, x)
  BY <1>0, <1>1, ServerSendsFrame
<1>3. /\ c2s \in Seq(ClientFrame') /\ sCalls \in Seq(ServedCall')
      /\ s2c \in Seq(ServerFrame') /\ cCalls \in Seq(AnsweringCall')
  BY <1>0, <1>1, AllStay DEF Heard
<1>4. TypeInv' /\ ClientKnows' /\ ServerKnows'
  BY <1>0, <1>1 DEF TypeInv, ClientKnows, ServerKnows
<1>5. QueueInv'
  <2>1. x \in ServerFrame'
    BY <1>0 DEF ServerFrame
  <2> QED
    BY <1>1, <1>2, <1>3, <2>1, AppendProperties DEF QueueInv
<1>6. OneOutstanding'
  <2>1. ASSUME NEW e \in Dlci PROVE Count(s2c', Answers(e)) = Count(s2c, Answers(e))
    <3>1. Count(s2c, Answers(e)) \in Nat /\ x \notin Answers(e)
      BY <1>0, UnderWayCounts, DataFacts
    <3>2. Count(Append(s2c, x), Answers(e))
            = Count(s2c, Answers(e)) + IF x \in Answers(e) THEN 1 ELSE 0
      <4>1. s2c \in Seq(ServerFrame) /\ x \in ServerFrame
        BY <1>0 DEF QueueInv, ServerFrame
      <4> QED
        BY <4>1, CountAppend
    <3> QED
      BY <1>2, <3>1, <3>2
  <2> QED
    BY <1>0, <1>1, <2>1 DEF OneOutstanding, UnderWay
<1> QED
  BY <1>1, <1>4, <1>5, <1>6, SilentStep DEF SessionInv

(* The server's program registers a terminal. *)
LEMMA RegisterStep ==
  ASSUME SessionInv, NEW d \in Terminals, Register(d)
  PROVE  SessionInv' /\ AbstractStep
<1>0. /\ TypeInv /\ QueueInv /\ ClientKnows /\ ServerKnows /\ OneOutstanding
      /\ d \in Slots /\ \A t \in Terminals : t \in Slots
  BY DlciFacts DEF SessionInv, Terminals
<1>1. /\ sOptions' = [sOptions EXCEPT ![d] = TRUE]
      /\ UNCHANGED <<cOptions, cLast, cCalls, cTold, c2s, sCalls, sTold, s2c, goal, gone>>
  BY DEF Register, ServerCalls, Server!RegisterTerminal, cvars
<1>2. QueueInv'
  BY <1>0, <1>1, AllStay DEF Heard, QueueInv
<1>3. TypeInv' /\ ClientKnows' /\ ServerKnows'
  BY <1>0, <1>1 DEF TypeInv, ClientKnows, ServerKnows
<1>4. OneOutstanding'
  BY <1>0, <1>1 DEF OneOutstanding, UnderWay
<1> QED
  BY <1>1, <1>2, <1>3, <1>4, SilentStep DEF SessionInv

(* The line loses the first frame of a direction: of a request or an       *)
(* answer it is known that it is gone.                                     *)
LEMMA LoseStep ==
  ASSUME SessionInv, Lose
  PROVE  SessionInv' /\ AbstractStep
<1>0. TypeInv /\ QueueInv /\ ClientKnows /\ ServerKnows /\ OneOutstanding
  BY DEF SessionInv
<1>1. UNCHANGED <<cOptions, cLast, cCalls, cTold, sOptions, sCalls, sTold, goal>>
  BY DEF Lose, LoseFrom, cvars, svars
<1>2. /\ c2s \in Seq(ClientFrame') /\ sCalls \in Seq(ServedCall')
      /\ s2c \in Seq(ServerFrame') /\ cCalls \in Seq(AnsweringCall')
  BY <1>0, <1>1, AllStay DEF Heard
<1>3. CASE c2s # <<>> /\ LoseFrom(Head(c2s)) /\ c2s' = Tail(c2s) /\ UNCHANGED s2c
  <2> DEFINE f == Head(c2s)
  <2>1. f \in ClientFrame /\ c2s \in Seq(ClientFrame)
    BY <1>0, <1>3, HeadTailProperties DEF QueueInv
  <2>2. \A e \in Dlci : IsRequest(f, e) \/ IsAnswer(f, e) <=> f \in Requests(e)
    <3>1. CASE f \in Data
      BY <3>1, DataFacts DEF Requests, Answers
    <3>2. ASSUME NEW d \in Dlci, f = RequestFor(d, goal[d])
          PROVE  \A e \in Dlci : IsRequest(f, e) \/ IsAnswer(f, e) <=> f \in Requests(e)
      <4>1. goal[d] \in States
        BY <1>0 DEF TypeInv
      <4> QED
        BY <3>2, <4>1, RequestFacts DEF Requests, Answers
    <3> QED
      BY <2>1, <3>1, <3>2 DEF ClientFrame
  <2>3. gone' = gone \cup {e \in Dlci : f \in Requests(e)}
    BY <1>3, <2>2 DEF LoseFrom
  <2>4. TypeInv' /\ ClientKnows' /\ ServerKnows'
    BY <1>0, <1>1, <2>3 DEF TypeInv, ClientKnows, ServerKnows
  <2>5. QueueInv'
    BY <1>1, <1>2, <1>3, HeadTailProperties DEF QueueInv
  <2>6. ASSUME NEW e \in Dlci
        PROVE  /\ UnderWay(e) \in Nat
               /\ UnderWay(e)' = UnderWay(e) - IF f \in Requests(e) THEN 1 ELSE 0
               /\ f \in Requests(e) => UnderWay(e) > 0
    <3> DEFINE one == IF f \in Requests(e) THEN 1 ELSE 0
               x == Count(Tail(c2s), Requests(e))
               y == Count(sCalls, Handling(e))
               z == Count(s2c, Answers(e))
               w == Count(cCalls, Hearing(e))
    <3>1. Count(c2s, Requests(e)) = x + one
      BY <1>3, <2>1, CountTail
    <3>2. x \in Nat /\ y \in Nat /\ z \in Nat /\ w \in Nat /\ one \in Nat
      BY <1>0, <1>3, <2>1, UnderWayCounts, HeadTailProperties, CountIsPlaces
    <3>3. UnderWay(e)' = x + y + z + w
      BY <1>1, <1>3 DEF UnderWay
    <3>4. UnderWay(e) = x + one + y + z + w
      BY <3>1 DEF UnderWay
    <3>5. f \in Requests(e) => one = 1
      OBVIOUS
    <3> HIDE DEF x, y, z, w, one, f
    <3>6. /\ UnderWay(e) \in Nat /\ UnderWay(e)' = UnderWay(e) - one
          /\ f \in Requests(e) => UnderWay(e) > 0
      BY <3>2, <3>3, <3>4, <3>5
    <3> QED
      BY <3>6 DEF one
  <2>7. OneOutstanding'
    <3> SUFFICES ASSUME NEW e \in Dlci
                 PROVE  UnderWay(e)' + (IF e \in gone' THEN 1 ELSE 0)
                          = IF goal'[e] = cTold'[e] THEN 0 ELSE 1
      BY DEF OneOutstanding
    <3> HIDE DEF f
    <3>1. UnderWay(e) + (IF e \in gone THEN 1 ELSE 0) = IF goal[e] = cTold[e] THEN 0 ELSE 1
      BY <1>0 DEF OneOutstanding
    <3>2. CASE f \in Requests(e)
      BY <1>0, <1>1, <2>3, <2>6, <3>2, Outstanding
    <3>3. CASE f \notin Requests(e)
      BY <1>1, <2>3, <2>6, <3>1, <3>3
    <3> QED
      BY <3>2, <3>3
  <2> QED
    BY <1>1, <2>4, <2>5, <2>7, SilentStep DEF SessionInv
<1>4. CASE s2c # <<>> /\ LoseFrom(Head(s2c)) /\ s2c' = Tail(s2c) /\ UNCHANGED c2s
  <2> DEFINE f == Head(s2c)
  <2>1. f \in ServerFrame /\ s2c \in Seq(ServerFrame)
    BY <1>0, <1>4, HeadTailProperties DEF QueueInv
  <2>2. \A e \in Dlci : IsRequest(f, e) \/ IsAnswer(f, e) <=> f \in Answers(e)
    <3>1. CASE f \in Data
      BY <3>1, DataFacts DEF Requests, Answers
    <3>2. ASSUME NEW d \in Heard, f = AnswerFor(d, goal[d])
          PROVE  \A e \in Dlci : IsRequest(f, e) \/ IsAnswer(f, e) <=> f \in Answers(e)
      <4>1. goal[d] \in States /\ d \in Dlci
        BY <1>0 DEF TypeInv, Heard
      <4>2. f \in Frame /\ \A e \in Dlci : f \notin Requests(e)
        BY <3>2, <4>1, AnswerFacts
      <4> HIDE DEF f
      <4> QED
        BY <4>2 DEF Requests, Answers
    <3> QED
      BY <2>1, <3>1, <3>2 DEF ServerFrame
  <2>3. gone' = gone \cup {e \in Dlci : f \in Answers(e)}
    BY <1>4, <2>2 DEF LoseFrom
  <2>4. TypeInv' /\ ClientKnows' /\ ServerKnows'
    BY <1>0, <1>1, <2>3 DEF TypeInv, ClientKnows, ServerKnows
  <2>5. QueueInv'
    BY <1>1, <1>2, <1>4, HeadTailProperties DEF QueueInv
  <2>6. ASSUME NEW e \in Dlci
        PROVE  /\ UnderWay(e) \in Nat
               /\ UnderWay(e)' = UnderWay(e) - IF f \in Answers(e) THEN 1 ELSE 0
               /\ f \in Answers(e) => UnderWay(e) > 0
    <3> DEFINE one == IF f \in Answers(e) THEN 1 ELSE 0
               x == Count(c2s, Requests(e))
               y == Count(sCalls, Handling(e))
               z == Count(Tail(s2c), Answers(e))
               w == Count(cCalls, Hearing(e))
    <3>1. Count(s2c, Answers(e)) = z + one
      BY <1>4, <2>1, CountTail
    <3>2. x \in Nat /\ y \in Nat /\ z \in Nat /\ w \in Nat /\ one \in Nat
      BY <1>0, <1>4, <2>1, UnderWayCounts, HeadTailProperties, CountIsPlaces
    <3>3. UnderWay(e)' = x + y + z + w
      BY <1>1, <1>4 DEF UnderWay
    <3>4. UnderWay(e) = x + y + (z + one) + w
      BY <3>1 DEF UnderWay
    <3>5. f \in Answers(e) => one = 1
      OBVIOUS
    <3> HIDE DEF x, y, z, w, one, f
    <3>6. /\ UnderWay(e) \in Nat /\ UnderWay(e)' = UnderWay(e) - one
          /\ f \in Answers(e) => UnderWay(e) > 0
      BY <3>2, <3>3, <3>4, <3>5
    <3> QED
      BY <3>6 DEF one
  <2>7. OneOutstanding'
    <3> SUFFICES ASSUME NEW e \in Dlci
                 PROVE  UnderWay(e)' + (IF e \in gone' THEN 1 ELSE 0)
                          = IF goal'[e] = cTold'[e] THEN 0 ELSE 1
      BY DEF OneOutstanding
    <3> HIDE DEF f
    <3>1. UnderWay(e) + (IF e \in gone THEN 1 ELSE 0) = IF goal[e] = cTold[e] THEN 0 ELSE 1
      BY <1>0 DEF OneOutstanding
    <3>2. CASE f \in Answers(e)
      BY <1>0, <1>1, <2>3, <2>6, <3>2, Outstanding
    <3>3. CASE f \notin Answers(e)
      BY <1>1, <2>3, <2>6, <3>1, <3>3
    <3> QED
      BY <3>2, <3>3
  <2> QED
    BY <1>1, <2>4, <2>5, <2>7, SilentStep DEF SessionInv
<1> QED
  BY <1>3, <1>4 DEF Lose

(* A program begins anew, when nothing is under way: the abstract terminal *)
(* forgets, or its peer does.                                              *)
LEMMA RestartStep ==
  ASSUME SessionInv, RestartClient \/ RestartServer
  PROVE  SessionInv' /\ AbstractStep
<1>0. TypeInv /\ QueueInv /\ ClientKnows /\ ServerKnows /\ OneOutstanding
  BY DEF SessionInv
<1>1. \A d \in Dlci : UnderWay(d) = 0
  BY DEF RestartClient, RestartServer, Restarts
<1>2. /\ c2s \in Seq(ClientFrame') /\ sCalls \in Seq(ServedCall')
      /\ s2c \in Seq(ServerFrame') /\ cCalls \in Seq(AnsweringCall')
  <2> DEFINE D == Dlci
  <2>1. /\ D \in SUBSET Dlci /\ \A d \in D : UnderWay(d) = 0
        /\ \A d \in Dlci \ D : goal'[d] = goal[d] /\ (d \in Heard => d \in Heard')
    BY <1>1
  <2> HIDE DEF D
  <2> QED
    BY <1>0, <2>1, OthersStay
<1>3. UNCHANGED <<c2s, s2c, cCalls, sCalls>>
  BY DEF RestartClient, RestartServer, Client!Renew, Server!Renew, cvars, svars
<1>4. QueueInv'
  BY <1>2, <1>3 DEF QueueInv
<1>5. \A d \in Dlci : UnderWay(d)' = 0
  BY <1>1, <1>3 DEF UnderWay
<1>6. CASE RestartClient
  <2>1. /\ cOptions' = [d \in Slots |-> FALSE] /\ cLast' = [d \in Slots |-> "none"]
        /\ cTold' = [d \in 0 .. MaximumDlci |-> "closed"]
        /\ goal' = [d \in Dlci |-> "closed"] /\ gone' = {}
        /\ UNCHANGED <<sOptions, sTold>>
    BY <1>6, FrameNames DEF RestartClient, Client!Renew, svars
  <2>2. TypeInv'
    BY <1>0, <2>1 DEF TypeInv, States, LastTypes
  <2>3. ClientKnows' /\ ServerKnows'
    BY <2>1, DlciFacts DEF ClientKnows, ServerKnows
  <2>4. OneOutstanding'
    BY <1>5, <2>1, DlciFacts DEF OneOutstanding
  <2>5. Abstract!Forget
    BY <2>1, DlciFacts DEF Abstract!Forget
  <2> QED
    BY <1>4, <2>2, <2>3, <2>4, <2>5 DEF SessionInv, AbstractStep, Abstract!Next
<1>7. CASE RestartServer
  <2>1. /\ sOptions' = [d \in Slots |-> d \in Terminals]
        /\ sTold' = [d \in 0 .. MaximumDlci |-> "closed"]
        /\ UNCHANGED <<cOptions, cLast, cTold, goal, gone>>
    BY <1>7, FrameNames DEF RestartServer, Server!Renew, cvars
  <2>2. TypeInv'
    BY <1>0, <2>1 DEF TypeInv, States
  <2>3. ClientKnows' /\ ServerKnows'
    BY <1>0, <2>1, DlciFacts DEF ClientKnows, ServerKnows, Terminals
  <2>4. OneOutstanding'
    BY <1>0, <1>1, <1>5, <2>1 DEF OneOutstanding
  <2>5. Abstract!PeerForgets
    BY <2>1, DlciFacts DEF Abstract!PeerForgets
  <2> QED
    BY <1>4, <2>2, <2>3, <2>4, <2>5 DEF SessionInv, AbstractStep, Abstract!Next
<1> QED
  BY <1>6, <1>7

----------------------------------------------------------------------------
(* The client's handler takes a frame: data; or the answer for a terminal, *)
(* of which its program is told; or the one for the multiplexer, which it  *)
(* keeps in the stack while on_event runs.                                 *)
LEMMA ClientIngestStep ==
  ASSUME SessionInv, ClientIngest, UNCHANGED <<goal, gone>>
  PROVE  SessionInv' /\ AbstractStep
<1> DEFINE f == Head(s2c)
<1>0. TypeInv /\ QueueInv /\ ClientKnows /\ ServerKnows /\ OneOutstanding
      /\ cTold \in [0 .. MaximumDlci -> States] /\ goal \in [Dlci -> States]
  BY DEF SessionInv, TypeInv
<1>1. /\ s2c # <<>> /\ Client!OnControlMessage(f) /\ s2c' = Tail(s2c)
      /\ UNCHANGED <<cOptions, cLast, c2s, sOptions, sCalls, sTold>>
  BY DEF ClientIngest, svars, Client!OnControlMessage
<1>2. /\ f \in ServerFrame /\ s2c \in Seq(ServerFrame) /\ f = s2c[1]
      /\ 1 \in 1 .. Len(s2c)
  <2>1. s2c \in Seq(ServerFrame) /\ Len(s2c) \in Nat \ {0}
    BY <1>0, <1>1, EmptySeq, LenProperties DEF QueueInv
  <2> QED
    BY <1>1, <2>1, HeadTailProperties
<1>3. /\ c2s \in Seq(ClientFrame') /\ sCalls \in Seq(ServedCall')
      /\ s2c \in Seq(ServerFrame') /\ cCalls \in Seq(AnsweringCall')
  BY <1>0, <1>1, AllStay DEF Heard
<1>4. s2c' \in Seq(ServerFrame')
  BY <1>1, <1>3, HeadTailProperties
<1>5. ServerKnows' \/ \E d \in Dlci : cTold'[d] # cTold[d]
  BY <1>0, <1>1 DEF ServerKnows
<1>6. ASSUME NEW e \in Dlci
      PROVE  Count(s2c, Answers(e)) = Count(s2c', Answers(e))
                                      + IF f \in Answers(e) THEN 1 ELSE 0
  BY <1>1, <1>2, CountTail
<1>7. ASSUME NEW e \in Dlci
      PROVE  /\ Count(c2s, Requests(e)) \in Nat /\ Count(sCalls, Handling(e)) \in Nat
             /\ Count(s2c', Answers(e)) \in Nat /\ Count(cCalls, Hearing(e)) \in Nat
  BY <1>0, <1>4, UnderWayCounts, CountIsPlaces
<1>8. CASE f \in Data
  <2>1. f.dlci \in Dlci /\ f.dlci # 0 /\ \A e \in Dlci : f \notin Answers(e)
    BY <1>8, DataFacts DEF Terminals
  <2>2. UNCHANGED <<cCalls, cTold>>
    <3>1. /\ UNCHANGED cCalls
          /\ \E l, r : cTold' = [cTold EXCEPT ![f.dlci] = Client!ToldTerminal(f, l, r)]
      BY <1>1, <2>1, FrameNames, DlciFacts DEF Client!OnControlMessage
    <3> QED
      BY <1>0, <1>8, <3>1, DataFacts
  <2>3. TypeInv' /\ ClientKnows' /\ ServerKnows' /\ QueueInv'
    BY <1>0, <1>1, <1>3, <1>4, <2>2
       DEF TypeInv, ClientKnows, ServerKnows, QueueInv
  <2>4. OneOutstanding'
    <3>1. \A e \in Dlci : Count(s2c, Answers(e)) = Count(s2c', Answers(e))
      BY <1>6, <1>7, <2>1
    <3> QED
      BY <1>0, <1>1, <2>2, <3>1 DEF OneOutstanding, UnderWay
  <2> QED
    BY <1>1, <2>2, <2>3, <2>4, SilentStep DEF SessionInv
<1>9. ASSUME NEW d \in Heard, f = AnswerFor(d, goal[d])
      PROVE  SessionInv' /\ AbstractStep
  <2>1. /\ d \in Dlci /\ sTold[d] = goal[d] /\ goal[d] \in States /\ cTold[d] \in States
        /\ d \in Slots /\ Allowed(d) /\ d \in 0 .. MaximumDlci
    BY <1>0, DlciFacts DEF Heard
  <2>2. /\ f.dlci = d /\ f \in Frame /\ \A e \in Dlci : f \in Answers(e) <=> e = d
    BY <1>9, <2>1, AnswerFacts
  <2>3. UnderWay(d) = 1 /\ d \notin gone /\ goal[d] # cTold[d]
    <3>1. \E i \in 1 .. Len(s2c) : s2c[i] \in Answers(d)
      BY <1>2, <2>1, <2>2
    <3>2. UnderWay(d) > 0
      BY <1>0, <3>1, SomethingUnderWay
    <3> QED
      BY <1>0, <2>1, <3>2, Outstanding
  <2>4. /\ cLast[d] = RequestFor(d, goal[d]).type /\ cLast[d] \in LastTypes
        /\ d # 0 => cOptions[d] = TRUE
    BY <1>0, <2>1, <2>3 DEF ClientKnows, TypeInv, States
  <2>5. CASE d = 0
    <3> DEFINE c == [frame |-> f, last |-> cLast[0]]
    <3>1. cCalls' = Append(cCalls, c) /\ cTold' = cTold
      BY <1>1, <2>1, <2>2, <2>5, FrameNames DEF Client!OnControlMessage, Element
    <3>2. c \in ClientCall /\ c.frame = f /\ c.last = cLast[0]
      BY <2>2, <2>4, <2>5 DEF ClientCall
    <3> HIDE DEF c
    <3>3. c \in AnsweringCall' /\ c \in AnsweringCall
      BY <1>0, <1>1, <1>9, <2>1, <2>4, <2>5, <3>2 DEF AnsweringCall, Heard
    <3>4. \A e \in Dlci : c \in Hearing(e) <=> e = d
      BY <2>2, <3>2 DEF Hearing
    <3>5. QueueInv'
      BY <1>1, <1>3, <1>4, <3>1, <3>3, AppendProperties DEF QueueInv
    <3>6. TypeInv' /\ ClientKnows' /\ ServerKnows'
      BY <1>0, <1>1, <3>1 DEF TypeInv, ClientKnows, ServerKnows
    <3>7. ASSUME NEW e \in Dlci PROVE UnderWay(e)' = UnderWay(e)
      <4> DEFINE x == Count(c2s, Requests(e))
                 y == Count(sCalls, Handling(e))
                 z == Count(s2c', Answers(e))
                 w == Count(cCalls, Hearing(e))
                 one == IF e = d THEN 1 ELSE 0
      <4>1. x \in Nat /\ y \in Nat /\ z \in Nat /\ w \in Nat /\ one \in Nat
        BY <1>7
      <4>2. Count(s2c, Answers(e)) = z + one
        BY <1>6, <2>2
      <4>3. Count(cCalls', Hearing(e)) = w + one
        <5>1. cCalls \in Seq(AnsweringCall)
          BY <1>0 DEF QueueInv
        <5> QED
          BY <3>1, <3>3, <3>4, <5>1, CountAppend
      <4>4. UnderWay(e)' = x + y + z + (w + one)
        BY <1>1, <4>3 DEF UnderWay
      <4>5. UnderWay(e) = x + y + (z + one) + w
        BY <4>2 DEF UnderWay
      <4> HIDE DEF x, y, z, w, one
      <4> QED
        BY <4>1, <4>4, <4>5
    <3>8. OneOutstanding'
      BY <1>0, <3>1, <3>7 DEF OneOutstanding
    <3> QED
      BY <1>1, <3>1, <3>5, <3>6, <3>8, SilentStep DEF SessionInv
  <2>6. CASE d # 0
    <3>1. cTold' = [cTold EXCEPT ![d] = goal[d]] /\ cCalls' = cCalls
      <4>1. /\ cTold' = [cTold EXCEPT ![d] =
                           Client!ToldTerminal(f, cLast[d], cOptions[d])]
            /\ cCalls' = cCalls
        BY <1>1, <2>1, <2>2, <2>6, FrameNames DEF Client!OnControlMessage, Element
      <4> QED
        BY <1>9, <2>1, <2>4, <2>6, <4>1, AnswerTells
    <3>2. cTold'[d] = goal[d] /\ \A e \in Dlci \ {d} : cTold'[e] = cTold[e]
      BY <1>0, <2>1, <3>1, DlciFacts
    <3>3. QueueInv'
      BY <1>1, <1>3, <1>4, <3>1 DEF QueueInv
    <3>4. TypeInv'
      BY <1>0, <1>1, <2>1, <3>1 DEF TypeInv
    <3>5. ClientKnows' /\ ServerKnows'
      BY <1>0, <1>1, <2>1, <2>3, <3>2 DEF ClientKnows, ServerKnows
    <3>6. ASSUME NEW e \in Dlci
          PROVE  UnderWay(e)' = UnderWay(e) - IF e = d THEN 1 ELSE 0
      <4> DEFINE x == Count(c2s, Requests(e))
                 y == Count(sCalls, Handling(e))
                 z == Count(s2c', Answers(e))
                 w == Count(cCalls, Hearing(e))
                 one == IF e = d THEN 1 ELSE 0
      <4>1. x \in Nat /\ y \in Nat /\ z \in Nat /\ w \in Nat /\ one \in Nat
        BY <1>7
      <4>2. Count(s2c, Answers(e)) = z + one
        BY <1>6, <2>2
      <4>3. UnderWay(e)' = x + y + z + w
        BY <1>1, <3>1 DEF UnderWay
      <4>4. UnderWay(e) = x + y + (z + one) + w
        BY <4>2 DEF UnderWay
      <4> HIDE DEF x, y, z, w, one
      <4>5. UnderWay(e)' = UnderWay(e) - one
        BY <4>1, <4>3, <4>4
      <4> QED
        BY <4>5 DEF one
    <3>7. OneOutstanding'
      <4> SUFFICES ASSUME NEW e \in Dlci
                   PROVE  UnderWay(e)' + (IF e \in gone' THEN 1 ELSE 0)
                            = IF goal'[e] = cTold'[e] THEN 0 ELSE 1
        BY DEF OneOutstanding
      <4>1. CASE e = d
        BY <2>3, <3>2, <3>6, <4>1
      <4>2. CASE e # d
        <5>1. UnderWay(e) \in Nat
          BY <1>0, UnderWayCounts
        <5> QED
          BY <1>0, <3>2, <3>6, <4>2, <5>1 DEF OneOutstanding
      <4> QED
        BY <4>1, <4>2
    <3>8. Abstract!Confirm(d)
      <4>1. [e \in Dlci |-> cTold'[e]]
              = [[e \in Dlci |-> cTold[e]] EXCEPT ![d] = goal[d]]
        BY <2>1, <3>2
      <4> QED
        BY <1>1, <2>1, <2>3, <4>1 DEF Abstract!Confirm
    <3> QED
      BY <2>1, <3>3, <3>4, <3>5, <3>7, <3>8 DEF SessionInv, AbstractStep, Abstract!Next
  <2> QED
    BY <2>5, <2>6
<1> QED
  BY <1>2, <1>8, <1>9 DEF ServerFrame

(* on_event returns to the client's handler, and its program is told of    *)
(* the multiplexer.                                                        *)
LEMMA ClientReturnStep ==
  ASSUME SessionInv, ClientReturn, UNCHANGED <<goal, gone>>
  PROVE  SessionInv' /\ AbstractStep
<1> DEFINE c == Last(cCalls)
<1>0. TypeInv /\ QueueInv /\ ClientKnows /\ ServerKnows /\ OneOutstanding
      /\ cTold \in [0 .. MaximumDlci -> States] /\ goal \in [Dlci -> States]
  BY DEF SessionInv, TypeInv
<1>1. /\ cCalls # <<>> /\ cCalls' = Front(cCalls)
      /\ cTold' = [cTold EXCEPT ![0] = Client!ToldMux(c.frame, c.last)]
      /\ UNCHANGED <<cOptions, cLast, c2s, sOptions, sCalls, sTold, s2c>>
  BY StackNames DEF ClientReturn, Client!EventReturn, svars
<1>2. /\ cCalls \in Seq(AnsweringCall) /\ c \in AnsweringCall
      /\ c = cCalls[Len(cCalls)] /\ Len(cCalls) \in 1 .. Len(cCalls)
  <2>1. cCalls \in Seq(AnsweringCall)
    BY <1>0 DEF QueueInv
  <2>2. Len(cCalls) \in Nat \ {0} /\ c \in AnsweringCall /\ c = cCalls[Len(cCalls)]
    BY <1>1, <2>1, FrontProperties
  <2> QED
    BY <2>1, <2>2
<1> HIDE DEF c
<1>3. /\ 0 \in Dlci /\ goal[0] \in States /\ sTold[0] = goal[0]
      /\ c \in ClientCall /\ c.frame = AnswerFor(0, goal[0])
      /\ c.last = RequestFor(0, goal[0]).type
  BY <1>0, <1>2, DlciFacts DEF AnsweringCall, Heard
<1>4. \A e \in Dlci : c \in Hearing(e) <=> e = 0
  BY <1>3, AnswerFacts DEF Hearing
<1>5. UnderWay(0) = 1 /\ 0 \notin gone /\ goal[0] # cTold[0]
  <2>1. \E i \in 1 .. Len(cCalls) : cCalls[i] \in Hearing(0)
    BY <1>2, <1>3, <1>4
  <2>2. UnderWay(0) > 0
    BY <1>0, <2>1, SomethingUnderWay
  <2> QED
    BY <1>0, <1>3, <2>2, Outstanding
<1>6. cTold' = [cTold EXCEPT ![0] = goal[0]]
  BY <1>1, <1>3, AnswerTells
<1>7. cTold'[0] = goal[0] /\ \A e \in Dlci \ {0} : cTold'[e] = cTold[e]
  BY <1>0, <1>6, DlciFacts
<1>8. /\ c2s \in Seq(ClientFrame') /\ sCalls \in Seq(ServedCall')
      /\ s2c \in Seq(ServerFrame') /\ cCalls \in Seq(AnsweringCall')
  BY <1>0, <1>1, AllStay DEF Heard
<1>9. QueueInv'
  BY <1>1, <1>8, FrontProperties DEF QueueInv
<1>10. TypeInv'
  BY <1>0, <1>1, <1>3, <1>6 DEF TypeInv
<1>11. ClientKnows' /\ ServerKnows'
  BY <1>0, <1>1, <1>5, <1>7, DlciFacts DEF ClientKnows, ServerKnows
<1>12. ASSUME NEW e \in Dlci
       PROVE  UnderWay(e)' = UnderWay(e) - IF e = 0 THEN 1 ELSE 0
  <2> DEFINE x == Count(c2s, Requests(e))
             y == Count(sCalls, Handling(e))
             z == Count(s2c, Answers(e))
             w == Count(cCalls', Hearing(e))
             one == IF e = 0 THEN 1 ELSE 0
  <2>1. x \in Nat /\ y \in Nat /\ z \in Nat /\ w \in Nat /\ one \in Nat
    BY <1>0, <1>1, <1>8, UnderWayCounts, FrontProperties, CountIsPlaces
  <2>2. Count(cCalls, Hearing(e)) = w + one
    BY <1>1, <1>2, <1>4, CountFront DEF c
  <2>3. UnderWay(e)' = x + y + z + w
    BY <1>1 DEF UnderWay
  <2>4. UnderWay(e) = x + y + z + (w + one)
    BY <2>2 DEF UnderWay
  <2> HIDE DEF x, y, z, w, one
  <2>5. UnderWay(e)' = UnderWay(e) - one
    BY <2>1, <2>3, <2>4
  <2> QED
    BY <2>5 DEF one
<1>13. OneOutstanding'
  <2> SUFFICES ASSUME NEW e \in Dlci
               PROVE  UnderWay(e)' + (IF e \in gone' THEN 1 ELSE 0)
                        = IF goal'[e] = cTold'[e] THEN 0 ELSE 1
    BY DEF OneOutstanding
  <2>1. CASE e = 0
    BY <1>5, <1>7, <1>12, <2>1
  <2>2. CASE e # 0
    <3>1. UnderWay(e) \in Nat
      BY <1>0, UnderWayCounts
    <3> QED
      BY <1>0, <1>7, <1>12, <2>2, <3>1 DEF OneOutstanding
  <2> QED
    BY <2>1, <2>2
<1>14. Abstract!Confirm(0)
  <2>1. [e \in Dlci |-> cTold'[e]] = [[e \in Dlci |-> cTold[e]] EXCEPT ![0] = goal[0]]
    BY <1>3, <1>7
  <2> QED
    BY <1>1, <1>3, <1>5, <2>1 DEF Abstract!Confirm
<1> QED
  BY <1>3, <1>9, <1>10, <1>11, <1>13, <1>14 DEF SessionInv, AbstractStep, Abstract!Next

(* The server's handler takes a frame into its stack. *)
LEMMA ServerIngestStep ==
  ASSUME SessionInv, ServerIngest, UNCHANGED <<goal, gone>>
  PROVE  SessionInv' /\ AbstractStep
<1> DEFINE f == Head(c2s)
           c == [frame |-> f, stage |-> "event"]
<1>0. TypeInv /\ QueueInv /\ ClientKnows /\ ServerKnows /\ OneOutstanding
  BY DEF SessionInv
<1>1. /\ c2s # <<>> /\ Server!OnControlMessage(f) /\ c2s' = Tail(c2s)
      /\ UNCHANGED <<cOptions, cLast, cCalls, cTold, sOptions, sTold, s2c>>
  BY DEF ServerIngest, cvars, Server!OnControlMessage
<1>2. f \in ClientFrame /\ c2s \in Seq(ClientFrame)
  BY <1>0, <1>1, HeadTailProperties DEF QueueInv
<1>3. f \in Frame /\ f.dlci \in Dlci
  <2>1. CASE f \in Data
    BY <2>1, DataFacts
  <2>2. ASSUME NEW d \in Dlci, f = RequestFor(d, goal[d])
        PROVE  f \in Frame /\ f.dlci \in Dlci
    <3>1. goal[d] \in States
      BY <1>0 DEF TypeInv
    <3> QED
      BY <2>2, <3>1, RequestFacts
  <2> QED
    BY <1>2, <2>1, <2>2 DEF ClientFrame
<1>4. sCalls' = Append(sCalls, c)
  BY <1>1, <1>3, FrameNames, DlciFacts DEF Server!OnControlMessage
<1>5. c \in ServedCall /\ c \in ServerCall /\ c.frame = f
  BY <1>2, <1>3 DEF ServedCall, ServerCall
<1> HIDE DEF c
<1>6. /\ c2s \in Seq(ClientFrame') /\ sCalls \in Seq(ServedCall')
      /\ s2c \in Seq(ServerFrame') /\ cCalls \in Seq(AnsweringCall')
  BY <1>0, <1>1, AllStay DEF Heard
<1>7. QueueInv'
  <2>1. c \in ServedCall'
    BY <1>1, <1>5 DEF ServedCall, ClientFrame, Heard
  <2>2. Append(sCalls, c) \in Seq(ServedCall') /\ Tail(c2s) \in Seq(ClientFrame')
    BY <1>1, <1>6, <2>1, AppendProperties, HeadTailProperties
  <2> QED
    BY <1>1, <1>4, <1>6, <2>2 DEF QueueInv
<1>8. TypeInv' /\ ClientKnows' /\ ServerKnows'
  BY <1>0, <1>1 DEF TypeInv, ClientKnows, ServerKnows
<1>9. ASSUME NEW e \in Dlci PROVE UnderWay(e)' = UnderWay(e)
  <2> DEFINE x == Count(Tail(c2s), Requests(e))
             y == Count(sCalls, Handling(e))
             z == Count(s2c, Answers(e))
             w == Count(cCalls, Hearing(e))
             one == IF f \in Requests(e) THEN 1 ELSE 0
  <2>1. x \in Nat /\ y \in Nat /\ z \in Nat /\ w \in Nat /\ one \in Nat
    BY <1>0, <1>1, <1>2, UnderWayCounts, HeadTailProperties, CountIsPlaces
  <2>2. Count(c2s, Requests(e)) = x + one
    BY <1>1, <1>2, CountTail
  <2>3. Count(Append(sCalls, c), Handling(e)) = y + one
    <3>1. c \in Handling(e) <=> f \in Requests(e)
      BY <1>5 DEF Handling
    <3>2. Count(Append(sCalls, c), Handling(e)) = y + IF c \in Handling(e) THEN 1 ELSE 0
      BY <1>0, <1>5, CountAppend DEF QueueInv
    <3> QED
      BY <3>1, <3>2
  <2>4. UnderWay(e)' = x + (y + one) + z + w
    BY <1>1, <1>4, <2>3 DEF UnderWay
  <2>5. UnderWay(e) = (x + one) + y + z + w
    BY <2>2 DEF UnderWay
  <2> HIDE DEF x, y, z, w, one
  <2> QED
    BY <2>1, <2>4, <2>5
<1>10. OneOutstanding'
  BY <1>0, <1>1, <1>9 DEF OneOutstanding
<1> QED
  BY <1>1, <1>7, <1>8, <1>10, SilentStep DEF SessionInv

(* on_event returns to the server's handler: it is done with data; of a    *)
(* request its program is told, which is registered for every DLCI that    *)
(* has one.                                                                *)
LEMMA ServerEventReturnStep ==
  ASSUME SessionInv, ServerEventReturn, UNCHANGED <<goal, gone>>
  PROVE  SessionInv' /\ AbstractStep
<1> DEFINE n == Len(sCalls)
           f == sCalls[n].frame
<1>0. /\ TypeInv /\ QueueInv /\ ClientKnows /\ ServerKnows /\ OneOutstanding
      /\ sTold \in [0 .. MaximumDlci -> States] /\ goal \in [Dlci -> States]
  BY DEF SessionInv, TypeInv
<1>1. /\ sCalls # <<>> /\ Server!EventReturn
      /\ UNCHANGED <<cOptions, cLast, cCalls, cTold, c2s, sOptions, s2c>>
  BY DEF ServerEventReturn, cvars, Server!EventReturn
<1>2. /\ sCalls \in Seq(ServedCall) /\ n \in Nat \ {0} /\ n \in 1 .. n
      /\ Last(sCalls) = sCalls[n] /\ sCalls[n] \in ServedCall
  <2>1. sCalls \in Seq(ServedCall)
    BY <1>0 DEF QueueInv
  <2>2. n \in Nat \ {0} /\ Last(sCalls) = sCalls[n] /\ Last(sCalls) \in ServedCall
    BY <1>1, <2>1, FrontProperties
  <2> QED
    BY <2>1, <2>2
<1>3. sCalls[n] \in ServerCall /\ f \in ClientFrame
  BY <1>2 DEF ServedCall
<1>4. CASE f \in Data
  <2>1. Server!Replies(f) = <<>> /\ \A e \in Dlci : f \notin Requests(e)
    BY <1>4, DataFacts
  <2>2. sCalls' = Front(sCalls) /\ sTold' = sTold
    BY <1>1, <1>2, <2>1, StackNames DEF Server!EventReturn
  <2>3. /\ c2s \in Seq(ClientFrame') /\ sCalls \in Seq(ServedCall')
        /\ s2c \in Seq(ServerFrame') /\ cCalls \in Seq(AnsweringCall')
    BY <1>0, <1>1, <2>2, AllStay DEF Heard
  <2>4. QueueInv'
    BY <1>1, <2>2, <2>3, FrontProperties DEF QueueInv
  <2>5. TypeInv' /\ ClientKnows' /\ ServerKnows'
    BY <1>0, <1>1, <2>2 DEF TypeInv, ClientKnows, ServerKnows
  <2>6. ASSUME NEW e \in Dlci PROVE Count(sCalls', Handling(e)) = Count(sCalls, Handling(e))
    <3>1. sCalls[n] \notin Handling(e)
      BY <2>1 DEF Handling
    <3>2. Count(sCalls, Handling(e)) = Count(Front(sCalls), Handling(e))
             + IF Last(sCalls) \in Handling(e) THEN 1 ELSE 0
      BY <1>1, <1>2, CountFront
    <3>3. Count(Front(sCalls), Handling(e)) \in Nat
      BY <1>1, <1>2, FrontProperties, CountIsPlaces
    <3> QED
      BY <1>2, <2>2, <3>1, <3>2, <3>3
  <2>7. OneOutstanding'
    BY <1>0, <1>1, <2>6 DEF OneOutstanding, UnderWay
  <2> QED
    BY <1>1, <2>2, <2>4, <2>5, <2>7, SilentStep DEF SessionInv
<1>5. ASSUME NEW d \in Dlci, f = RequestFor(d, goal[d])
      PROVE  SessionInv' /\ AbstractStep
  <2> DEFINE c == [frame |-> f, stage |-> "callback"]
  <2>1. /\ goal[d] \in States /\ d \in Slots /\ d \in 0 .. MaximumDlci /\ d \in Nat
        /\ cTold[d] \in States
    BY <1>0, DlciFacts DEF TypeInv
  <2>2. /\ f \in Frame /\ f.dlci = d /\ f \in Requests(d)
        /\ Server!Replies(f) # <<>> /\ Server!Tells(f) = goal[d]
    <3>1. /\ RequestFor(d, goal[d]) \in Frame /\ RequestFor(d, goal[d]).dlci = d
          /\ RequestFor(d, goal[d]) \in Requests(d)
          /\ Server!Tells(RequestFor(d, goal[d])) = goal[d]
      BY <2>1, RequestFacts
    <3>2. Server!Replies(RequestFor(d, goal[d])) = <<AnswerFor(d, goal[d])>>
      BY <2>1, RequestFacts
    <3> QED
      BY <1>5, <3>1, <3>2
  <2>3. goal[d] # cTold[d]
    <3>1. sCalls[n] \in Handling(d)
      BY <1>3, <2>2 DEF Handling
    <3>2. \E i \in 1 .. Len(sCalls) : sCalls[i] \in Handling(d)
      BY <1>2, <3>1
    <3>3. UnderWay(d) > 0
      BY <1>0, <3>2, SomethingUnderWay
    <3> QED
      BY <1>0, <3>3, Outstanding
  <2>4. d = 0 \/ sOptions[d] = TRUE
    BY <1>0, <2>1, <2>3 DEF ServerKnows, Terminals, TypeInv, States
  <2>5. /\ sCalls' = [sCalls EXCEPT ![n].stage = "callback"]
        /\ sTold' = [sTold EXCEPT ![d] = goal[d]]
    BY <1>1, <1>2, <2>1, <2>2, <2>4, StackNames, FrameNames
       DEF Server!EventReturn, Element
  <2>6. sTold'[d] = goal[d] /\ \A e \in Dlci \ {d} : sTold'[e] = sTold[e]
    BY <1>0, <2>1, <2>5, DlciFacts
  <2>7. Heard \subseteq Heard' /\ d \in Heard'
    BY <2>6 DEF Heard
  <2>8. /\ c2s \in Seq(ClientFrame') /\ sCalls \in Seq(ServedCall')
        /\ s2c \in Seq(ServerFrame') /\ cCalls \in Seq(AnsweringCall')
    BY <1>0, <2>7, AllStay
  <2>9. c \in ServerCall /\ c.frame = f /\ sCalls' = [sCalls EXCEPT ![n] = c]
    <3>1. [sCalls[n] EXCEPT !.stage = "callback"] = c
      BY <1>3 DEF ServerCall
    <3> QED
      BY <2>2, <2>5, <3>1 DEF ServerCall
  <2> HIDE DEF c
  <2>10. c \in ServedCall'
    <3>1. f \in ClientFrame' /\ f \in {RequestFor(e, goal'[e]) : e \in Heard'}
      BY <1>5, <2>7 DEF ClientFrame
    <3> QED
      BY <2>9, <3>1 DEF ServedCall
  <2>11. /\ sCalls' \in Seq(ServedCall') /\ Len(sCalls') = n
         /\ \A i \in 1 .. n : sCalls'[i] = IF i = n THEN c ELSE sCalls[i]
    BY <1>2, <2>8, <2>9, <2>10, ExceptSeq
  <2>12. QueueInv'
    BY <1>1, <2>8, <2>11 DEF QueueInv
  <2>13. TypeInv' /\ ClientKnows' /\ ServerKnows'
    BY <1>0, <1>1, <2>1, <2>5 DEF TypeInv, ClientKnows, ServerKnows
  <2>14. ASSUME NEW e \in Dlci PROVE Count(sCalls', Handling(e)) = Count(sCalls, Handling(e))
    <3>1. c \in Handling(e) <=> sCalls[n] \in Handling(e)
      BY <1>3, <2>9 DEF Handling
    <3>2. \A i \in 1 .. n : sCalls'[i] \in Handling(e) <=> sCalls[i] \in Handling(e)
      BY <2>11, <3>1
    <3> QED
      BY <1>2, <2>11, <3>2, CountSame
  <2>15. OneOutstanding'
    BY <1>0, <1>1, <2>14 DEF OneOutstanding, UnderWay
  <2>16. AbstractStep
    <3>1. CASE sTold[d] = goal[d]
      <4>1. sTold' = sTold
        BY <1>0, <2>5, <3>1
      <4> QED
        BY <1>1, <4>1, SilentStep
    <3>2. CASE sTold[d] # goal[d]
      <4>1. [e \in Dlci |-> sTold'[e]] = [[e \in Dlci |-> sTold[e]] EXCEPT ![d] = goal[d]]
        BY <2>6
      <4>2. Abstract!Comply(d)
        BY <1>1, <2>3, <3>2, <4>1 DEF Abstract!Comply
      <4> QED
        BY <4>2 DEF AbstractStep, Abstract!Next
    <3> QED
      BY <3>1, <3>2
  <2> QED
    BY <2>12, <2>13, <2>15, <2>16 DEF SessionInv
<1> QED
  BY <1>3, <1>4, <1>5 DEF ClientFrame

(* The callback returns to the server's handler, which replies. *)
LEMMA ServerCallbackReturnStep ==
  ASSUME SessionInv, ServerCallbackReturn, UNCHANGED <<goal, gone>>
  PROVE  SessionInv' /\ AbstractStep
<1> DEFINE n == Len(sCalls)
           f == sCalls[n].frame
<1>0. /\ TypeInv /\ QueueInv /\ ClientKnows /\ ServerKnows /\ OneOutstanding
      /\ goal \in [Dlci -> States]
  BY DEF SessionInv, TypeInv
<1>1. /\ sCalls # <<>> /\ Last(sCalls).stage = "callback"
      /\ Server!SendFrame(Server!Replies(Last(sCalls).frame)[1])
      /\ sCalls' = Front(sCalls)
      /\ UNCHANGED <<cOptions, cLast, cCalls, cTold, c2s, sOptions, sTold>>
  BY StackNames DEF ServerCallbackReturn, cvars, Server!CallbackReturn
<1>2. /\ sCalls \in Seq(ServedCall) /\ n \in Nat \ {0}
      /\ Last(sCalls) = sCalls[n] /\ sCalls[n] \in ServedCall
  <2>1. sCalls \in Seq(ServedCall)
    BY <1>0 DEF QueueInv
  <2> QED
    BY <1>1, <2>1, FrontProperties
<1>3. sCalls[n] \in ServerCall /\ f \in {RequestFor(d, goal[d]) : d \in Heard}
  BY <1>1, <1>2 DEF ServedCall
<1>4. PICK d \in Heard : f = RequestFor(d, goal[d])
  BY <1>3
<1>5. d \in Dlci /\ goal[d] \in States /\ Allowed(d)
  BY <1>0, DlciFacts DEF Heard
<1> DEFINE r == AnswerFor(d, goal[d])
<1>6. /\ \A e \in Dlci : f \in Requests(e) <=> e = d
      /\ Server!Replies(f)[1] = r
  BY <1>4, <1>5, RequestFacts
<1>7. r \in Frame /\ r.dlci = d /\ \A e \in Dlci : r \in Answers(e) <=> e = d
  BY <1>5, AnswerFacts
<1>8. r \in ServerFrame
  BY DEF ServerFrame
<1> HIDE DEF r
<1>9. s2c' = Append(s2c, r)
  <2>1. Server!SendFrame(r) /\ Allowed(r.dlci)
    BY <1>1, <1>2, <1>5, <1>6, <1>7
  <2> QED
    BY <1>7, <2>1, ServerSendsFrame
<1>10. /\ c2s \in Seq(ClientFrame') /\ sCalls \in Seq(ServedCall')
       /\ s2c \in Seq(ServerFrame') /\ cCalls \in Seq(AnsweringCall')
  BY <1>0, <1>1, AllStay DEF Heard
<1>11. QueueInv'
  <2>1. r \in ServerFrame'
    BY <1>1, <1>8 DEF ServerFrame, Heard
  <2>2. Append(s2c, r) \in Seq(ServerFrame') /\ Front(sCalls) \in Seq(ServedCall')
    BY <1>1, <1>10, <2>1, AppendProperties, FrontProperties
  <2> QED
    BY <1>1, <1>9, <1>10, <2>2 DEF QueueInv
<1>12. TypeInv' /\ ClientKnows' /\ ServerKnows'
  BY <1>0, <1>1 DEF TypeInv, ClientKnows, ServerKnows
<1>13. ASSUME NEW e \in Dlci PROVE UnderWay(e)' = UnderWay(e)
  <2> DEFINE x == Count(c2s, Requests(e))
             y == Count(Front(sCalls), Handling(e))
             z == Count(s2c, Answers(e))
             w == Count(cCalls, Hearing(e))
             one == IF e = d THEN 1 ELSE 0
  <2>1. x \in Nat /\ y \in Nat /\ z \in Nat /\ w \in Nat /\ one \in Nat
    BY <1>0, <1>1, <1>2, UnderWayCounts, FrontProperties, CountIsPlaces
  <2>2. Count(Append(s2c, r), Answers(e)) = z + one
    BY <1>0, <1>7, <1>8, CountAppend DEF QueueInv
  <2>3. Count(sCalls, Handling(e)) = y + one
    <3>1. sCalls[n] \in Handling(e) <=> e = d
      BY <1>3, <1>6 DEF Handling
    <3>2. Count(sCalls, Handling(e)) = y + IF Last(sCalls) \in Handling(e) THEN 1 ELSE 0
      BY <1>1, <1>2, CountFront
    <3> QED
      BY <1>2, <3>1, <3>2
  <2>4. UnderWay(e)' = x + y + (z + one) + w
    BY <1>1, <1>9, <2>2 DEF UnderWay
  <2>5. UnderWay(e) = x + (y + one) + z + w
    BY <2>3 DEF UnderWay
  <2> HIDE DEF x, y, z, w, one
  <2> QED
    BY <2>1, <2>4, <2>5
<1>14. OneOutstanding'
  BY <1>0, <1>1, <1>13 DEF OneOutstanding
<1> QED
  BY <1>1, <1>11, <1>12, <1>14, SilentStep DEF SessionInv

----------------------------------------------------------------------------
(* The strengthening is inductive, and under it every step is one of the   *)
(* abstract terminals or none.                                             *)
LEMMA SessionStep == SessionInv /\ [Next]_vars => SessionInv' /\ AbstractStep
<1> SUFFICES ASSUME SessionInv, [Next]_vars PROVE SessionInv' /\ AbstractStep
  OBVIOUS
<1>1. CASE UNCHANGED vars
  <2> USE <1>1 DEF vars, lvars
  <2>1. QueueInv'
    BY AllStay DEF SessionInv, Heard, QueueInv
  <2>2. TypeInv' /\ ClientKnows' /\ ServerKnows'
    BY DEF SessionInv, TypeInv, ClientKnows, ServerKnows
  <2>3. OneOutstanding'
    BY DEF SessionInv, OneOutstanding, UnderWay
  <2> QED
    BY <2>1, <2>2, <2>3, SilentStep DEF SessionInv
<1>2. CASE Deliver
  BY <1>2, ClientIngestStep, ClientReturnStep, ServerIngestStep,
     ServerEventReturnStep, ServerCallbackReturnStep DEF Deliver, Handlers
<1> QED
  BY <1>1, <1>2, ClientRequestStep, SendStep, RegisterStep, ServerSendStep,
     LoseStep, RestartStep DEF Next

THEOREM SessionInvariance == Spec => []SessionInv
<1>1. Init => SessionInv
  BY InitSessionInv
<1>2. SessionInv /\ [Next]_vars => SessionInv'
  BY SessionStep
<1> QED
  BY <1>1, <1>2, PTL DEF Spec

(* A DLCI with a goal not reached has exactly one request or answer under  *)
(* way, or lost by the line, and the others have none: the handlers of     *)
(* cmux_client.c and cmux_server.c lose and double nothing.                *)
THEOREM RequestsAreSingle == Spec => []OneOutstanding
<1>1. SessionInv => OneOutstanding
  BY DEF SessionInv
<1> QED
  BY <1>1, SessionInvariance, PTL

(* What the two programs are told of each DLCI is what the abstract        *)
(* terminal allows: the server's program hears of a goal before the        *)
(* client's hears that it is reached, whatever is lost or begins anew.     *)
THEOREM SessionImplementsTerminal == Spec => ImplementsTerminal
<1>1. Init => Abstract!Init
  BY InitSessionInv
<1>2. SessionInv /\ [Next]_vars => [Abstract!Next]_(Abstract!vars)
  BY SessionStep DEF AbstractStep
<1> QED
  BY <1>1, <1>2, SessionInvariance, PTL DEF Spec, ImplementsTerminal, Abstract!Spec

----------------------------------------------------------------------------
(* Where data lies in a queue among requests or answers. *)

(* q has an element of S. *)
Holds(q, S) == \E i \in 1 .. Len(q) : q[i] \in S

(* No x in q has an element of S ahead of it. *)
FreeAhead(q, S, x) ==
  \A i \in 1 .. Len(q) : q[i] = x => \A j \in 1 .. i - 1 : q[j] \notin S

(* Some x in q has none. *)
Clear(q, S, x) ==
  \E i \in 1 .. Len(q) : q[i] = x /\ \A j \in 1 .. i - 1 : q[j] \notin S

LEMMA QueueGrows ==
  ASSUME NEW T, NEW q \in Seq(T), NEW y \in T, NEW S, NEW x
  PROVE  /\ Holds(Append(q, y), S) <=> Holds(q, S) \/ y \in S
         /\ FreeAhead(Append(q, y), S, x)
              <=> FreeAhead(q, S, x) /\ (y = x => ~Holds(q, S))
         /\ Clear(Append(q, y), S, x)
              <=> Clear(q, S, x) \/ (y = x /\ ~Holds(q, S))
<1> DEFINE t == Append(q, y)
           n == Len(q)
<1>1. /\ n \in Nat /\ Len(t) = n + 1 /\ t[n + 1] = y
      /\ \A i \in 1 .. n : t[i] = q[i]
  BY AppendProperties, LenProperties
<1> HIDE DEF t, n
<1>2. Holds(t, S) <=> Holds(q, S) \/ y \in S
  <2>1. Holds(t, S) <=> \E i \in 1 .. n + 1 : t[i] \in S
    BY <1>1 DEF Holds
  <2>2. Holds(q, S) <=> \E i \in 1 .. n : t[i] \in S
    BY <1>1 DEF Holds, n
  <2> QED BY <1>1, <2>1, <2>2
<1>3. FreeAhead(t, S, x) <=> FreeAhead(q, S, x) /\ (y = x => ~Holds(q, S))
  <2>1. FreeAhead(t, S, x) <=>
          \A i \in 1 .. n + 1 : t[i] = x => \A j \in 1 .. i - 1 : t[j] \notin S
    BY <1>1 DEF FreeAhead
  <2>2. FreeAhead(q, S, x) <=>
          \A i \in 1 .. n : t[i] = x => \A j \in 1 .. i - 1 : t[j] \notin S
    <3>1. \A i \in 1 .. n : \A j \in 1 .. i - 1 : j \in 1 .. n
      BY <1>1
    <3> QED BY <1>1, <3>1 DEF FreeAhead, n
  <2>3. Holds(q, S) <=> \E j \in 1 .. (n + 1) - 1 : t[j] \in S
    BY <1>1 DEF Holds, n
  <2> QED BY <1>1, <2>1, <2>2, <2>3
<1>4. Clear(t, S, x) <=> Clear(q, S, x) \/ (y = x /\ ~Holds(q, S))
  <2>1. Clear(t, S, x) <=>
          \E i \in 1 .. n + 1 : t[i] = x /\ \A j \in 1 .. i - 1 : t[j] \notin S
    BY <1>1 DEF Clear
  <2>2. Clear(q, S, x) <=>
          \E i \in 1 .. n : t[i] = x /\ \A j \in 1 .. i - 1 : t[j] \notin S
    <3>1. \A i \in 1 .. n : \A j \in 1 .. i - 1 : j \in 1 .. n
      BY <1>1
    <3> QED BY <1>1, <3>1 DEF Clear, n
  <2>3. Holds(q, S) <=> \E j \in 1 .. (n + 1) - 1 : t[j] \in S
    BY <1>1 DEF Holds, n
  <2> QED BY <1>1, <2>1, <2>2, <2>3
<1> QED BY <1>2, <1>3, <1>4 DEF t

LEMMA QueueMoves ==
  ASSUME NEW T, NEW q \in Seq(T), q # <<>>, NEW S, NEW x
  PROVE  /\ Holds(q, S) <=> Head(q) \in S \/ Holds(Tail(q), S)
         /\ FreeAhead(q, S, x) => FreeAhead(Tail(q), S, x)
         /\ FreeAhead(q, S, x) /\ Head(q) \in S => ~Holds(Tail(q), {x})
         /\ Clear(Tail(q), S, x) =>
              IF Head(q) \in S THEN ~FreeAhead(q, S, x) ELSE Clear(q, S, x)
         /\ Head(q) = x => Clear(q, S, x)
<1> DEFINE t == Tail(q)
           n == Len(t)
<1>1. /\ n \in Nat /\ Len(q) = n + 1 /\ Head(q) = q[1]
      /\ \A i \in 1 .. n : t[i] = q[i + 1]
  <2>1. /\ t \in Seq(T) /\ Len(t) = Len(q) - 1 /\ Len(q) \in Nat \ {0}
        /\ \A i \in 1 .. Len(t) : t[i] = q[i + 1]
        /\ Head(q) = q[1]
    BY HeadTailProperties, EmptySeq, LenProperties
  <2> HIDE DEF t
  <2> QED BY <2>1
<1> HIDE DEF t, n
<1>2. \A i \in 1 .. n : i + 1 \in 1 .. Len(q)
  BY <1>1
<1>3. \A k \in 1 .. Len(q) : k = 1 \/ (k - 1 \in 1 .. n /\ k = (k - 1) + 1)
  BY <1>1
<1>4. 1 \in 1 .. Len(q)
  BY <1>1
<1>5. Holds(t, S) => Holds(q, S)
  BY <1>1, <1>2 DEF Holds, n
<1>6. Holds(q, S) => Head(q) \in S \/ Holds(t, S)
  <2> SUFFICES ASSUME NEW k \in 1 .. Len(q), q[k] \in S, k # 1
               PROVE  Holds(t, S)
    BY <1>1 DEF Holds
  <2>1. k - 1 \in 1 .. n /\ t[k - 1] = q[k]
    BY <1>1, <1>3
  <2> QED BY <2>1 DEF Holds, n
<1>7. Holds(q, S) <=> Head(q) \in S \/ Holds(t, S)
  BY <1>1, <1>4, <1>5, <1>6 DEF Holds
<1>8. FreeAhead(q, S, x) => FreeAhead(t, S, x)
  <2> SUFFICES ASSUME FreeAhead(q, S, x), NEW i \in 1 .. n, t[i] = x,
                      NEW j \in 1 .. i - 1
               PROVE  t[j] \notin S
    BY DEF FreeAhead, n
  <2>1. i + 1 \in 1 .. Len(q) /\ q[i + 1] = x
    BY <1>1, <1>2
  <2>2. j \in 1 .. n /\ j + 1 \in 1 .. (i + 1) - 1
    BY <1>1
  <2>3. q[j + 1] \notin S
    BY <2>1, <2>2 DEF FreeAhead
  <2> QED BY <1>1, <2>2, <2>3
<1>9. ASSUME FreeAhead(q, S, x), Head(q) \in S PROVE ~Holds(t, {x})
  <2> SUFFICES ASSUME NEW i \in 1 .. n, t[i] = x PROVE FALSE
    BY DEF Holds, n
  <2>1. i + 1 \in 1 .. Len(q) /\ q[i + 1] = x /\ 1 \in 1 .. (i + 1) - 1
    BY <1>1, <1>2
  <2>2. q[1] \notin S
    BY <1>9, <2>1 DEF FreeAhead
  <2> QED BY <1>1, <1>9, <2>2
<1>10. ASSUME Clear(t, S, x)
       PROVE  IF Head(q) \in S THEN ~FreeAhead(q, S, x) ELSE Clear(q, S, x)
  <2>1. PICK i \in 1 .. n : t[i] = x /\ \A j \in 1 .. i - 1 : t[j] \notin S
    BY <1>10 DEF Clear, n
  <2>2. i + 1 \in 1 .. Len(q) /\ q[i + 1] = x /\ 1 \in 1 .. (i + 1) - 1
    BY <1>1, <1>2, <2>1
  <2>3. CASE Head(q) \in S
    <3>1. q[1] \in S
      BY <1>1, <2>3
    <3>2. ~FreeAhead(q, S, x)
      BY <2>2, <3>1 DEF FreeAhead
    <3> QED BY <2>3, <3>2
  <2>4. CASE Head(q) \notin S
    <3>1. ASSUME NEW j \in 1 .. (i + 1) - 1 PROVE q[j] \notin S
      <4>1. CASE j = 1
        BY <1>1, <2>4, <4>1
      <4>2. CASE j # 1
        <5>1. j - 1 \in 1 .. i - 1 /\ j - 1 \in 1 .. n /\ (j - 1) + 1 = j
          BY <1>1, <4>2
        <5>2. t[j - 1] \notin S
          BY <2>1, <5>1
        <5>3. t[j - 1] = q[(j - 1) + 1]
          BY <1>1, <5>1
        <5> QED BY <5>1, <5>2, <5>3
      <4> QED BY <4>1, <4>2
    <3>2. Clear(q, S, x)
      BY <2>2, <3>1 DEF Clear
    <3> QED BY <2>4, <3>2
  <2> QED BY <2>3, <2>4
<1>11. Head(q) = x => Clear(q, S, x)
  <2>1. \A j \in 1 .. 1 - 1 : q[j] \notin S
    OBVIOUS
  <2> QED BY <1>1, <1>4, <2>1 DEF Clear
<1> QED BY <1>7, <1>8, <1>9, <1>10, <1>11 DEF t

(* Of a stack. *)
LEMMA StackHolds ==
  ASSUME NEW T, NEW s \in Seq(T), s # <<>>, NEW S
  PROVE  Holds(s, S) <=> Holds(Front(s), S) \/ Last(s) \in S
<1>1. Front(s) \in Seq(T) /\ Last(s) \in T /\ s = Append(Front(s), Last(s))
  BY FrontProperties
<1>2. Holds(Append(Front(s), Last(s)), S) <=> Holds(Front(s), S) \/ Last(s) \in S
  BY <1>1, QueueGrows
<1> QED BY <1>1, <1>2

(* A queue with an element of S is one that counts some. *)
LEMMA HoldsCount ==
  ASSUME NEW T, NEW s \in Seq(T), NEW S
  PROVE  Count(s, S) \in Nat /\ (Holds(s, S) <=> Count(s, S) > 0)
<1>1. /\ IsFiniteSet(Places(s, S)) /\ Count(s, S) = Cardinality(Places(s, S))
      /\ Count(s, S) \in Nat
  BY CountIsPlaces
<1>2. Holds(s, S) <=> Places(s, S) # {}
  BY DEF Holds, Places
<1>3. Places(s, S) = {} <=> Cardinality(Places(s, S)) = 0
  BY <1>1, FS_EmptySet
<1> QED BY <1>1, <1>2, <1>3

----------------------------------------------------------------------------
(* Data comes when the other program was told that the terminal is open,   *)
(* however many frames the line loses, and after a restart when no other   *)
(* fault comes: neither theorem holds of two restarts with data in flight. *)
DataOf(d) == Mk("UIH", d, "data")

(* The calls with a request that the server's program has not heard of. *)
Asking(d) == {c \in Handling(d) : c.stage = "event"}

(* Where a request for d, or its answer, is. *)
Asked(d) == Holds(c2s, Requests(d))
Handled(d) == Holds(sCalls, Handling(d))
Pending(d) == Holds(sCalls, Asking(d))
Answered(d) == Holds(s2c, Answers(d))

(* Where data of d is: on its way up, behind no request; on its way down,  *)
(* before the answer or behind it.                                         *)
DataUp(d) == Holds(c2s, {DataOf(d)})
UpInOrder(d) == FreeAhead(c2s, Requests(d), DataOf(d))
DataBefore(d) == Clear(s2c, Answers(d), DataOf(d))
DataBehind(d) == ~FreeAhead(s2c, Answers(d), DataOf(d))

(* Without a restart the server's program was told what the client's got;  *)
(* without a fault also until it hears of the next request.  (A request is *)
(* repeated when its answer was lost: then the server's was told before.)  *)
InStep(d) ==
  /\ restarts = 0 => (goal[d] = cTold[d] => sTold[d] = goal[d])
  /\ faults = 0 => (Asked(d) \/ Pending(d) => sTold[d] = cTold[d])

UpInv(d) ==
  /\ UpInOrder(d)
  /\ DataUp(d) =>
       /\ ~Handled(d) /\ ~Answered(d)
       /\ sTold[d] = "open" \/ cTold[d] = "open"
       /\ restarts = 0 => sTold[d] = "open" /\ cTold[d] = "open"

DownInv(d) ==
  /\ DataBehind(d) => goal[d] = "open"
  /\ DataBefore(d) => cTold[d] = "open" \/ (faults > 0 /\ sTold[d] = "open")

DataInv ==
  /\ faults \in Nat /\ restarts \in 0 .. faults
  /\ faults = 0 => gone = {}
  /\ \A d \in Terminals : InStep(d) /\ UpInv(d) /\ DownInv(d)

(* What SessionInv says of a terminal, in these words. *)
Single(d) ==
  /\ goal[d] \in States /\ cTold[d] \in States /\ sTold[d] \in States
  /\ Asked(d) \/ Handled(d) \/ Answered(d) => goal[d] # cTold[d]
  /\ goal[d] # cTold[d] => Asked(d) \/ Handled(d) \/ Answered(d) \/ d \in gone
  /\ ~(Asked(d) /\ Handled(d)) /\ ~(Asked(d) /\ Answered(d))
  /\ ~(Handled(d) /\ Answered(d))
  /\ Pending(d) => Handled(d)
  /\ DataBehind(d) => Answered(d)
  /\ Answered(d) => sTold[d] = goal[d]

LEMMA DataOfFacts ==
  ASSUME NEW d \in Terminals
  PROVE  /\ d \in Dlci /\ d # 0 /\ d \in Slots /\ d \in 0 .. MaximumDlci /\ Allowed(d)
         /\ DataOf(d) \in Data /\ DataOf(d) \in Frame /\ DataOf(d).dlci = d
         /\ DataOf(d).type = "UIH"
         /\ \A e \in Dlci : DataOf(d) \notin Requests(e) /\ DataOf(d) \notin Answers(e)
         /\ \A x \in Data : x = DataOf(d) <=> x.dlci = d
<1>1. d \in Dlci /\ d # 0 /\ DataOf(d) \in Data
  BY DEF Terminals, Data, DataOf
<1>2. \A x \in Data : x = DataOf(d) <=> x.dlci = d
  BY DEF Data, DataOf, Mk
<1> QED BY <1>1, <1>2, DataFacts, DlciFacts

LEMMA WireOfFrames ==
  ASSUME SessionInv
  PROVE  c2s \in Seq(Frame) /\ s2c \in Seq(Frame) /\ sCalls \in Seq(ServerCall)
<1>0. /\ c2s \in Seq(ClientFrame) /\ s2c \in Seq(ServerFrame)
      /\ sCalls \in Seq(ServedCall) /\ goal \in [Dlci -> States]
  BY DEF SessionInv, QueueInv, TypeInv
<1>1. ClientFrame \subseteq Frame
  BY <1>0, RequestFacts, DataFacts DEF ClientFrame
<1>2. ServerFrame \subseteq Frame
  BY <1>0, AnswerFacts, DataFacts DEF ServerFrame, Heard
<1>3. ServedCall \subseteq ServerCall
  BY DEF ServedCall
<1>4. c2s \in Seq(Frame)
  BY <1>0, <1>1, ElementOfSeq, ElementsIn
<1>5. s2c \in Seq(Frame)
  BY <1>0, <1>2, ElementOfSeq, ElementsIn
<1>6. sCalls \in Seq(ServerCall)
  BY <1>0, <1>3, ElementOfSeq, ElementsIn
<1> QED BY <1>4, <1>5, <1>6

(* A request for a terminal that runs through the handler of the server is *)
(* the only one.                                                           *)
LEMMA OnlyCall ==
  ASSUME SessionInv, NEW d \in Terminals, sCalls # <<>>, Last(sCalls) \in Handling(d)
  PROVE  ~Holds(Front(sCalls), Handling(d))
<1> DEFINE n == Count(Front(sCalls), Handling(d))
<1>0. d \in Dlci /\ QueueInv /\ OneOutstanding
  BY DataOfFacts DEF SessionInv
<1>1. sCalls \in Seq(ServerCall) /\ Front(sCalls) \in Seq(ServerCall)
  BY WireOfFrames, FrontProperties
<1>2. n \in Nat /\ (Holds(Front(sCalls), Handling(d)) <=> n > 0)
  BY <1>1, HoldsCount
<1>3. Count(sCalls, Handling(d)) = n + 1
  BY <1>1, CountFront
<1>4. /\ Count(c2s, Requests(d)) \in Nat
      /\ Count(s2c, Answers(d)) \in Nat /\ Count(cCalls, Hearing(d)) \in Nat
  BY <1>0, UnderWayCounts
<1>5. UnderWay(d) = Count(c2s, Requests(d)) + (n + 1) + Count(s2c, Answers(d))
                      + Count(cCalls, Hearing(d))
  BY <1>3 DEF UnderWay
<1> HIDE DEF n
<1>6. UnderWay(d) > 0
  BY <1>2, <1>4, <1>5
<1>7. UnderWay(d) = 1
  BY <1>0, <1>6, Outstanding
<1> QED BY <1>2, <1>4, <1>5, <1>7

LEMMA NoneInside ==
  ASSUME NEW T, NEW q \in Seq(T), NEW S, NEW x, ~Holds(q, S)
  PROVE  FreeAhead(q, S, x)
<1>1. Len(q) \in Nat
  BY LenProperties
<1>2. \A i \in 1 .. Len(q) : \A j \in 1 .. i - 1 : j \in 1 .. Len(q)
  BY <1>1
<1> QED BY <1>2 DEF Holds, FreeAhead

LEMMA SingleHolds == SessionInv => \A d \in Terminals : Single(d)
<1> SUFFICES ASSUME SessionInv, NEW d \in Terminals PROVE Single(d)
  OBVIOUS
<1> DEFINE a == Count(c2s, Requests(d))
           h == Count(sCalls, Handling(d))
           n == Count(s2c, Answers(d))
           k == Count(cCalls, Hearing(d))
<1>0. /\ TypeInv /\ QueueInv /\ OneOutstanding /\ d \in Dlci /\ d # 0
      /\ d \in 0 .. MaximumDlci
  BY DataOfFacts DEF SessionInv
<1>1. c2s \in Seq(Frame) /\ s2c \in Seq(Frame) /\ sCalls \in Seq(ServerCall)
  BY WireOfFrames
<1>2. goal[d] \in States /\ cTold[d] \in States /\ sTold[d] \in States
  BY <1>0 DEF TypeInv
<1>3. /\ a \in Nat /\ (Asked(d) <=> a > 0)
      /\ h \in Nat /\ (Handled(d) <=> h > 0)
      /\ n \in Nat /\ (Answered(d) <=> n > 0)
  BY <1>1, HoldsCount DEF Asked, Handled, Answered
<1>4. k = 0
  <2>1. cCalls \in Seq(AnsweringCall)
    BY <1>0 DEF QueueInv
  <2>2. AnsweringCall \cap Hearing(d) = {}
    <3>1. ASSUME NEW c \in AnsweringCall PROVE c.frame \notin Answers(d)
      <4>1. 0 \in Dlci /\ goal[0] \in States /\ c.frame = AnswerFor(0, goal[0])
        BY <1>0, DlciFacts DEF AnsweringCall, TypeInv
      <4> QED BY <1>0, <4>1, AnswerFacts
    <3> QED BY <3>1 DEF Hearing
  <2>3. ~Holds(cCalls, Hearing(d))
    BY <2>1, <2>2, ElementOfSeq DEF Holds
  <2> QED BY <2>1, <2>3, HoldsCount
<1>5. UnderWay(d) = a + h + n + k
  BY DEF UnderWay
<1> HIDE DEF a, h, n, k
<1>6. UnderWay(d) > 0 => UnderWay(d) = 1 /\ goal[d] # cTold[d]
  BY <1>0, Outstanding
<1>7. goal[d] # cTold[d] => UnderWay(d) > 0 \/ d \in gone
  <2>1. UnderWay(d) + (IF d \in gone THEN 1 ELSE 0) = IF goal[d] = cTold[d] THEN 0 ELSE 1
    BY <1>0 DEF OneOutstanding
  <2>2. UnderWay(d) \in Nat
    BY <1>3, <1>4, <1>5
  <2> QED BY <2>1, <2>2
<1>8. /\ Asked(d) \/ Handled(d) \/ Answered(d) => goal[d] # cTold[d]
      /\ goal[d] # cTold[d] => Asked(d) \/ Handled(d) \/ Answered(d) \/ d \in gone
      /\ ~(Asked(d) /\ Handled(d)) /\ ~(Asked(d) /\ Answered(d))
      /\ ~(Handled(d) /\ Answered(d))
  BY <1>3, <1>4, <1>5, <1>6, <1>7
<1>9. Pending(d) => Handled(d)
  BY DEF Pending, Handled, Holds, Asking
<1>10. DataBehind(d) => Answered(d)
  BY <1>1, NoneInside DEF DataBehind, Answered
<1>11. Answered(d) => sTold[d] = goal[d]
  <2> SUFFICES ASSUME NEW i \in 1 .. Len(s2c), s2c[i] \in Answers(d)
               PROVE  sTold[d] = goal[d]
    BY DEF Answered, Holds
  <2>1. s2c[i] \in ServerFrame
    BY <1>0, ElementOfSeq DEF QueueInv
  <2>2. s2c[i] \notin Data
    BY <1>0, DataFacts
  <2>3. PICK e \in Heard : s2c[i] = AnswerFor(e, goal[e])
    BY <2>1, <2>2 DEF ServerFrame
  <2>4. e \in Dlci /\ goal[e] \in States /\ sTold[e] = goal[e]
    BY <1>0 DEF Heard, TypeInv
  <2>5. e = d
    BY <1>0, <2>3, <2>4, AnswerFacts
  <2> QED BY <2>4, <2>5
<1> QED BY <1>2, <1>8, <1>9, <1>10, <1>11 DEF Single

(* A frame joins a queue, or leaves it. *)
LEMMA ClientSends ==
  ASSUME SessionInv, NEW d \in Terminals, NEW y \in Frame, c2s' = Append(c2s, y)
  PROVE  /\ Asked(d)' <=> Asked(d) \/ y \in Requests(d)
         /\ DataUp(d)' <=> DataUp(d) \/ y = DataOf(d)
         /\ UpInOrder(d)' <=> UpInOrder(d) /\ (y = DataOf(d) => ~Asked(d))
<1>1. c2s \in Seq(Frame)
  BY WireOfFrames
<1>2. Holds(c2s', Requests(d)) <=> Holds(c2s, Requests(d)) \/ y \in Requests(d)
  BY <1>1, QueueGrows
<1>3. Holds(c2s', {DataOf(d)}) <=> Holds(c2s, {DataOf(d)}) \/ y = DataOf(d)
  BY <1>1, QueueGrows
<1>4. FreeAhead(c2s', Requests(d), DataOf(d))
        <=> /\ FreeAhead(c2s, Requests(d), DataOf(d))
            /\ y = DataOf(d) => ~Holds(c2s, Requests(d))
  BY <1>1, QueueGrows
<1> QED BY <1>2, <1>3, <1>4 DEF Asked, DataUp, UpInOrder, Requests, DataOf, Mk

LEMMA ServerSends ==
  ASSUME SessionInv, NEW d \in Terminals, NEW y \in Frame, s2c' = Append(s2c, y)
  PROVE  /\ Answered(d)' <=> Answered(d) \/ y \in Answers(d)
         /\ DataBefore(d)' <=> DataBefore(d) \/ (y = DataOf(d) /\ ~Answered(d))
         /\ DataBehind(d)' <=> DataBehind(d) \/ (y = DataOf(d) /\ Answered(d))
<1>1. s2c \in Seq(Frame)
  BY WireOfFrames
<1>2. Holds(s2c', Answers(d)) <=> Holds(s2c, Answers(d)) \/ y \in Answers(d)
  BY <1>1, QueueGrows
<1>3. Clear(s2c', Answers(d), DataOf(d))
        <=> \/ Clear(s2c, Answers(d), DataOf(d))
            \/ y = DataOf(d) /\ ~Holds(s2c, Answers(d))
  BY <1>1, QueueGrows
<1>4. FreeAhead(s2c', Answers(d), DataOf(d))
        <=> /\ FreeAhead(s2c, Answers(d), DataOf(d))
            /\ y = DataOf(d) => ~Holds(s2c, Answers(d))
  BY <1>1, QueueGrows
<1> QED BY <1>2, <1>3, <1>4 DEF Answered, DataBefore, DataBehind, Answers, DataOf, Mk

LEMMA ServerTakes ==
  ASSUME SessionInv, NEW d \in Terminals, c2s # <<>>, c2s' = Tail(c2s)
  PROVE  /\ Asked(d) <=> Asked(d)' \/ Head(c2s) \in Requests(d)
         /\ DataUp(d) <=> DataUp(d)' \/ Head(c2s) = DataOf(d)
         /\ UpInOrder(d) => UpInOrder(d)'
         /\ UpInOrder(d) /\ Head(c2s) \in Requests(d) => ~DataUp(d)'
<1>1. c2s \in Seq(Frame)
  BY WireOfFrames
<1>2. Holds(c2s, Requests(d)) <=> Holds(c2s', Requests(d)) \/ Head(c2s) \in Requests(d)
  BY <1>1, QueueMoves
<1>3. Holds(c2s, {DataOf(d)}) <=> Holds(c2s', {DataOf(d)}) \/ Head(c2s) = DataOf(d)
  BY <1>1, QueueMoves
<1>4. FreeAhead(c2s, Requests(d), DataOf(d)) => FreeAhead(c2s', Requests(d), DataOf(d))
  BY <1>1, QueueMoves
<1>5. FreeAhead(c2s, Requests(d), DataOf(d)) /\ Head(c2s) \in Requests(d)
        => ~Holds(c2s', {DataOf(d)})
  BY <1>1, QueueMoves
<1> QED BY <1>2, <1>3, <1>4, <1>5 DEF Asked, DataUp, UpInOrder, Requests, DataOf, Mk

LEMMA ClientTakes ==
  ASSUME SessionInv, NEW d \in Terminals, s2c # <<>>, s2c' = Tail(s2c)
  PROVE  /\ Answered(d) <=> Answered(d)' \/ Head(s2c) \in Answers(d)
         /\ DataBehind(d)' => DataBehind(d)
         /\ DataBefore(d)' =>
              IF Head(s2c) \in Answers(d) THEN DataBehind(d) ELSE DataBefore(d)
         /\ Head(s2c) = DataOf(d) => DataBefore(d)
<1>1. s2c \in Seq(Frame)
  BY WireOfFrames
<1>2. Holds(s2c, Answers(d)) <=> Holds(s2c', Answers(d)) \/ Head(s2c) \in Answers(d)
  BY <1>1, QueueMoves
<1>3. FreeAhead(s2c, Answers(d), DataOf(d)) => FreeAhead(s2c', Answers(d), DataOf(d))
  BY <1>1, QueueMoves
<1>4. Clear(s2c', Answers(d), DataOf(d)) =>
        IF Head(s2c) \in Answers(d) THEN ~FreeAhead(s2c, Answers(d), DataOf(d))
                                    ELSE Clear(s2c, Answers(d), DataOf(d))
  BY <1>1, QueueMoves
<1>5. Head(s2c) = DataOf(d) => Clear(s2c, Answers(d), DataOf(d))
  BY <1>1, QueueMoves
<1> QED BY <1>2, <1>3, <1>4, <1>5
           DEF Answered, DataBefore, DataBehind, Answers, DataOf, Mk

LEMMA InPlaceUnderWay ==
  ASSUME SessionInv, NEW d \in Terminals, Asked(d) \/ Handled(d) \/ Answered(d)
  PROVE  UnderWay(d) > 0
<1>1. QueueInv
  BY DEF SessionInv
<1> QED BY <1>1, SomethingUnderWay DEF Asked, Handled, Answered, Holds

LEMMA QueuesStay ==
  ASSUME NEW d
  PROVE  /\ c2s' = c2s => /\ Asked(d)' <=> Asked(d)
                          /\ DataUp(d)' <=> DataUp(d)
                          /\ UpInOrder(d)' <=> UpInOrder(d)
         /\ s2c' = s2c => /\ Answered(d)' <=> Answered(d)
                          /\ DataBefore(d)' <=> DataBefore(d)
                          /\ DataBehind(d)' <=> DataBehind(d)
         /\ sCalls' = sCalls => /\ Handled(d)' <=> Handled(d)
                                /\ Pending(d)' <=> Pending(d)
BY DEF Asked, DataUp, UpInOrder, Answered, DataBefore, DataBehind, Handled,
       Pending, Requests, Answers, DataOf, Mk, Handling, Asking

Fine(d) == InStep(d) /\ UpInv(d) /\ DownInv(d)

(* Nothing of d moves. *)
LEMMA FineStays ==
  ASSUME NEW d, Fine(d),
         goal'[d] = goal[d], cTold'[d] = cTold[d], sTold'[d] = sTold[d],
         UNCHANGED <<faults, restarts, c2s, s2c, sCalls>>
  PROVE  Fine(d)'
<1>1. /\ Asked(d)' <=> Asked(d)
      /\ DataUp(d)' <=> DataUp(d)
      /\ UpInOrder(d)' <=> UpInOrder(d)
      /\ Answered(d)' <=> Answered(d)
      /\ DataBefore(d)' <=> DataBefore(d)
      /\ DataBehind(d)' <=> DataBehind(d)
      /\ Handled(d)' <=> Handled(d)
      /\ Pending(d)' <=> Pending(d)
  BY QueuesStay
<1> QED BY <1>1 DEF Fine, InStep, UpInv, DownInv

(* A request goes out for e: of a goal reached without a fault the         *)
(* server's program was told.                                              *)
LEMMA AskForFine ==
  ASSUME SessionInv, DataInv, NEW e \in Dlci, NEW g \in States, AskFor(e, g),
         goal[e] = cTold[e] \/ e \in gone, g # cTold[e],
         goal' = [goal EXCEPT ![e] = g], UNCHANGED <<faults, restarts>>,
         NEW d \in Terminals
  PROVE  Fine(d)'
<1> DEFINE y == RequestFor(e, g)
<1>0. /\ d \in Dlci /\ Single(d) /\ Fine(d) /\ goal \in [Dlci -> States]
      /\ QueueInv /\ OneOutstanding /\ (faults = 0 => gone = {})
      /\ restarts \in 0 .. faults
  BY SingleHolds, DataOfFacts DEF SessionInv, TypeInv, DataInv, Fine
<1>1. c2s' = Append(c2s, y) /\ UNCHANGED <<cTold, sCalls, sTold, s2c>>
  BY AskForEffect
<1>2. y \in Frame /\ y # DataOf(d) /\ (y \in Requests(d) <=> d = e)
  BY <1>0, RequestFacts, DataOfFacts
<1> HIDE DEF y
<1>3. /\ Asked(d)' <=> Asked(d) \/ d = e
      /\ DataUp(d)' <=> DataUp(d)
      /\ UpInOrder(d)' <=> UpInOrder(d)
  BY <1>1, <1>2, ClientSends
<1>4. /\ Answered(d)' <=> Answered(d)
      /\ DataBefore(d)' <=> DataBefore(d)
      /\ DataBehind(d)' <=> DataBehind(d)
      /\ Handled(d)' <=> Handled(d)
      /\ Pending(d)' <=> Pending(d)
  BY <1>1, QueuesStay
<1>5. cTold'[d] = cTold[d] /\ sTold'[d] = sTold[d] /\ faults' = faults /\ restarts' = restarts
  BY <1>1
<1>6. CASE d # e
  <2>1. goal'[d] = goal[d]
    BY <1>0, <1>6
  <2> QED BY <1>0, <1>3, <1>4, <1>5, <1>6, <2>1 DEF Fine, InStep, UpInv, DownInv
<1>7. CASE d = e
  <2>1. goal'[d] = g /\ g # cTold[d]
    BY <1>0, <1>7
  <2>2. ~Asked(d) /\ ~Handled(d) /\ ~Answered(d)
    <3>1. UnderWay(d) = 0
      BY <1>0, <1>7, NothingOutstanding
    <3> QED BY <3>1, InPlaceUnderWay
  <2>3. ~DataBehind(d) /\ ~Pending(d)
    BY <1>0, <2>2 DEF Single
  <2>4. faults = 0 => goal[d] = cTold[d]
    BY <1>0, <1>7
  <2>5. faults = 0 => sTold[d] = cTold[d]
    <3>1. faults = 0 => restarts = 0
      BY <1>0
    <3> QED BY <1>0, <2>4, <3>1 DEF Fine, InStep
  <2>6. InStep(d)'
    BY <1>5, <2>1, <2>5 DEF InStep
  <2>7. UpInv(d)'
    BY <1>0, <1>3, <1>4, <1>5 DEF Fine, UpInv
  <2>8. DownInv(d)'
    BY <1>0, <1>4, <1>5, <2>3 DEF Fine, DownInv
  <2> QED BY <2>6, <2>7, <2>8 DEF Fine
<1> QED BY <1>6, <1>7

LEMMA ClientRequestFine ==
  ASSUME SessionInv, DataInv,
         \/ Start \/ Stop \/ \E d \in Terminals : Open(d) \/ Close(d)
         \/ \E d \in Dlci : Retry(d),
         NEW d \in Terminals
  PROVE  Fine(d)'
<1>0. /\ 0 \in Dlci /\ goal \in [Dlci -> States] /\ gone \subseteq Dlci
      /\ QueueInv /\ OneOutstanding
  BY DlciFacts DEF SessionInv, TypeInv
<1>1. CASE Start
  <2>1. /\ goal[0] = "closed" /\ cTold[0] = "closed" /\ UNCHANGED <<faults, restarts>>
        /\ goal' = [goal EXCEPT ![0] = "open"] /\ AskFor(0, "open")
    BY <1>1 DEF Start, Reached, ClientAsks, ClientCalls, AskFor
  <2> QED BY <1>0, <2>1, AskForFine DEF States
<1>2. CASE Stop
  <2>1. /\ goal[0] = "open" /\ cTold[0] = "open" /\ UNCHANGED <<faults, restarts>>
        /\ goal' = [goal EXCEPT ![0] = "closed"] /\ AskFor(0, "closed")
    BY <1>2 DEF Stop, Reached, ClientAsks, ClientCalls, AskFor
  <2> QED BY <1>0, <2>1, AskForFine DEF States
<1>3. ASSUME NEW e \in Terminals, Open(e)
      PROVE  Fine(d)'
  <2>1. /\ goal[e] = "closed" /\ cTold[e] = "closed" /\ UNCHANGED <<faults, restarts>> /\ e \in Dlci
        /\ goal' = [goal EXCEPT ![e] = "open"] /\ AskFor(e, "open")
    BY <1>3 DEF Open, Reached, ClientAsks, ClientCalls, AskFor, Terminals
  <2> QED BY <1>0, <2>1, AskForFine DEF States
<1>4. ASSUME NEW e \in Terminals, Close(e)
      PROVE  Fine(d)'
  <2>1. /\ goal[e] = "open" /\ cTold[e] = "open" /\ UNCHANGED <<faults, restarts>> /\ e \in Dlci
        /\ goal' = [goal EXCEPT ![e] = "closed"] /\ AskFor(e, "closed")
    BY <1>4 DEF Close, Reached, ClientAsks, ClientCalls, AskFor, Terminals
  <2> QED BY <1>0, <2>1, AskForFine DEF States
<1>5. ASSUME NEW e \in Dlci, Retry(e)
      PROVE  Fine(d)'
  <2>1. e \in gone /\ UNCHANGED <<goal, faults, restarts>> /\ AskFor(e, goal[e])
    BY <1>5 DEF Retry, ClientCalls, AskFor
  <2>2. goal[e] # cTold[e] /\ goal[e] \in States
    BY <1>0, <2>1, NothingOutstanding
  <2>3. goal' = [goal EXCEPT ![e] = goal[e]]
    BY <1>0, <2>1
  <2> QED BY <2>1, <2>2, <2>3, AskForFine
<1> QED BY <1>1, <1>2, <1>3, <1>4, <1>5

(* Data of e goes up, of a terminal that the client's program opened. *)
LEMMA SendFine ==
  ASSUME SessionInv, DataInv, NEW e \in Terminals, Send(e), NEW d \in Terminals
  PROVE  Fine(d)'
<1> DEFINE y == DataOf(e)
<1>0. /\ d \in Dlci /\ Single(d) /\ Fine(d) /\ e \in Dlci /\ y \in Frame /\ y \in Data
      /\ y.dlci = e /\ Allowed(e) /\ y \notin Requests(d) /\ (y = DataOf(d) <=> d = e)
  BY SingleHolds, DataOfFacts DEF DataInv, Fine
<1>1. /\ goal[e] = "open" /\ cTold[e] = "open" /\ Client!SendFrame(y)
      /\ UNCHANGED <<cTold, sCalls, sTold, s2c, goal, faults, restarts>>
  BY FrameNames DEF Send, Reached, ClientCalls, Client!TerminalSend, Client!Request,
                    svars, DataOf
<1> HIDE DEF y
<1>2. c2s' = Append(c2s, y)
  BY <1>0, <1>1, ClientSendsFrame
<1>3. /\ Asked(d)' <=> Asked(d)
      /\ DataUp(d)' <=> DataUp(d) \/ d = e
      /\ UpInOrder(d)' <=> UpInOrder(d) /\ (d = e => ~Asked(d))
  BY <1>0, <1>2, ClientSends
<1>4. /\ Answered(d)' <=> Answered(d)
      /\ DataBefore(d)' <=> DataBefore(d)
      /\ DataBehind(d)' <=> DataBehind(d)
      /\ Handled(d)' <=> Handled(d)
      /\ Pending(d)' <=> Pending(d)
  BY <1>1, QueuesStay
<1>5. /\ cTold'[d] = cTold[d] /\ sTold'[d] = sTold[d] /\ goal'[d] = goal[d]
      /\ faults' = faults /\ restarts' = restarts
  BY <1>1
<1>6. d = e => /\ ~Asked(d) /\ ~Handled(d) /\ ~Answered(d) /\ cTold[d] = "open"
               /\ restarts = 0 => sTold[d] = "open"
  BY <1>0, <1>1 DEF Single, Fine, InStep
<1> QED BY <1>0, <1>3, <1>4, <1>5, <1>6 DEF Fine, InStep, UpInv, DownInv

(* Data of e goes down, of a terminal that the server's program was told   *)
(* is open: if the answer has not come before it, the client's program was *)
(* told the same, or else the request would still be under way.            *)
LEMMA ServerSendFine ==
  ASSUME SessionInv, DataInv, NEW e \in Terminals, ServerSend(e), NEW d \in Terminals
  PROVE  Fine(d)'
<1> DEFINE y == DataOf(e)
<1>0. /\ d \in Dlci /\ Single(d) /\ Fine(d) /\ e \in Dlci /\ y \in Frame /\ y \in Data
      /\ y.dlci = e /\ Allowed(e) /\ y \notin Answers(d) /\ (y = DataOf(d) <=> d = e)
      /\ (faults = 0 => gone = {}) /\ faults \in Nat /\ restarts \in 0 .. faults
  BY SingleHolds, DataOfFacts DEF DataInv, Fine
<1>1. /\ sTold[e] = "open" /\ ~InCallback(e) /\ Server!SendFrame(y)
      /\ UNCHANGED <<cTold, sCalls, sTold, c2s, goal, faults, restarts>>
  BY FrameNames DEF ServerSend, ServerCalls, Server!TerminalSend, Server!Request,
                    cvars, DataOf
<1> HIDE DEF y
<1>2. s2c' = Append(s2c, y)
  BY <1>0, <1>1, ServerSendsFrame
<1>3. /\ Answered(d)' <=> Answered(d)
      /\ DataBefore(d)' <=> DataBefore(d) \/ (d = e /\ ~Answered(d))
      /\ DataBehind(d)' <=> DataBehind(d) \/ (d = e /\ Answered(d))
  BY <1>0, <1>2, ServerSends
<1>4. /\ Asked(d)' <=> Asked(d)
      /\ DataUp(d)' <=> DataUp(d)
      /\ UpInOrder(d)' <=> UpInOrder(d)
      /\ Handled(d)' <=> Handled(d)
      /\ Pending(d)' <=> Pending(d)
  BY <1>1, QueuesStay
<1>5. /\ cTold'[d] = cTold[d] /\ sTold'[d] = sTold[d] /\ goal'[d] = goal[d]
      /\ faults' = faults /\ restarts' = restarts
  BY <1>1
<1>6. d = e => (Handled(d) => Pending(d))
  <2> SUFFICES ASSUME d = e, NEW i \in 1 .. Len(sCalls), sCalls[i] \in Handling(d)
               PROVE  Pending(d)
    BY DEF Handled, Holds
  <2>1. /\ i \in DOMAIN sCalls /\ sCalls[i].frame.dlci = d
        /\ sCalls[i].stage \in {"event", "callback"}
    BY WireOfFrames, LenProperties DEF Handling, Requests, IsRequest, ServerCall
  <2>2. sCalls[i].stage = "event"
    BY <1>1, <2>1 DEF InCallback
  <2> QED BY <2>2 DEF Pending, Holds, Asking
<1>7. d = e /\ ~Answered(d) => cTold[d] = "open" \/ (faults > 0 /\ sTold[d] = "open")
  <2> SUFFICES ASSUME d = e, ~Answered(d), faults = 0 PROVE cTold[d] = "open"
    BY <1>0, <1>1
  <2>0. restarts = 0
    BY <1>0
  <2>1. CASE goal[d] = cTold[d]
    BY <1>0, <1>1, <2>0, <2>1 DEF Fine, InStep
  <2>2. CASE goal[d] # cTold[d]
    <3>1. Asked(d) \/ Pending(d)
      BY <1>0, <1>6, <2>2 DEF Single
    <3> QED BY <1>0, <1>1, <3>1 DEF Fine, InStep
  <2> QED BY <2>1, <2>2
<1>8. d = e /\ Answered(d) => goal[d] = "open"
  BY <1>0, <1>1 DEF Single
<1>9. InStep(d)' /\ UpInv(d)'
  BY <1>0, <1>3, <1>4, <1>5 DEF Fine, InStep, UpInv
<1>10. DownInv(d)'
  BY <1>0, <1>3, <1>5, <1>7, <1>8 DEF Fine, DownInv
<1> QED BY <1>9, <1>10 DEF Fine

LEMMA RegisterFine ==
  ASSUME DataInv, NEW e \in Terminals, Register(e), NEW d \in Terminals
  PROVE  Fine(d)'
<1>1. UNCHANGED <<goal, cTold, sTold, faults, restarts, c2s, s2c, sCalls>>
  BY DEF Register, ServerCalls, Server!RegisterTerminal, cvars
<1> QED BY <1>1, FineStays DEF DataInv, Fine

(* A loss: the data behind a lost answer is of a terminal that the         *)
(* server's program was told is open.                                      *)
LEMMA LoseFine ==
  ASSUME SessionInv, DataInv, Lose, NEW d \in Terminals
  PROVE  Fine(d)'
<1>0. Single(d) /\ Fine(d) /\ faults \in Nat
  BY SingleHolds DEF DataInv, Fine
<1>1. /\ cTold'[d] = cTold[d] /\ sTold'[d] = sTold[d] /\ goal'[d] = goal[d]
      /\ UNCHANGED <<sCalls, restarts>> /\ faults' # 0 /\ faults' > 0
  <2>1. UNCHANGED <<cTold, sTold, sCalls, goal, restarts>> /\ faults' = faults + 1
    BY DEF Lose, LoseFrom, cvars, svars
  <2> QED BY <1>0, <2>1
<1>2. (Handled(d)' <=> Handled(d)) /\ (Pending(d)' <=> Pending(d))
  BY <1>1, QueuesStay
<1>3. CASE c2s # <<>> /\ c2s' = Tail(c2s) /\ UNCHANGED s2c
  <2>1. (DataUp(d)' => DataUp(d)) /\ (UpInOrder(d) => UpInOrder(d)')
    BY <1>3, ServerTakes
  <2>2. /\ Answered(d)' <=> Answered(d)
        /\ DataBefore(d)' <=> DataBefore(d)
        /\ DataBehind(d)' <=> DataBehind(d)
    BY <1>3, QueuesStay
  <2> QED BY <1>0, <1>1, <1>2, <2>1, <2>2 DEF Fine, InStep, UpInv, DownInv
<1>4. CASE s2c # <<>> /\ s2c' = Tail(s2c) /\ UNCHANGED c2s
  <2>1. /\ Asked(d)' <=> Asked(d)
        /\ DataUp(d)' <=> DataUp(d)
        /\ UpInOrder(d)' <=> UpInOrder(d)
    BY <1>4, QueuesStay
  <2>2. /\ Answered(d)' => Answered(d)
        /\ DataBehind(d)' => DataBehind(d)
        /\ DataBefore(d)' => DataBehind(d) \/ DataBefore(d)
    BY <1>4, ClientTakes
  <2>3. DataBehind(d) => sTold[d] = "open"
    BY <1>0 DEF Fine, DownInv, Single
  <2> QED BY <1>0, <1>1, <1>2, <2>1, <2>2, <2>3 DEF Fine, InStep, UpInv, DownInv
<1> QED BY <1>3, <1>4 DEF Lose

(* The first fault is that a program begins anew: with nothing under way   *)
(* the two were told the same, and one of them still knows.                *)
LEMMA RestartFine ==
  ASSUME MaxFaults \in {0, 1} \/ MaxRestarts = 0, SessionInv, DataInv,
         RestartClient \/ RestartServer, NEW d \in Terminals
  PROVE  Fine(d)'
<1>0. /\ Single(d) /\ Fine(d) /\ faults \in Nat /\ restarts \in 0 .. faults
      /\ (faults = 0 => gone = {}) /\ d \in Dlci /\ d \in 0 .. MaximumDlci
  BY SingleHolds, DataOfFacts DEF DataInv, Fine
<1>1. /\ faults = 0 /\ restarts = 0 /\ faults' = 1 /\ restarts' = 1
      /\ UnderWay(d) = 0
  <2>1. /\ faults < MaxFaults /\ restarts < MaxRestarts /\ UnderWay(d) = 0
        /\ faults' = faults + 1 /\ restarts' = restarts + 1
    BY <1>0 DEF RestartClient, RestartServer, Restarts
  <2> QED BY <1>0, <2>1
<1>2. ~Asked(d) /\ ~Handled(d) /\ ~Answered(d)
  BY <1>1, InPlaceUnderWay
<1>3. goal[d] = cTold[d] /\ sTold[d] = goal[d] /\ ~DataBehind(d)
  BY <1>0, <1>1, <1>2 DEF Single, Fine, InStep
<1>4. UNCHANGED <<c2s, s2c, sCalls>>
  BY DEF RestartClient, RestartServer, Client!Renew, Server!Renew, cvars, svars
<1>5. /\ Asked(d)' <=> Asked(d)
      /\ DataUp(d)' <=> DataUp(d)
      /\ UpInOrder(d)' <=> UpInOrder(d)
      /\ Answered(d)' <=> Answered(d)
      /\ DataBefore(d)' <=> DataBefore(d)
      /\ DataBehind(d)' <=> DataBehind(d)
      /\ Handled(d)' <=> Handled(d)
      /\ Pending(d)' <=> Pending(d)
  BY <1>4, QueuesStay
<1>6. CASE RestartClient
  <2>1. sTold' = sTold
    BY <1>6 DEF RestartClient, svars
  <2> QED BY <1>0, <1>1, <1>2, <1>3, <1>5, <2>1 DEF Fine, InStep, UpInv, DownInv
<1>7. CASE RestartServer
  <2>1. cTold' = cTold /\ goal' = goal
    BY <1>7 DEF RestartServer, cvars
  <2> QED BY <1>0, <1>1, <1>2, <1>3, <1>5, <2>1 DEF Fine, InStep, UpInv, DownInv
<1> QED BY <1>6, <1>7

(* The client takes a frame: with the answer its program is told, so that  *)
(* the data behind it comes to a terminal that it knows is open.           *)
LEMMA ClientIngestFine ==
  ASSUME SessionInv, DataInv, ClientIngest, UNCHANGED <<goal, faults, restarts>>,
         NEW d \in Terminals
  PROVE  Fine(d)'
<1> DEFINE f == Head(s2c)
<1>0. /\ Single(d) /\ Fine(d) /\ faults \in Nat /\ d \in Dlci /\ d # 0
      /\ TypeInv /\ QueueInv /\ ClientKnows /\ OneOutstanding
      /\ goal \in [Dlci -> States]
  BY SingleHolds, DataOfFacts DEF DataInv, Fine, SessionInv, TypeInv
<1>1. /\ s2c # <<>> /\ Client!OnControlMessage(f) /\ s2c' = Tail(s2c)
      /\ UNCHANGED <<c2s, sCalls, sTold>>
  BY DEF ClientIngest, svars, Client!OnControlMessage
<1>2. f \in ServerFrame
  BY <1>0, <1>1, HeadTailProperties DEF QueueInv
<1>3. /\ Answered(d)' => Answered(d)
      /\ f \in Answers(d) => Answered(d)
      /\ DataBehind(d)' => DataBehind(d)
      /\ DataBefore(d)' => IF f \in Answers(d) THEN DataBehind(d) ELSE DataBefore(d)
  BY <1>1, ClientTakes
<1>4. cTold'[d] = IF f \in Answers(d) THEN goal[d] ELSE cTold[d]
  <2>1. CASE f \in Data
    <3>1. f.dlci \in Dlci /\ f.dlci # 0 /\ f \notin Answers(d)
      BY <1>0, <2>1, DataFacts DEF Terminals
    <3>2. \E l, r : cTold' = [cTold EXCEPT ![f.dlci] = Client!ToldTerminal(f, l, r)]
      BY <1>1, <3>1, FrameNames, DlciFacts DEF Client!OnControlMessage
    <3>3. cTold' = cTold
      BY <1>0, <2>1, <3>2, DataFacts DEF TypeInv
    <3> QED BY <3>1, <3>3
  <2>2. ASSUME NEW e \in Heard, f = AnswerFor(e, goal[e])
        PROVE  cTold'[d] = IF f \in Answers(d) THEN goal[d] ELSE cTold[d]
    <3>1. e \in Dlci /\ goal[e] \in States /\ e \in Slots /\ Allowed(e)
      BY <1>0, DlciFacts DEF Heard
    <3>2. f.dlci = e /\ (f \in Answers(d) <=> d = e)
      BY <1>0, <2>2, <3>1, AnswerFacts
    <3>3. CASE e = 0
      <4>1. cTold' = cTold
        BY <1>1, <3>1, <3>2, <3>3, FrameNames DEF Client!OnControlMessage
      <4> QED BY <1>0, <3>2, <3>3, <4>1
    <3>4. CASE e # 0
      <4>1. cTold' = [cTold EXCEPT ![e] = Client!ToldTerminal(f, cLast[e], cOptions[e])]
        BY <1>1, <3>1, <3>2, <3>4, FrameNames DEF Client!OnControlMessage, Element
      <4>2. CASE d # e
        BY <1>0, <3>2, <4>1, <4>2 DEF TypeInv
      <4>3. CASE d = e
        <5>1. goal[d] # cTold[d] /\ cTold[d] \in States
          BY <1>0, <1>3, <3>2, <4>3 DEF Single
        <5>2. cLast[d] = RequestFor(d, goal[d]).type /\ cOptions[d] = TRUE
          <6>1. cOptions[d] \in BOOLEAN
            BY <1>0, <3>1, <4>3 DEF TypeInv
          <6> QED BY <1>0, <5>1, <6>1 DEF ClientKnows, States, Single
        <5>3. Client!ToldTerminal(f, cLast[e], cOptions[e]) = goal[d]
          BY <1>0, <2>2, <3>1, <4>3, <5>2, AnswerTells
        <5>4. d \in 0 .. MaximumDlci
          BY DataOfFacts
        <5> QED BY <1>0, <3>2, <4>1, <4>3, <5>3, <5>4 DEF TypeInv
      <4> QED BY <4>2, <4>3
    <3> QED BY <3>3, <3>4
  <2> QED BY <1>2, <2>1, <2>2 DEF ServerFrame
<1> HIDE DEF f
<1>5. /\ Asked(d)' <=> Asked(d)
      /\ DataUp(d)' <=> DataUp(d)
      /\ UpInOrder(d)' <=> UpInOrder(d)
      /\ Handled(d)' <=> Handled(d)
      /\ Pending(d)' <=> Pending(d)
  BY <1>1, QueuesStay
<1>6. sTold'[d] = sTold[d] /\ goal'[d] = goal[d] /\ faults' = faults /\ restarts' = restarts
  BY <1>1
<1>7. CASE f \notin Answers(d)
  <2>1. cTold'[d] = cTold[d]
    BY <1>4, <1>7
  <2> QED BY <1>0, <1>3, <1>5, <1>6, <1>7, <2>1 DEF Fine, InStep, UpInv, DownInv
<1>8. CASE f \in Answers(d)
  <2>1. /\ cTold'[d] = goal[d] /\ sTold[d] = goal[d]
        /\ ~Asked(d) /\ ~Handled(d) /\ ~Pending(d) /\ ~DataUp(d)
    BY <1>0, <1>3, <1>4, <1>8 DEF Single, Fine, UpInv
  <2> QED BY <1>0, <1>3, <1>5, <1>6, <1>8, <2>1 DEF Fine, InStep, UpInv, DownInv
<1> QED BY <1>7, <1>8

(* What on_event returns to is about the multiplexer. *)
LEMMA ClientReturnFine ==
  ASSUME SessionInv, DataInv, ClientReturn, UNCHANGED <<goal, faults, restarts>>,
         NEW d \in Terminals
  PROVE  Fine(d)'
<1>1. /\ \E s : cTold' = [cTold EXCEPT ![0] = s]
      /\ UNCHANGED <<sTold, c2s, s2c, sCalls>>
  BY DEF ClientReturn, Client!EventReturn, svars
<1>2. cTold'[d] = cTold[d]
  BY <1>1, DataOfFacts DEF SessionInv, TypeInv
<1> QED BY <1>1, <1>2, FineStays DEF DataInv, Fine

(* The last element of a stack is replaced. *)
LEMMA LastReplaced ==
  ASSUME NEW T, NEW s \in Seq(T), s # <<>>, NEW c \in T
  PROVE  [s EXCEPT ![Len(s)] = c] = Append(Front(s), c)
<1> DEFINE u == [s EXCEPT ![Len(s)] = c]
           v == Append(Front(s), c)
<1>1. /\ Front(s) \in Seq(T) /\ Len(s) \in Nat \ {0} /\ Len(Front(s)) = Len(s) - 1
      /\ \A i \in 1 .. Len(s) - 1 : Front(s)[i] = s[i]
  BY FrontProperties
<1>2. /\ v \in Seq(T) /\ Len(v) = (Len(s) - 1) + 1 /\ v[(Len(s) - 1) + 1] = c
      /\ \A i \in 1 .. Len(s) - 1 : v[i] = Front(s)[i]
  BY <1>1, AppendProperties
<1>3. /\ u \in Seq(T) /\ Len(u) = Len(s)
      /\ \A i \in 1 .. Len(s) : u[i] = IF i = Len(s) THEN c ELSE s[i]
  BY <1>1, ExceptSeq
<1> HIDE DEF u, v
<1>4. Len(u) = Len(v) /\ \A i \in 1 .. Len(u) : u[i] = v[i]
  BY <1>1, <1>2, <1>3
<1>5. u = v
  BY <1>2, <1>3, <1>4, SeqEqual
<1> QED BY <1>5 DEF u, v

(* The server takes a frame: behind a request there is no data of its      *)
(* terminal.                                                               *)
LEMMA ServerIngestFine ==
  ASSUME SessionInv, DataInv, ServerIngest, UNCHANGED <<goal, faults, restarts>>,
         NEW d \in Terminals
  PROVE  Fine(d)'
<1> DEFINE f == Head(c2s)
           c == [frame |-> f, stage |-> "event"]
<1>0. /\ Fine(d) /\ d \in Dlci /\ goal \in [Dlci -> States]
      /\ c2s \in Seq(ClientFrame) /\ sCalls \in Seq(ServerCall)
  BY WireOfFrames, DataOfFacts DEF DataInv, Fine, SessionInv, TypeInv, QueueInv
<1>1. /\ c2s # <<>> /\ Server!OnControlMessage(f) /\ c2s' = Tail(c2s)
      /\ UNCHANGED <<cTold, sTold, s2c>>
  BY DEF ServerIngest, cvars, Server!OnControlMessage
<1>2. f \in Frame /\ f.dlci \in Dlci
  <2>1. f \in ClientFrame
    BY <1>0, <1>1, HeadTailProperties
  <2>2. CASE f \in Data
    BY <2>2, DataFacts
  <2>3. ASSUME NEW e \in Dlci, f = RequestFor(e, goal[e])
        PROVE  f \in Frame /\ f.dlci \in Dlci
    <3>1. goal[e] \in States
      BY <1>0
    <3> QED BY <2>3, <3>1, RequestFacts
  <2> QED BY <2>1, <2>2, <2>3 DEF ClientFrame
<1>3. sCalls' = Append(sCalls, c)
  BY <1>1, <1>2, FrameNames, DlciFacts DEF Server!OnControlMessage
<1>4. /\ Asked(d) <=> Asked(d)' \/ f \in Requests(d)
      /\ DataUp(d)' => DataUp(d)
      /\ UpInOrder(d) => UpInOrder(d)'
      /\ UpInOrder(d) /\ f \in Requests(d) => ~DataUp(d)'
  BY <1>1, ServerTakes
<1>5. c \in ServerCall /\ c.stage = "event" /\ c.frame = f
  BY <1>2 DEF ServerCall
<1> HIDE DEF c, f
<1>6. /\ c \in Handling(d) <=> f \in Requests(d)
      /\ c \in Asking(d) <=> f \in Requests(d)
  BY <1>5 DEF Handling, Asking
<1>7. Holds(sCalls', Handling(d)) <=> Holds(sCalls, Handling(d)) \/ c \in Handling(d)
  BY <1>0, <1>3, <1>5, QueueGrows
<1>8. Holds(sCalls', Asking(d)) <=> Holds(sCalls, Asking(d)) \/ c \in Asking(d)
  BY <1>0, <1>3, <1>5, QueueGrows
<1>9. /\ Handled(d)' <=> Handled(d) \/ f \in Requests(d)
      /\ Pending(d)' <=> Pending(d) \/ f \in Requests(d)
  BY <1>6, <1>7, <1>8 DEF Handled, Pending, Handling, Asking
<1>10. /\ Answered(d)' <=> Answered(d)
       /\ DataBefore(d)' <=> DataBefore(d)
       /\ DataBehind(d)' <=> DataBehind(d)
  BY <1>1, QueuesStay
<1>11. /\ cTold'[d] = cTold[d] /\ sTold'[d] = sTold[d] /\ goal'[d] = goal[d]
       /\ faults' = faults /\ restarts' = restarts
  BY <1>1
<1>12. InStep(d)'
  BY <1>0, <1>4, <1>9, <1>11 DEF Fine, InStep
<1>13. UpInv(d)'
  BY <1>0, <1>4, <1>9, <1>10, <1>11 DEF Fine, UpInv
<1>14. DownInv(d)'
  BY <1>0, <1>10, <1>11 DEF Fine, DownInv
<1> QED BY <1>12, <1>13, <1>14 DEF Fine

(* on_event returns: of a request the server's program is told, when there *)
(* is no data of its terminal on the way up; it was sent before.           *)
LEMMA ServerEventReturnFine ==
  ASSUME SessionInv, DataInv, ServerEventReturn, UNCHANGED <<goal, faults, restarts>>,
         NEW d \in Terminals
  PROVE  Fine(d)'
<1> DEFINE k == Last(sCalls)
           f == k.frame
           rest == Front(sCalls)
<1>0. /\ Single(d) /\ Fine(d) /\ faults \in Nat /\ d \in Dlci /\ d # 0
      /\ TypeInv /\ QueueInv /\ ServerKnows /\ OneOutstanding
      /\ goal \in [Dlci -> States] /\ sCalls \in Seq(ServerCall)
      /\ sTold \in [0 .. MaximumDlci -> States] /\ d \in 0 .. MaximumDlci
  BY SingleHolds, WireOfFrames, DataOfFacts DEF DataInv, Fine, SessionInv, TypeInv
<1>1. /\ sCalls # <<>> /\ Server!EventReturn /\ k.stage = "event"
      /\ UNCHANGED <<cTold, c2s, s2c, sOptions>>
  BY StackNames DEF ServerEventReturn, cvars, Server!EventReturn
<1>2. /\ rest \in Seq(ServerCall) /\ k \in ServerCall /\ f \in ClientFrame
      /\ sCalls = Append(rest, k) /\ k = sCalls[Len(sCalls)]
  <2>1. sCalls \in Seq(ServedCall)
    BY <1>0 DEF QueueInv
  <2>2. k \in ServedCall
    BY <1>1, <2>1, FrontProperties
  <2> QED BY <1>0, <1>1, <2>2, FrontProperties DEF ServedCall
<1>3. /\ Holds(sCalls, Handling(d)) <=> Holds(rest, Handling(d)) \/ k \in Handling(d)
      /\ Holds(sCalls, Asking(d)) <=> Holds(rest, Asking(d)) \/ k \in Asking(d)
  BY <1>0, <1>1, StackHolds
<1>4. /\ Asked(d)' <=> Asked(d)
      /\ DataUp(d)' <=> DataUp(d)
      /\ UpInOrder(d)' <=> UpInOrder(d)
      /\ Answered(d)' <=> Answered(d)
      /\ DataBefore(d)' <=> DataBefore(d)
      /\ DataBehind(d)' <=> DataBehind(d)
  BY <1>1, QueuesStay
<1>5. cTold'[d] = cTold[d] /\ goal'[d] = goal[d] /\ faults' = faults /\ restarts' = restarts
  BY <1>1
<1>6. ASSUME sTold'[d] = sTold[d], Handled(d)' => Handled(d), Pending(d)' => Pending(d)
      PROVE  Fine(d)'
  BY <1>0, <1>4, <1>5, <1>6 DEF Fine, InStep, UpInv, DownInv
<1>7. CASE f \in Data
  <2>1. Server!Replies(f) = <<>>
    BY <1>7, DataFacts
  <2> HIDE DEF f
  <2>2. sCalls' = rest /\ sTold' = sTold
    BY <1>1, <1>2, <2>1, StackNames DEF Server!EventReturn, f
  <2>3. (Handled(d)' => Handled(d)) /\ (Pending(d)' => Pending(d))
    BY <1>3, <2>2 DEF Handled, Pending, Handling, Asking
  <2> QED BY <1>6, <2>2, <2>3
<1>8. ASSUME NEW e \in Dlci, f = RequestFor(e, goal[e])
      PROVE  Fine(d)'
  <2> DEFINE n == Len(sCalls)
             c == [frame |-> f, stage |-> "callback"]
  <2>1. goal[e] \in States /\ e \in Slots /\ e \in 0 .. MaximumDlci
    BY <1>0, DlciFacts
  <2>2. /\ f \in Frame /\ f.dlci = e /\ (f \in Requests(d) <=> d = e)
        /\ f \in Requests(e)
        /\ Server!Replies(f) # <<>> /\ Server!Tells(f) = goal[e]
    <3> HIDE DEF f
    <3> QED BY <1>0, <1>8, <2>1, RequestFacts, SMTT(30)
  <2>3. e = 0 \/ sOptions[e] = TRUE
    <3>1. n \in Nat \ {0}
      BY <1>0, <1>1, FrontProperties
    <3>2. \E i \in 1 .. Len(sCalls) : sCalls[i] \in Handling(e)
      BY <1>2, <2>2, <3>1 DEF Handling
    <3>3. goal[e] # cTold[e]
      BY <1>0, <3>2, SomethingUnderWay, Outstanding
    <3>4. cTold[e] \in States
      BY <1>0, <2>1 DEF TypeInv
    <3> QED BY <1>0, <2>1, <3>3, <3>4 DEF ServerKnows, Terminals, TypeInv, States
  <2>4. /\ sCalls' = [sCalls EXCEPT ![n].stage = "callback"]
        /\ sTold' = [sTold EXCEPT ![e] = goal[e]]
    BY <1>1, <1>2, <2>1, <2>2, <2>3, StackNames, FrameNames
       DEF Server!EventReturn, Element
  <2>5. c \in ServerCall /\ c.frame = f /\ c.stage = "callback"
    BY <2>2 DEF ServerCall
  <2>6. sCalls' = Append(rest, c)
    <3>1. k = sCalls[n] /\ [k EXCEPT !.stage = "callback"] = c
      BY <1>2 DEF ServerCall
    <3> HIDE DEF c, k
    <3>2. [sCalls[n] EXCEPT !.stage = "callback"] = c
      BY <3>1
    <3>3. sCalls' = [sCalls EXCEPT ![n] = c]
      BY <2>4, <3>2
    <3> QED BY <1>0, <1>1, <2>5, <3>3, LastReplaced
  <2> HIDE DEF c, f, k
  <2>7. /\ Holds(sCalls', Handling(d)) <=> Holds(rest, Handling(d)) \/ c \in Handling(d)
        /\ Holds(sCalls', Asking(d)) <=> Holds(rest, Asking(d)) \/ c \in Asking(d)
    BY <1>2, <2>5, <2>6, QueueGrows, SMTT(30)
  <2>8. c \notin Asking(d) /\ (c \in Handling(d) <=> d = e) /\ (k \in Handling(d) <=> d = e)
    BY <1>2, <2>2, <2>5 DEF Asking, Handling, f
  <2>9. /\ Handled(d)' <=> Holds(rest, Handling(d)) \/ d = e
        /\ Handled(d) <=> Holds(rest, Handling(d)) \/ d = e
        /\ Pending(d)' <=> Holds(rest, Asking(d))
        /\ Holds(rest, Asking(d)) => Pending(d)
        /\ Holds(rest, Asking(d)) => Holds(rest, Handling(d))
    <3>1. Holds(rest, Asking(d)) => Holds(rest, Handling(d))
      BY DEF Holds, Asking
    <3> QED BY <1>3, <2>7, <2>8, <3>1 DEF Handled, Pending, Handling, Asking
  <2>10. CASE d # e
    <3>1. sTold'[d] = sTold[d]
      BY <1>0, <2>4, <2>10
    <3> QED BY <1>6, <2>9, <2>10, <3>1
  <2>11. CASE d = e
    <3>1. ~Pending(d)'
      BY <1>1, <2>8, <2>9, <2>11, OnlyCall DEF k
    <3>2. Handled(d) /\ ~Asked(d) /\ ~Answered(d) /\ ~DataUp(d) /\ goal[d] # cTold[d]
      BY <1>0, <2>9, <2>11 DEF Single, Fine, UpInv
    <3>3. sTold'[d] = goal[d]
      BY <1>0, <2>4, <2>11
    <3>4. InStep(d)' /\ UpInv(d)'
      BY <1>0, <1>4, <1>5, <3>1, <3>2, <3>3 DEF Fine, InStep, UpInv
    <3>5. DownInv(d)'
      BY <1>0, <1>4, <1>5, <3>2, <3>3 DEF Fine, DownInv, Single, States
    <3> QED BY <3>4, <3>5 DEF Fine
  <2> QED BY <2>10, <2>11
<1> QED BY <1>2, <1>7, <1>8 DEF ClientFrame

(* The server's callback returns and the answer goes out. *)
LEMMA ServerCallbackReturnFine ==
  ASSUME SessionInv, DataInv, ServerCallbackReturn, UNCHANGED <<goal, faults, restarts>>,
         NEW d \in Terminals
  PROVE  Fine(d)'
<1> DEFINE k == Last(sCalls)
           f == k.frame
<1>0. /\ Single(d) /\ Fine(d) /\ d \in Dlci /\ d # 0
      /\ goal \in [Dlci -> States] /\ sCalls \in Seq(ServerCall)
      /\ sCalls \in Seq(ServedCall)
  BY SingleHolds, WireOfFrames, DataOfFacts
     DEF DataInv, Fine, SessionInv, TypeInv, QueueInv
<1>1. /\ sCalls # <<>> /\ k.stage = "callback" /\ sCalls' = Front(sCalls)
      /\ Server!SendFrame(Server!Replies(f)[1])
      /\ UNCHANGED <<cTold, c2s, sTold>>
  BY StackNames DEF ServerCallbackReturn, cvars, Server!CallbackReturn
<1>2. k \in ServedCall
  BY <1>0, <1>1, FrontProperties
<1>3. PICK e \in Heard : f = RequestFor(e, goal[e])
  BY <1>1, <1>2 DEF ServedCall
<1>4. e \in Dlci /\ goal[e] \in States /\ Allowed(e)
  BY <1>0, DlciFacts DEF Heard
<1> DEFINE y == AnswerFor(e, goal[e])
<1>5. /\ Server!Replies(f)[1] = y /\ (f \in Requests(d) <=> d = e)
  BY <1>0, <1>3, <1>4, RequestFacts
<1>6. y \in Frame /\ y.dlci = e /\ (y \in Answers(d) <=> d = e) /\ y # DataOf(d)
  <2>1. y \in Answers(e)
    BY <1>4, AnswerFacts
  <2> QED BY <1>0, <1>4, <2>1, AnswerFacts, DataOfFacts
<1> HIDE DEF y
<1>7. s2c' = Append(s2c, y)
  BY <1>1, <1>4, <1>5, <1>6, ServerSendsFrame
<1>8. /\ Answered(d)' <=> Answered(d) \/ d = e
      /\ DataBefore(d)' <=> DataBefore(d)
      /\ DataBehind(d)' <=> DataBehind(d)
  BY <1>6, <1>7, ServerSends
<1>9. /\ Handled(d)' => Handled(d)
      /\ Pending(d)' => Pending(d)
      /\ d = e => Handled(d)
  <2>1. /\ Holds(sCalls, Handling(d)) <=> Holds(Front(sCalls), Handling(d)) \/ k \in Handling(d)
        /\ Holds(sCalls, Asking(d)) <=> Holds(Front(sCalls), Asking(d)) \/ k \in Asking(d)
    BY <1>0, <1>1, StackHolds
  <2>2. d = e => k \in Handling(d)
    BY <1>2, <1>5 DEF Handling, ServedCall
  <2> QED BY <1>1, <2>1, <2>2 DEF Handled, Pending, Handling, Asking
<1>10. /\ Asked(d)' <=> Asked(d)
       /\ DataUp(d)' <=> DataUp(d)
       /\ UpInOrder(d)' <=> UpInOrder(d)
  BY <1>1, QueuesStay
<1>11. /\ cTold'[d] = cTold[d] /\ sTold'[d] = sTold[d] /\ goal'[d] = goal[d]
       /\ faults' = faults /\ restarts' = restarts
  BY <1>1
<1>12. d = e => ~DataUp(d)
  BY <1>0, <1>9 DEF Fine, UpInv
<1> QED BY <1>0, <1>8, <1>9, <1>10, <1>11, <1>12 DEF Fine, InStep, UpInv, DownInv

----------------------------------------------------------------------------
LEMMA InitDataInv == Init => DataInv
<1> SUFFICES ASSUME Init PROVE DataInv
  OBVIOUS
<1>1. /\ c2s = <<>> /\ s2c = <<>> /\ sCalls = <<>> /\ faults = 0 /\ restarts = 0
      /\ gone = {}
      /\ goal = [d \in Dlci |-> "closed"]
      /\ sTold = [d \in 0 .. MaximumDlci |-> "closed"]
  BY DEF Init, LinkInit, Client!Init, Server!Init
<1>2. Len(c2s) = 0 /\ Len(s2c) = 0 /\ Len(sCalls) = 0
  BY <1>1
<1>3. ASSUME NEW d \in Terminals PROVE Fine(d)
  <2>1. d \in Dlci /\ d \in 0 .. MaximumDlci
    BY DataOfFacts
  <2>2. ~Asked(d) /\ ~Pending(d) /\ ~DataUp(d)
    BY <1>2 DEF Asked, Pending, DataUp, Holds
  <2>3. UpInOrder(d) /\ ~DataBehind(d) /\ ~DataBefore(d)
    BY <1>2 DEF UpInOrder, DataBehind, DataBefore, FreeAhead, Clear
  <2> QED BY <1>1, <2>1, <2>2, <2>3 DEF Fine, InStep, UpInv, DownInv
<1> QED BY <1>1, <1>3 DEF DataInv, Fine

(* Of what was lost is known only after a loss. *)
LEMMA GoneStep ==
  ASSUME DataInv, [Next]_vars
  PROVE  faults' \in Nat /\ restarts' \in 0 .. faults' /\ (faults' = 0 => gone' = {})
<1>0. faults \in Nat /\ restarts \in 0 .. faults /\ (faults = 0 => gone = {})
  BY DEF DataInv
<1>1. CASE Lose \/ RestartClient \/ RestartServer
  <2>1. faults' = faults + 1 /\ restarts' \in {restarts, restarts + 1}
    BY <1>1 DEF Lose, LoseFrom, RestartClient, RestartServer, Restarts
  <2> QED BY <1>0, <2>1
<1>2. CASE \E d \in Dlci : Retry(d)
  <2>1. faults' = faults /\ restarts' = restarts /\ gone' \subseteq gone
    BY <1>2 DEF Retry
  <2> QED BY <1>0, <2>1
<1>3. CASE faults' = faults /\ restarts' = restarts /\ gone' = gone
  BY <1>0, <1>3
<1> QED
  BY <1>1, <1>2, <1>3
     DEF Next, Start, Stop, Open, Close, ClientAsks, Send, Register, ServerSend,
         Deliver, vars

LEMMA DataStep ==
  ASSUME MaxFaults \in {0, 1} \/ MaxRestarts = 0
  PROVE  SessionInv /\ DataInv /\ [Next]_vars => DataInv'
<1> SUFFICES ASSUME SessionInv, DataInv, [Next]_vars PROVE DataInv'
  OBVIOUS
<1>1. ASSUME NEW d \in Terminals PROVE Fine(d)'
  <2>1. CASE UNCHANGED vars
    BY <2>1, FineStays DEF DataInv, Fine, vars, lvars
  <2>2. CASE Deliver
    BY <2>2, ClientIngestFine, ClientReturnFine, ServerIngestFine,
       ServerEventReturnFine, ServerCallbackReturnFine DEF Deliver, Handlers
  <2> QED
    BY <2>1, <2>2, ClientRequestFine, SendFine, RegisterFine, ServerSendFine,
       LoseFine, RestartFine DEF Next
<1>2. faults' \in Nat /\ restarts' \in 0 .. faults' /\ (faults' = 0 => gone' = {})
  BY GoneStep
<1> QED BY <1>1, <1>2 DEF DataInv, Fine

LEMMA DataInvariance ==
  MaxFaults \in {0, 1} \/ MaxRestarts = 0 => (Spec => []DataInv)
<1> SUFFICES ASSUME MaxFaults \in {0, 1} \/ MaxRestarts = 0 PROVE Spec => []DataInv
  OBVIOUS
<1>1. Init => DataInv
  BY InitDataInv
<1>2. SessionInv /\ DataInv /\ [Next]_vars => DataInv'
  BY DataStep
<1> QED BY <1>1, <1>2, SessionInvariance, PTL DEF Spec

(* Data comes to the server only for terminals that its program was told   *)
(* are open; after the first fault, for those that the client's program    *)
(* was told are: no DISC overtakes data, and the UA that lets the client   *)
(* send goes out after on_terminal_open.                                   *)
THEOREM ServerGetsDataWhenOpen ==
  ASSUME MaxFaults \in {0, 1} \/ MaxRestarts = 0
  PROVE  Spec => ServerDataWhenOpen
<1> DEFINE Right == \A d \in Terminals :
             ServerData(d) => sTold[d] = "open" \/ (restarts > 0 /\ cTold[d] = "open")
<1>1. SessionInv /\ DataInv => Right
  <2> SUFFICES ASSUME SessionInv, DataInv, NEW d \in Terminals, ServerData(d)
               PROVE  sTold[d] = "open" \/ (restarts > 0 /\ cTold[d] = "open")
    OBVIOUS
  <2>0. /\ d \in Dlci /\ goal \in [Dlci -> States] /\ c2s \in Seq(ClientFrame)
        /\ c2s # <<>> /\ Head(c2s).type = "UIH" /\ Head(c2s).dlci = d /\ d # 0
        /\ UpInv(d) /\ restarts \in 0 .. faults
    BY DataOfFacts
       DEF SessionInv, TypeInv, QueueInv, DataInv, ServerData, ServerIngest
  <2>1. Head(c2s) \in ClientFrame /\ Head(c2s) = c2s[1] /\ 1 \in 1 .. Len(c2s)
    <3>1. Len(c2s) \in Nat \ {0} /\ Head(c2s) \in ClientFrame /\ Head(c2s) = c2s[1]
      BY <2>0, HeadTailProperties, EmptySeq, LenProperties
    <3> QED BY <3>1
  <2>2. Head(c2s) \in Data
    <3> SUFFICES ASSUME NEW e \in Dlci, Head(c2s) = RequestFor(e, goal[e]) PROVE FALSE
      BY <2>1 DEF ClientFrame
    <3>1. goal[e] \in States
      BY <2>0
    <3>2. e = d
      BY <2>0, <3>1, RequestFacts
    <3> QED BY <2>0, <3>2 DEF RequestFor, Mk
  <2>3. Head(c2s) = DataOf(d)
    BY <2>0, <2>2, DataOfFacts
  <2>4. DataUp(d)
    BY <2>1, <2>3 DEF DataUp, Holds
  <2> QED BY <2>0, <2>4 DEF UpInv
<1>2. Spec => []DataInv
  BY DataInvariance
<1> HIDE DEF Right
<1>3. Right => [Right]_vars
  OBVIOUS
<1>4. Spec => [][Right]_vars
  BY <1>1, <1>2, <1>3, SessionInvariance, PTL
<1> QED BY <1>4 DEF ServerDataWhenOpen, Right

(* The client's program gets data only of terminals it was told are open;  *)
(* after the first fault, of those that the server's program was told are: *)
(* the answer is ahead of the data that its program sends.                 *)
THEOREM ClientGetsDataWhenOpen ==
  ASSUME MaxFaults \in {0, 1} \/ MaxRestarts = 0
  PROVE  Spec => ClientDataWhenOpen
<1> DEFINE Right == \A d \in Terminals :
             ClientData(d) => cTold[d] = "open" \/ (faults > 0 /\ sTold[d] = "open")
<1>1. SessionInv /\ DataInv => Right
  <2> SUFFICES ASSUME SessionInv, DataInv, NEW d \in Terminals, ClientData(d)
               PROVE  cTold[d] = "open" \/ (faults > 0 /\ sTold[d] = "open")
    OBVIOUS
  <2>0. /\ d \in Dlci /\ goal \in [Dlci -> States] /\ s2c \in Seq(ServerFrame)
        /\ s2c # <<>> /\ Head(s2c).type = "UIH" /\ Head(s2c).dlci = d /\ d # 0
        /\ DownInv(d) /\ faults \in Nat
    BY DataOfFacts
       DEF SessionInv, TypeInv, QueueInv, DataInv, ClientData, ClientIngest
  <2>1. Head(s2c) \in ServerFrame
    BY <2>0, HeadTailProperties
  <2>2. Head(s2c) \in Data
    <3> SUFFICES ASSUME NEW e \in Dlci, Head(s2c) = AnswerFor(e, goal[e]) PROVE FALSE
      BY <2>1 DEF ServerFrame, Heard
    <3>1. goal[e] \in States
      BY <2>0
    <3>2. e = d
      BY <2>0, <3>1, AnswerFacts
    <3> QED BY <2>0, <3>2 DEF AnswerFor, Mk
  <2>3. Head(s2c) = DataOf(d)
    BY <2>0, <2>2, DataOfFacts
  <2>4. DataBefore(d)
    <3>1. s2c \in Seq(Frame)
      BY WireOfFrames
    <3>2. Clear(s2c, Answers(d), DataOf(d))
      BY <2>0, <2>3, <3>1, QueueMoves
    <3> QED BY <3>2 DEF DataBefore
  <2> QED BY <2>0, <2>4 DEF DownInv
<1>2. Spec => []DataInv
  BY DataInvariance
<1> HIDE DEF Right
<1>3. Right => [Right]_vars
  OBVIOUS
<1>4. Spec => [][Right]_vars
  BY <1>1, <1>2, <1>3, SessionInvariance, PTL
<1> QED BY <1>4 DEF ClientDataWhenOpen, Right
=============================================================================
