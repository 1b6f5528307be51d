----------------------------- MODULE LinkProofs -----------------------------
(***************************************************************************)
(* Facts about the queues of frames and the stacks of handler calls of     *)
(* module CmuxLink, which the proofs about FreeLink and Session share: how *)
(* each operation on them changes a count.                                 *)
(***************************************************************************)
EXTENDS CmuxLink, SequenceTheorems, FiniteSetTheorems, TLAPS

(* The definitions of CmuxFrame mean the same to both instances. *)
LEMMA FrameNames ==
  /\ Client!Slots = Slots /\ Server!Slots = Slots
  /\ Client!LastTypes = LastTypes /\ Server!LastTypes = LastTypes
  /\ Client!CloseDown = CloseDown /\ Server!CloseDown = CloseDown
  /\ \A d : (Client!Allowed(d) <=> Allowed(d)) /\ (Server!Allowed(d) <=> Allowed(d))
  /\ \A t, d, b : Client!Mk(t, d, b) = Mk(t, d, b) /\ Server!Mk(t, d, b) = Mk(t, d, b)
  /\ \A v, d, s : /\ Client!Element(v, d, s) = Element(v, d, s)
                  /\ Server!Element(v, d, s) = Element(v, d, s)
BY DEF Slots, Client!Slots, Server!Slots, LastTypes, Client!LastTypes,
       Server!LastTypes, Types, Client!Types, Server!Types, CloseDown,
       Client!CloseDown, Server!CloseDown, Allowed, Client!Allowed,
       Server!Allowed, Mk, Client!Mk, Server!Mk, Element, Client!Element,
       Server!Element

(* So do those of SequencesExt. *)
LEMMA StackNames ==
  \A s : /\ Client!Front(s) = Front(s) /\ Server!Front(s) = Front(s)
         /\ Client!Last(s) = Last(s) /\ Server!Last(s) = Last(s)
BY DEF Front, Client!Front, Server!Front, Last, Client!Last, Server!Last

(* The replies of the server, arm by arm. *)
LEMMA RepliesCases ==
  ASSUME NEW f
  PROVE  /\ f.type = "SABM" => Server!Replies(f) = <<Mk("UA", f.dlci, "none")>>
         /\ f.type = "DISC" /\ f.dlci # 0 =>
              Server!Replies(f) = <<Mk("UA", f.dlci, "none")>>
         /\ f.type = "UIH" /\ f.dlci = 0 /\ f.body \in CloseDown =>
              Server!Replies(f) = <<Mk("UIH", 0, "closedDown")>>
         /\ (/\ f.type # "SABM" /\ ~(f.type = "DISC" /\ f.dlci # 0)
             /\ ~(f.type = "UIH" /\ f.dlci = 0 /\ f.body \in CloseDown)) =>
              Server!Replies(f) = <<>>
BY FrameNames DEF Server!Replies

(* Where the elements of S are in s. *)
Places(s, S) == {i \in 1 .. Len(s) : s[i] \in S}

(* They are finitely many, and Count is how many they are. *)
LEMMA CountIsPlaces ==
  ASSUME NEW T, NEW s \in Seq(T), NEW S
  PROVE  /\ IsFiniteSet(Places(s, S))
         /\ Count(s, S) = Cardinality(Places(s, S))
         /\ Count(s, S) \in Nat
<1>1. Len(s) \in Nat /\ DOMAIN s = 1 .. Len(s)
  BY LenProperties
<1>2. IsFiniteSet(1 .. Len(s))
  BY <1>1, FS_Interval
<1>3. Places(s, S) \in SUBSET (1 .. Len(s))
  BY DEF Places
<1>4. IsFiniteSet(Places(s, S))
  BY <1>2, <1>3, FS_Subset
<1>5. Count(s, S) = Cardinality(Places(s, S))
  BY <1>1 DEF Count, Places
<1> QED
  BY <1>4, <1>5, FS_CardinalityType

(* An empty queue has none. *)
LEMMA CountEmpty == ASSUME NEW S PROVE Count(<<>>, S) = 0
<1>1. {i \in DOMAIN <<>> : <<>>[i] \in S} = {}
  OBVIOUS
<1> QED
  BY <1>1, FS_EmptySet DEF Count

(* A queue with an element of S has one at least. *)
LEMMA CountPositive ==
  ASSUME NEW T, NEW s \in Seq(T), NEW S, NEW i \in 1 .. Len(s), s[i] \in S
  PROVE  Count(s, S) > 0
<1>1. IsFiniteSet(Places(s, S)) /\ Count(s, S) = Cardinality(Places(s, S))
      /\ Count(s, S) \in Nat
  BY CountIsPlaces
<1>2. Places(s, S) # {}
  BY DEF Places
<1> QED
  BY <1>1, <1>2, FS_EmptySet

(* A sequence with the same places has the same count. *)
LEMMA CountSame ==
  ASSUME NEW T, NEW s \in Seq(T), NEW U, NEW t \in Seq(U), NEW S,
         Len(t) = Len(s), \A i \in 1 .. Len(s) : t[i] \in S <=> s[i] \in S
  PROVE  Count(t, S) = Count(s, S)
<1>1. Places(t, S) = Places(s, S)
  BY DEF Places
<1> QED
  BY <1>1, CountIsPlaces

(* One more element, at the end. *)
LEMMA CountAppend ==
  ASSUME NEW T, NEW s \in Seq(T), NEW x \in T, NEW S
  PROVE  Count(Append(s, x), S) = Count(s, S) + IF x \in S THEN 1 ELSE 0
<1> DEFINE t == Append(s, x)
           n == Len(s) + 1
<1>1. /\ t \in Seq(T) /\ Len(t) = n /\ t[n] = x
      /\ \A i \in 1 .. Len(s) : t[i] = s[i]
  BY AppendProperties
<1>2. Len(s) \in Nat
  BY LenProperties
<1> HIDE DEF t
<1>3. n \notin Places(s, S)
  BY <1>2 DEF Places
<1>4. Places(t, S) = Places(s, S) \cup (IF x \in S THEN {n} ELSE {})
  BY <1>1, <1>2 DEF Places
<1>5. /\ IsFiniteSet(Places(s, S)) /\ Count(s, S) = Cardinality(Places(s, S))
      /\ Count(s, S) \in Nat /\ Count(t, S) = Cardinality(Places(t, S))
  BY <1>1, CountIsPlaces
<1>6. CASE x \in S
  <2>1. Places(t, S) = Places(s, S) \cup {n}
    BY <1>4, <1>6
  <2>2. Cardinality(Places(s, S) \cup {n}) = Cardinality(Places(s, S)) + 1
    BY <1>3, <1>5, FS_AddElement
  <2> QED
    BY <1>5, <1>6, <2>1, <2>2 DEF t
<1>7. CASE x \notin S
  <2>1. Places(t, S) = Places(s, S)
    BY <1>4, <1>7
  <2> QED
    BY <1>5, <1>7, <2>1 DEF t
<1> QED
  BY <1>6, <1>7

(* A stack without its top. *)
LEMMA FrontProperties ==
  ASSUME NEW T, NEW s \in Seq(T), s # <<>>
  PROVE  /\ Front(s) \in Seq(T) /\ Last(s) \in T
         /\ Len(s) \in Nat \ {0}
         /\ Len(Front(s)) = Len(s) - 1
         /\ \A i \in 1 .. Len(s) - 1 : Front(s)[i] = s[i]
         /\ Last(s) = s[Len(s)]
         /\ s = Append(Front(s), Last(s))
<1>1. Len(s) \in Nat \ {0}
  BY EmptySeq, LenProperties
<1> DEFINE m == Len(s) - 1
<1>2. m \in Nat /\ \A i \in 1 .. m : s[i] \in T
  BY <1>1, ElementOfSeq
<1>3. /\ SubSeq(s, 1, m) \in Seq(T)
      /\ Len(SubSeq(s, 1, m)) = IF 1 <= m THEN m - 1 + 1 ELSE 0
      /\ \A i \in 1 .. m - 1 + 1 : SubSeq(s, 1, m)[i] = s[1 + i - 1]
  BY <1>2, SubSeqProperties
<1>4. Front(s) = SubSeq(s, 1, m) /\ Last(s) = s[Len(s)]
  BY DEF Front, Last
<1>5. Last(s) \in T
  BY <1>1, <1>4, ElementOfSeq
<1> DEFINE f == Front(s)
<1>6. /\ f \in Seq(T) /\ Len(f) = m
      /\ \A i \in 1 .. m : f[i] = s[i]
  <2>1. m - 1 + 1 = m /\ \A i \in 1 .. m : 1 + i - 1 = i
    BY <1>2
  <2> QED
    BY <1>2, <1>3, <1>4, <2>1
<1> HIDE DEF f
<1>7. /\ Append(f, Last(s)) \in Seq(T) /\ Len(Append(f, Last(s))) = m + 1
      /\ \A i \in 1 .. m : Append(f, Last(s))[i] = f[i]
      /\ Append(f, Last(s))[m + 1] = Last(s)
  BY <1>5, <1>6, AppendProperties
<1>8. \A i \in 1 .. Len(s) : s[i] = Append(f, Last(s))[i]
  BY <1>1, <1>2, <1>4, <1>6, <1>7
<1>9. s = Append(f, Last(s))
  BY <1>1, <1>2, <1>7, <1>8, SeqEqual
<1> QED
  BY <1>1, <1>4, <1>5, <1>6, <1>9 DEF f

(* One element less, at the end. *)
LEMMA CountFront ==
  ASSUME NEW T, NEW s \in Seq(T), s # <<>>, NEW S
  PROVE  Count(s, S) = Count(Front(s), S) + IF Last(s) \in S THEN 1 ELSE 0
<1>1. /\ Front(s) \in Seq(T) /\ Last(s) \in T
      /\ s = Append(Front(s), Last(s))
  BY FrontProperties
<1>2. Count(Append(Front(s), Last(s)), S)
        = Count(Front(s), S) + IF Last(s) \in S THEN 1 ELSE 0
  BY <1>1, CountAppend
<1> QED
  BY <1>1, <1>2

(* One element less, at the head: the others move up by one place. *)
LEMMA CountTail ==
  ASSUME NEW T, NEW s \in Seq(T), s # <<>>, NEW S
  PROVE  Count(s, S) = Count(Tail(s), S) + IF Head(s) \in S THEN 1 ELSE 0
<1> DEFINE t == Tail(s)
           P == Places(t, S)
           Q == Places(s, S) \ {1}
<1>1. /\ t \in Seq(T) /\ Len(t) = Len(s) - 1 /\ Len(s) \in Nat \ {0}
      /\ \A i \in 1 .. Len(t) : t[i] = s[i + 1]
      /\ Head(s) = s[1]
  BY HeadTailProperties, EmptySeq, LenProperties
<1> HIDE DEF t
<1>2. /\ IsFiniteSet(P) /\ Count(t, S) = Cardinality(P) /\ Count(t, S) \in Nat
      /\ IsFiniteSet(Places(s, S)) /\ Count(s, S) = Cardinality(Places(s, S))
  BY <1>1, CountIsPlaces
<1>3. IsFiniteSet(Q) /\ Cardinality(Q) = Cardinality(P)
  <2> DEFINE f == [i \in P |-> i + 1]
  <2>1. \A i \in P : i \in 1 .. Len(t) /\ i + 1 \in Q
    BY <1>1 DEF Places
  <2>2. \A j \in Q : j - 1 \in P /\ j = (j - 1) + 1
    BY <1>1 DEF Places
  <2>3. \A i, j \in P : f[i] = f[j] => i = j
    BY <2>1
  <2>4. f \in [P -> Q] /\ \A j \in Q : \E i \in P : f[i] = j
    BY <2>1, <2>2
  <2>5. f \in Bijection(P, Q)
    BY <2>3, <2>4 DEF Bijection, Injection, Surjection, IsInjective
  <2>6. ExistsBijection(P, Q)
    BY <2>5 DEF ExistsBijection
  <2> QED
    BY <1>2, <2>6, FS_Bijection
<1>4. Cardinality(Q) =
        IF 1 \in Places(s, S) THEN Cardinality(Places(s, S)) - 1
                              ELSE Cardinality(Places(s, S))
  BY <1>2, FS_RemoveElement
<1>5. 1 \in Places(s, S) <=> Head(s) \in S
  BY <1>1 DEF Places
<1>6. Cardinality(Places(s, S)) \in Nat
  BY <1>2, FS_CardinalityType
<1> QED
  BY <1>2, <1>3, <1>4, <1>5, <1>6 DEF t

(* A queue that grew by x is another one, and ends with x. *)
LEMMA AppendLast ==
  ASSUME NEW T, NEW s \in Seq(T), NEW x \in T
  PROVE  Append(s, x) # s /\ Last(Append(s, x)) = x
<1>1. /\ Len(Append(s, x)) = Len(s) + 1 /\ Append(s, x)[Len(s) + 1] = x
      /\ Len(s) \in Nat
  BY AppendProperties, LenProperties
<1> QED
  BY <1>1 DEF Last

(* Sending a frame the arrays may be indexed with records and sends it. *)
LEMMA ClientSendsFrame ==
  ASSUME NEW f \in Frame, Allowed(f.dlci), Client!SendFrame(f)
  PROVE  /\ cLast' = [cLast EXCEPT ![f.dlci] = f.type]
         /\ c2s' = Append(c2s, f)
         /\ cFault' = (cFault \/ f.dlci \notin Slots)
BY FrameNames DEF Client!SendFrame

LEMMA ServerSendsFrame ==
  ASSUME NEW f \in Frame, Allowed(f.dlci), Server!SendFrame(f)
  PROVE  /\ sLast' = [sLast EXCEPT ![f.dlci] = f.type]
         /\ s2c' = Append(s2c, f)
         /\ sFault' = (sFault \/ f.dlci \notin Slots)
BY FrameNames DEF Server!SendFrame

(* Another DLCI is not sent on at all. *)
LEMMA NotSent ==
  ASSUME NEW f, ~Allowed(f.dlci)
  PROVE  /\ Client!SendFrame(f) => UNCHANGED <<cLast, c2s, cFault>>
         /\ Server!SendFrame(f) => UNCHANGED <<sLast, s2c, sFault>>
BY FrameNames DEF Client!SendFrame, Server!SendFrame

(* The one number that passes the test of the handlers and has no element. *)
LEMMA OnlyMaximum ==
  ASSUME NEW d \in Dlci \cup {0}, Allowed(d), d \notin Slots
  PROVE  MaximumDlci \in Dlci
BY LinkAssumption, MaximumDlciAssumption DEF Allowed, Slots

(* What an element of an array holds has the type of the array. *)
LEMMA ElementType ==
  ASSUME NEW T, NEW v \in [Slots -> T], NEW d, NEW x \in Element(v, d, T)
  PROVE  x \in T
BY DEF Element

(* A program is told "open" or "closed". *)
LEMMA ToldType ==
  ASSUME NEW f \in Frame, Allowed(f.dlci), NEW last, NEW registered,
         cTold \in [0 .. MaximumDlci -> {"open", "closed"}]
  PROVE  /\ Client!ToldTerminal(f, last, registered) \in {"open", "closed"}
         /\ Client!ToldMux(f, last) \in {"open", "closed"}
<1>1. f.dlci \in 0 .. MaximumDlci /\ 0 \in 0 .. MaximumDlci
  BY MaximumDlciAssumption DEF Frame, Allowed
<1> QED
  BY <1>1 DEF Client!ToldTerminal, Client!ToldMux
=============================================================================
