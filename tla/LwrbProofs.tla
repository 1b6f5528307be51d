----------------------------- MODULE LwrbProofs -----------------------------
(***************************************************************************)
(* The safety of the ring buffer of module Lwrb, for every size of the     *)
(* array, every set of byte values and every pattern of calls.             *)
(*                                                                         *)
(* None of the invariants is inductive alone.  The strengthening LwrbInv   *)
(* keeps, for each side, what its one load of the other side's index       *)
(* bought: the other side can only have moved in its favour since.         *)
(***************************************************************************)
EXTENDS Lwrb, SequenceTheorems, TLAPS

(* The indices agree with the counts of bytes. *)
CountInv == rn <= wn /\ GetFull(w, r) = wn - rn

(* The bytes the writer still may copy are free. *)
WriterInv ==
  /\ Len(sent) = wn + done
  /\ done <= btw /\ btw <= Len(chunk)
  /\ wn - rn + btw <= Size - 1
  /\ wpc = "idle" => done = 0 /\ btw = 0

(* The bytes the reader looks at are published. *)
ReaderInv ==
  /\ rpc # "idle" => skip + btr <= wn - rn
  /\ rpc = "skip" => skip = 0
  /\ rpc = "read" => skip = 0
  /\ rpc \in {"read", "peek"} => Len(out) <= btr

(* The cells from r on hold the bytes not consumed, copied ones included. *)
ContentInv ==
  \A k \in 0 .. Len(sent) - rn - 1 : buff[Wrap(r + k)] = sent[rn + k + 1]

AnswerInv ==
  rpc \in {"read", "peek"} =>
    \A i \in 1 .. Len(out) : out[i] = sent[rn + skip + i]

LwrbInv ==
  TypeOK /\ CountInv /\ WriterInv /\ ReaderInv /\ ContentInv /\ AnswerInv

----------------------------------------------------------------------------
(* An index advanced by less than the size wraps into the array. *)
LEMMA WrapType ==
  ASSUME NEW i \in Index, NEW k \in 0 .. Size - 1
  PROVE  Wrap(i + k) \in Index
BY SizeAssumption DEF Wrap, Index

(* Two distances of less than a whole turn lead to two different cells. *)
LEMMA WrapInjective ==
  ASSUME NEW i \in Index, NEW j \in 0 .. Size - 1, NEW k \in 0 .. Size - 1,
         j # k
  PROVE  Wrap(i + j) # Wrap(i + k)
BY SizeAssumption DEF Wrap, Index

(* Advancing in two hops is advancing by the sum. *)
LEMMA WrapAdd ==
  ASSUME NEW i \in Index, NEW j \in Nat, NEW k \in Nat, j + k <= Size - 1
  PROVE  Wrap(Wrap(i + j) + k) = Wrap(i + (j + k))
BY SizeAssumption DEF Wrap, Index

(* The write index is the read index advanced by what is in the ring. *)
LEMMA FullIsDistance ==
  ASSUME NEW i \in Index, NEW j \in Index
  PROVE  /\ GetFull(i, j) \in 0 .. Size - 1
         /\ i = Wrap(j + GetFull(i, j))
         /\ GetFree(i, j) = Size - 1 - GetFull(i, j)
         /\ LinearReadLength(i, j) \in 0 .. GetFull(i, j)
         /\ LinearWriteLength(i, j) \in 0 .. GetFree(i, j)
BY SizeAssumption
   DEF Wrap, Index, GetFull, GetFree, LinearReadLength, LinearWriteLength

(* Publishing n bytes that fit adds n to what is in the ring. *)
LEMMA FullAfterWrite ==
  ASSUME NEW i \in Index, NEW j \in Index, NEW n \in Nat,
         GetFull(i, j) + n <= Size - 1
  PROVE  GetFull(Wrap(i + n), j) = GetFull(i, j) + n
BY SizeAssumption DEF Wrap, Index, GetFull

(* Consuming n of the bytes takes n from what is in the ring. *)
LEMMA FullAfterRead ==
  ASSUME NEW i \in Index, NEW j \in Index, NEW n \in Nat,
         n <= GetFull(i, j)
  PROVE  GetFull(i, Wrap(j + n)) = GetFull(i, j) - n
BY SizeAssumption DEF Wrap, Index, GetFull

----------------------------------------------------------------------------
(* The strengthening holds of a ring just initialised. *)
LEMMA InitLwrbInv == Init => LwrbInv
<1> SUFFICES ASSUME Init PROVE LwrbInv
  OBVIOUS
<1> USE SizeAssumption
<1>1. TypeOK
  BY DEF Init, TypeOK, Index
<1>2. CountInv /\ WriterInv /\ ReaderInv /\ ContentInv /\ AnswerInv
  BY DEF Init, CountInv, WriterInv, ReaderInv, ContentInv, AnswerInv, GetFull
<1> QED
  BY <1>1, <1>2 DEF LwrbInv

(* The steps of the writer keep the strengthening. *)
LEMMA WriterStep == LwrbInv /\ Writer => LwrbInv'
<1> SUFFICES ASSUME LwrbInv, Writer PROVE LwrbInv'
  OBVIOUS
<1> USE SizeAssumption DEF LwrbInv
<1>0. /\ TypeOK /\ CountInv /\ WriterInv /\ ReaderInv /\ ContentInv /\ AnswerInv
      /\ w \in Index /\ r \in Index
      /\ wn - rn = GetFull(w, r)
      /\ GetFull(w, r) \in 0 .. Size - 1
      /\ GetFree(w, r) = Size - 1 - GetFull(w, r)
      /\ LinearWriteLength(w, r) \in 0 .. GetFree(w, r)
      /\ w = Wrap(r + GetFull(w, r))
  BY FullIsDistance DEF TypeOK, CountInv
<1>1. ASSUME NEW d \in Chunks, NEW pc \in {"write", "fill"}, NEW n \in Nat,
             n <= GetFree(w, r), n <= Len(d), CallWriter(pc, d, n)
      PROVE  LwrbInv'
  <2>1. d \in Seq(Data)
    BY DEF Chunks
  <2>2. TypeOK'
    BY <1>0, <1>1, <2>1 DEF TypeOK, CallWriter, rvars
  <2>3. WriterInv'
    BY <1>0, <1>1, <2>1 DEF TypeOK, CallWriter, WriterInv, rvars
  <2>4. CountInv' /\ ReaderInv' /\ ContentInv' /\ AnswerInv'
    BY <1>0, <1>1
       DEF CallWriter, rvars, CountInv, ReaderInv, ContentInv, AnswerInv
  <2> QED
    BY <2>2, <2>3, <2>4
<1>2. CASE \E d \in Chunks : Write(d) \/ FillLinear(d)
  <2>1. PICK d \in Chunks : Write(d) \/ FillLinear(d)
    BY <1>2
  <2>2. Len(d) \in Nat
    BY DEF Chunks
  <2> DEFINE n1 == Lesser(GetFree(w, r), Len(d))
             n2 == Lesser(LinearWriteLength(w, r), Len(d))
  <2>3. /\ n1 \in Nat /\ n1 <= GetFree(w, r) /\ n1 <= Len(d)
        /\ n2 \in Nat /\ n2 <= GetFree(w, r) /\ n2 <= Len(d)
    BY <1>0, <2>2 DEF Lesser
  <2>4. CallWriter("write", d, n1) \/ CallWriter("fill", d, n2)
    BY <2>1 DEF Write, FillLinear
  <2> HIDE DEF n1, n2
  <2> QED
    BY <1>1, <2>3, <2>4
<1>3. CASE CopyIn
  <2> USE <1>3 DEF CopyIn, wvars, rvars
  <2>1. /\ done < btw /\ done + 1 \in 1 .. Len(chunk)
        /\ chunk[done + 1] \in Data
        /\ wn - rn + done \in 0 .. Size - 1 /\ wn - rn + done < Size - 1
    BY <1>0 DEF TypeOK, WriterInv, CountInv
  <2>2. Wrap(w + done) = Wrap(r + (wn - rn + done))
    <3>1. Wrap(Wrap(r + (wn - rn)) + done) = Wrap(r + ((wn - rn) + done))
      BY <1>0, <2>1, WrapAdd DEF TypeOK, CountInv
    <3> QED
      BY <1>0, <3>1 DEF TypeOK
  <2>3. /\ sent' \in Seq(Data)
        /\ Len(sent') = Len(sent) + 1
        /\ sent'[Len(sent) + 1] = chunk[done + 1]
        /\ \A i \in 1 .. Len(sent) : sent'[i] = sent[i]
    <3>1. /\ sent \in Seq(Data) /\ chunk[done + 1] \in Data
          /\ sent' = Append(sent, chunk[done + 1])
      BY <1>0, <2>1 DEF TypeOK
    <3>2. \A x \in Data : /\ Append(sent, x) \in Seq(Data)
                           /\ Len(Append(sent, x)) = Len(sent) + 1
                           /\ Append(sent, x)[Len(sent) + 1] = x
                           /\ \A i \in 1 .. Len(sent) : Append(sent, x)[i] = sent[i]
      BY <3>1, AppendProperties
    <3> QED
      BY <3>1, <3>2
  <2>4. TypeOK'
    <3>1. buff' \in [Index -> Data]
      BY <1>0, <2>1 DEF TypeOK
    <3>2. done' \in Nat
      BY <1>0 DEF TypeOK
    <3> QED
      BY <1>0, <2>3, <3>1, <3>2 DEF TypeOK
  <2>5. WriterInv'
    BY <1>0, <2>1, <2>3 DEF TypeOK, WriterInv
  <2>6. CountInv' /\ ReaderInv'
    BY <1>0 DEF CountInv, ReaderInv
  <2>7. ContentInv'
    <3> DEFINE L == wn - rn + done
    <3>0. Len(sent) = rn + L /\ L \in Nat /\ L <= Size - 2
      BY <1>0, <2>1 DEF TypeOK, WriterInv, CountInv
    <3>1. /\ Len(sent) = rn + L /\ L \in Nat /\ L <= Size - 2
          /\ Len(sent') = rn + L + 1
          /\ sent'[rn + L + 1] = chunk[done + 1]
          /\ \A i \in 1 .. Len(sent) : sent'[i] = sent[i]
      BY <2>3, <3>0
    <3>2. Wrap(r + L) \in Index
      BY <1>0, <2>1, WrapType
    <3>3. SUFFICES ASSUME NEW k \in 0 .. L
                   PROVE  buff'[Wrap(r + k)] = sent'[rn + k + 1]
      <4>1. Len(sent') - rn - 1 = L
        BY <1>0, <3>1 DEF TypeOK
      <4>2. r' = r /\ rn' = rn
        OBVIOUS
      <4> HIDE DEF L
      <4> QED
        BY ONLY <3>3, <4>1, <4>2, Zenon DEF ContentInv, Wrap
    <3>4. CASE k = L
      BY <1>0, <2>2, <3>1, <3>2, <3>4 DEF TypeOK
    <3>5. CASE k # L
      <4>1. Wrap(r + k) # Wrap(r + L)
        BY <1>0, <3>1, <3>5, WrapInjective
      <4>2. Wrap(r + k) \in Index
        BY <1>0, <3>1, WrapType
      <4>3. buff'[Wrap(r + k)] = buff[Wrap(r + k)]
        BY <1>0, <2>2, <4>1, <4>2 DEF TypeOK
      <4>4. k \in 0 .. Len(sent) - rn - 1 /\ rn + k + 1 \in 1 .. Len(sent)
        BY <1>0, <3>1, <3>5 DEF TypeOK
      <4>5. buff[Wrap(r + k)] = sent[rn + k + 1]
        BY <1>0, <4>4 DEF ContentInv
      <4> QED
        BY <3>1, <4>3, <4>4, <4>5
    <3> QED
      BY <3>4, <3>5
  <2>8. AnswerInv'
    <3>1. ASSUME rpc \in {"read", "peek"}, NEW i \in 1 .. Len(out)
          PROVE  rn + skip + i \in 1 .. Len(sent)
      BY <1>0, <2>1, <3>1, SMTT(30) DEF TypeOK, ReaderInv, WriterInv
    <3> QED
      BY <1>0, <2>3, <3>1 DEF AnswerInv
  <2> QED
    BY <2>4, <2>5, <2>6, <2>7, <2>8
<1>4. ASSUME NEW n \in Nat, n = btw, done = btw, wpc # "idle",
             w' = Wrap(w + n), wn' = wn + n, WriterReturns,
             UNCHANGED <<buff, r, rvars, sent, rn>>
      PROVE  LwrbInv'
  <2> USE <1>4 DEF WriterReturns, rvars
  <2>1. n <= Size - 1 /\ GetFull(w, r) + n <= Size - 1
    BY <1>0 DEF TypeOK, WriterInv, CountInv
  <2>2. w' \in Index
    BY <1>0, <2>1, WrapType
  <2>3. GetFull(w', r) = GetFull(w, r) + n
    BY <1>0, <2>1, FullAfterWrite
  <2>4. TypeOK'
    BY <1>0, <2>2 DEF TypeOK
  <2>5. CountInv'
    BY <1>0, <2>3 DEF TypeOK, CountInv
  <2>6. WriterInv'
    BY <1>0, <2>1 DEF TypeOK, WriterInv
  <2>7. ReaderInv' /\ ContentInv' /\ AnswerInv'
    BY <1>0 DEF TypeOK, ReaderInv, ContentInv, AnswerInv
  <2> QED
    BY <2>4, <2>5, <2>6, <2>7
<1>5. CASE PublishWrite
  BY <1>0, <1>4, <1>5 DEF PublishWrite, TypeOK
<1>6. CASE Advance
  <2>1. Lesser(btw, GetFree(w, r)) = btw
    BY <1>0 DEF Lesser, TypeOK, WriterInv, CountInv
  <2> QED
    BY <1>0, <1>4, <1>6, <2>1 DEF Advance, TypeOK
<1> QED
  BY <1>2, <1>3, <1>5, <1>6 DEF Writer

(* The steps of the reader keep the strengthening. *)
LEMMA ReaderStep == LwrbInv /\ Reader => LwrbInv'
<1> SUFFICES ASSUME LwrbInv, Reader PROVE LwrbInv'
  OBVIOUS
<1> USE SizeAssumption DEF LwrbInv
<1>0. /\ TypeOK /\ CountInv /\ WriterInv /\ ReaderInv /\ ContentInv /\ AnswerInv
      /\ w \in Index /\ r \in Index
      /\ wn - rn = GetFull(w, r)
      /\ GetFull(w, r) \in 0 .. Size - 1
      /\ LinearReadLength(w, r) \in 0 .. GetFull(w, r)
  BY FullIsDistance DEF TypeOK, CountInv
<1>1. ASSUME NEW s \in Nat, NEW pc \in {"read", "peek", "skip"}, NEW n \in Nat,
             s + n <= GetFull(w, r), pc # "peek" => s = 0, CallReader(pc, s, n)
      PROVE  LwrbInv'
  <2> USE <1>1 DEF CallReader, wvars
  <2>1. TypeOK'
    BY <1>0 DEF TypeOK
  <2>2. CountInv' /\ WriterInv' /\ ContentInv'
    BY <1>0 DEF CountInv, WriterInv, ContentInv
  <2>3. out' = <<>> /\ Len(out') = 0
    OBVIOUS
  <2>4. ReaderInv'
    BY <1>0, <2>3 DEF ReaderInv
  <2>5. AnswerInv'
    BY <2>3 DEF AnswerInv
  <2> QED
    BY <2>1, <2>2, <2>4, <2>5
<1>2. CASE \E n \in 1 .. MaxChunk :
             \/ Read(n) \/ ReadLinear(n) \/ Skip(n)
             \/ \E s \in 0 .. Capacity : Peek(s, n)
  <2>1. PICK n \in 1 .. MaxChunk :
             \/ Read(n) \/ ReadLinear(n) \/ Skip(n)
             \/ \E s \in 0 .. Capacity : Peek(s, n)
    BY <1>2
  <2>2. CASE Read(n)
    <3>1. /\ Lesser(GetFull(w, r), n) \in Nat
          /\ 0 + Lesser(GetFull(w, r), n) <= GetFull(w, r)
      BY <1>0 DEF Lesser
    <3> QED
      BY <1>1, <2>2, <3>1 DEF Read
  <2>3. CASE ReadLinear(n)
    <3>1. /\ Lesser(LinearReadLength(w, r), n) \in Nat
          /\ 0 + Lesser(LinearReadLength(w, r), n) <= GetFull(w, r)
      BY <1>0 DEF Lesser
    <3> QED
      BY <1>1, <2>3, <3>1 DEF ReadLinear
  <2>4. CASE Skip(n)
    <3>1. /\ Lesser(n, GetFull(w, r)) \in Nat
          /\ 0 + Lesser(n, GetFull(w, r)) <= GetFull(w, r)
      BY <1>0 DEF Lesser
    <3> QED
      BY <1>1, <2>4, <3>1 DEF Skip
  <2>5. CASE \E s \in 0 .. Capacity : Peek(s, n)
    <3>1. PICK s \in 0 .. Capacity : Peek(s, n)
      BY <2>5
    <3>2. /\ Lesser(GetFull(w, r) - s, n) \in Nat
          /\ s + Lesser(GetFull(w, r) - s, n) <= GetFull(w, r)
      BY <1>0, <3>1 DEF Lesser, Peek, Capacity
    <3>3. s \in Nat
      BY <3>1 DEF Capacity
    <3> QED
      BY <1>1, <3>1, <3>2, <3>3 DEF Peek
  <2> QED
    BY <2>1, <2>2, <2>3, <2>4, <2>5
<1>3. CASE CopyOut
  <2> USE <1>3 DEF CopyOut, wvars
  <2> DEFINE j == skip + Len(out)
             x == buff[Wrap(Wrap(r + skip) + Len(out))]
  <2>1. /\ j \in Nat /\ j < wn - rn /\ j <= Size - 1
        /\ rn + j + 1 \in 1 .. Len(sent)
        /\ Len(out) \in Nat
    BY <1>0 DEF TypeOK, ReaderInv, WriterInv
  <2>2. Wrap(Wrap(r + skip) + Len(out)) = Wrap(r + j)
    BY <1>0, <2>1, WrapAdd DEF TypeOK
  <2>3. Wrap(r + j) \in Index /\ x \in Data
    BY <1>0, <2>1, <2>2, WrapType DEF TypeOK
  <2>4. x = sent[rn + j + 1]
    BY <1>0, <2>1, <2>2 DEF ContentInv, TypeOK
  <2>5. /\ out' \in Seq(Data)
        /\ Len(out') = Len(out) + 1
        /\ out'[Len(out) + 1] = x
        /\ \A i \in 1 .. Len(out) : out'[i] = out[i]
    <3>1. out \in Seq(Data) /\ out' = Append(out, x)
      BY <1>0 DEF TypeOK
    <3> HIDE DEF x
    <3>2. \A y \in Data : /\ Append(out, y) \in Seq(Data)
                           /\ Len(Append(out, y)) = Len(out) + 1
                           /\ Append(out, y)[Len(out) + 1] = y
                           /\ \A i \in 1 .. Len(out) : Append(out, y)[i] = out[i]
      BY <3>1, AppendProperties
    <3> QED
      BY <2>3, <3>1, <3>2
  <2>6. TypeOK'
    BY <1>0, <2>5 DEF TypeOK
  <2>7. CountInv' /\ WriterInv' /\ ContentInv'
    BY <1>0 DEF CountInv, WriterInv, ContentInv
  <2>8. ReaderInv'
    BY <1>0, <2>1, <2>5 DEF TypeOK, ReaderInv
  <2>9. AnswerInv'
    <3>1. SUFFICES ASSUME NEW i \in 1 .. Len(out')
                   PROVE  out'[i] = sent[rn + skip + i]
      BY DEF AnswerInv
    <3>2. CASE i = Len(out) + 1
      <4>1. rn + skip + i = rn + j + 1
        BY <1>0, <2>1, <3>2 DEF TypeOK
      <4> QED
        BY <2>4, <2>5, <3>2, <4>1
    <3>3. CASE i # Len(out) + 1
      <4>1. i \in 1 .. Len(out)
        BY <2>1, <2>5, <3>3
      <4> QED
        BY <1>0, <2>5, <4>1 DEF AnswerInv
    <3> QED
      BY <3>2, <3>3
  <2> QED
    BY <2>6, <2>7, <2>8, <2>9
<1>4. CASE ReadDone
  <2> USE <1>4 DEF ReadDone, ReaderReturns, wvars
  <2>1. btr \in Nat /\ btr <= GetFull(w, r) /\ btr <= Size - 1
    BY <1>0 DEF TypeOK, ReaderInv
  <2>2. r' \in Index
    BY <1>0, <2>1, WrapType
  <2>3. GetFull(w, r') = GetFull(w, r) - btr
    BY <1>0, <2>1, FullAfterRead
  <2>4. TypeOK'
    BY <1>0, <2>1, <2>2 DEF TypeOK
  <2>5. CountInv' /\ WriterInv' /\ ReaderInv' /\ AnswerInv'
    BY <1>0, <2>1, <2>3
       DEF TypeOK, CountInv, WriterInv, ReaderInv, AnswerInv
  <2>6. ContentInv'
    <3>1. SUFFICES ASSUME NEW k \in 0 .. Len(sent) - rn' - 1
                   PROVE  buff[Wrap(r' + k)] = sent[rn' + k + 1]
      BY DEF ContentInv
    <3>2. /\ btr + k \in 0 .. Len(sent) - rn - 1
          /\ btr + k <= Size - 1 /\ k \in Nat
          /\ rn + (btr + k) + 1 = rn' + k + 1
      BY <1>0, <2>1 DEF TypeOK, WriterInv, CountInv
    <3>3. Wrap(r' + k) = Wrap(r + (btr + k))
      BY <1>0, <2>1, <3>2, WrapAdd
    <3> QED
      BY <1>0, <3>2, <3>3 DEF ContentInv
  <2> QED
    BY <2>4, <2>5, <2>6
<1>5. CASE PeekDone
  BY <1>0, <1>5 DEF TypeOK, CountInv, WriterInv, ReaderInv, ContentInv,
                    AnswerInv, PeekDone, ReaderReturns, wvars
<1> QED
  BY <1>2, <1>3, <1>4, <1>5 DEF Reader

(* A reset, between calls, keeps the strengthening. *)
LEMMA ResetStep == LwrbInv /\ Reset => LwrbInv'
BY SizeAssumption
   DEF LwrbInv, Reset, TypeOK, CountInv, WriterInv, ReaderInv, ContentInv,
       AnswerInv, GetFull, Index, wvars, rvars

(* The strengthening is an invariant. *)
THEOREM LwrbInvariance == Spec => []LwrbInv
<1>1. Init => LwrbInv
  BY InitLwrbInv
<1>2. LwrbInv /\ [Next]_vars => LwrbInv'
  <2>1. ASSUME LwrbInv, UNCHANGED vars PROVE LwrbInv'
    BY <2>1 DEF vars, LwrbInv, TypeOK, CountInv, WriterInv, ReaderInv,
                ContentInv, AnswerInv
  <2> QED
    BY <2>1, WriterStep, ReaderStep, ResetStep DEF Next
<1> QED
  BY <1>1, <1>2, PTL DEF Spec

----------------------------------------------------------------------------
(* The variables of the ring keep their types: no index leaves the array,  *)
(* whatever its size.                                                      *)
THEOREM LwrbTypeOK == Spec => []TypeOK
<1>1. LwrbInv => TypeOK
  BY DEF LwrbInv
<1> QED
  BY <1>1, LwrbInvariance, PTL

(* Bytes neither appear nor disappear: the two indices, moved by two       *)
(* unsynchronised sides, always tell how many bytes are waiting.           *)
THEOREM LwrbAccounting == Spec => []Accounting
<1>1. LwrbInv => Accounting
  BY DEF LwrbInv, TypeOK, CountInv, WriterInv, Accounting
<1> QED
  BY <1>1, LwrbInvariance, PTL

(* The reader gets the bytes in the order in which they were written.      *)
THEOREM LwrbReadsInOrder == Spec => []ReadsInOrder
<1>1. LwrbInv => ReadsInOrder
  BY DEF LwrbInv, TypeOK, ReaderInv, AnswerInv, ReadsInOrder
<1> QED
  BY <1>1, LwrbInvariance, PTL

(* The two sides never touch the same byte at the same time, which is why  *)
(* the ring needs no lock.                                                 *)
THEOREM LwrbNoDataRace == Spec => []NoDataRace
<1>1. LwrbInv => NoDataRace
  <2> SUFFICES ASSUME LwrbInv, done < btw, NEW i \in 0 .. GetFull(w, r) - 1
               PROVE  Wrap(w + done) # Wrap(r + i)
    BY DEF NoDataRace
  <2> USE SizeAssumption DEF LwrbInv
  <2> DEFINE f == GetFull(w, r)
  <2>1. /\ w \in Index /\ r \in Index /\ done \in Nat
        /\ f \in 0 .. Size - 1 /\ w = Wrap(r + f)
        /\ f + done < Size - 1
    BY FullIsDistance DEF TypeOK, CountInv, WriterInv
  <2>2. Wrap(w + done) = Wrap(r + (f + done))
    BY <2>1, WrapAdd
  <2>3. i # f + done /\ i \in 0 .. Size - 1 /\ f + done \in 0 .. Size - 1
    BY <2>1
  <2> QED
    BY <2>1, <2>2, <2>3, WrapInjective
<1> QED
  BY <1>1, LwrbInvariance, PTL

-----------------------------------------------------------------------------
(***************************************************************************)
(* The ring of module Lwrb implements the queue of module Fifo, for every  *)
(* size of the array, every set of byte values and every pattern of calls. *)
(*                                                                         *)
(* The queue takes a chunk when the writer publishes its index and gives   *)
(* bytes when the reader publishes its own.  The copies before that are    *)
(* invisible: the writer copies into cells outside the queue, and the      *)
(* reader from cells that stay in it.                                      *)
(***************************************************************************)

(* The bytes copied so far are the first ones of the chunk. *)
CopiedInv == \A i \in 1 .. done : sent[wn + i] = chunk[i]

(* A call under way moves at least a byte, and none leaves data behind. *)
CallsInv ==
  /\ wpc = "idle" => chunk = <<>>
  /\ wpc # "idle" => btw > 0
  /\ rpc # "idle" => btr > 0
  /\ rpc = "skip" => out = <<>>

FifoInv == LwrbInv /\ CopiedInv /\ CallsInv

----------------------------------------------------------------------------
(* The strengthening holds of a ring just initialised. *)
LEMMA InitFifoInv == Init => FifoInv
<1>1. Init => CopiedInv /\ CallsInv
  BY DEF Init, CopiedInv, CallsInv
<1> QED
  BY <1>1, InitLwrbInv DEF FifoInv

(* Every step keeps the strengthening. *)
LEMMA NextFifoInv == FifoInv /\ [Next]_vars => FifoInv'
<1> SUFFICES ASSUME FifoInv, [Next]_vars PROVE FifoInv'
  OBVIOUS
<1>0. LwrbInv /\ CopiedInv /\ CallsInv /\ LwrbInv'
  <2>1. LwrbInv /\ UNCHANGED vars => LwrbInv'
    BY DEF vars, LwrbInv, TypeOK, CountInv, WriterInv, ReaderInv, ContentInv,
           AnswerInv
  <2> QED
    BY <2>1, WriterStep, ReaderStep, ResetStep DEF FifoInv, Next
<1>1. TypeOK /\ WriterInv
  BY <1>0 DEF LwrbInv
<1>2. ASSUME NEW d \in Chunks, Write(d) \/ FillLinear(d)
      PROVE  CopiedInv' /\ CallsInv'
  BY <1>0, <1>1, <1>2
     DEF Write, FillLinear, CallWriter, CopiedInv, CallsInv, rvars
<1>3. CASE CopyIn
  <2> DEFINE x == chunk[done + 1]
  <2>1. /\ sent \in Seq(Data) /\ x \in Data /\ sent' = Append(sent, x)
        /\ Len(sent) = wn + done /\ done \in Nat /\ wn \in Nat
    BY <1>1, <1>3 DEF CopyIn, TypeOK, WriterInv
  <2>2. /\ sent'[Len(sent) + 1] = x
        /\ \A i \in 1 .. Len(sent) : sent'[i] = sent[i]
    <3> HIDE DEF x
    <3> QED
      BY ONLY <2>1, AppendProperties, SMT
  <2>3. CopiedInv'
    BY <1>0, <1>3, <2>1, <2>2 DEF CopyIn, CopiedInv
  <2>4. CallsInv'
    BY <1>0, <1>3 DEF CopyIn, CallsInv, rvars
  <2> QED
    BY <1>0, <2>3, <2>4 DEF FifoInv
<1>4. CASE PublishWrite \/ Advance
  BY <1>0, <1>4
     DEF PublishWrite, Advance, WriterReturns, CopiedInv, CallsInv, rvars, FifoInv
<1>5. CASE Reader
  BY <1>0, <1>5
     DEF Reader, Read, ReadLinear, Skip, Peek, CallReader, CopyOut, ReadDone,
         PeekDone, ReaderReturns, CopiedInv, CallsInv, wvars, FifoInv
<1>6. CASE Reset \/ UNCHANGED vars
  BY <1>0, <1>6 DEF Reset, vars, CopiedInv, CallsInv, wvars, rvars, FifoInv
<1> QED
  BY <1>0, <1>2, <1>3, <1>4, <1>5, <1>6 DEF Next, Writer, FifoInv

(* The strengthening is an invariant. *)
THEOREM FifoInvariance == Spec => []FifoInv
BY InitFifoInv, NextFifoInv, PTL DEF Spec

----------------------------------------------------------------------------
(* Parts of two sequences that agree element by element are the same. *)
LEMMA SameParts ==
  ASSUME NEW S, NEW s \in Seq(S), NEW t \in Seq(S),
         NEW i \in Nat, NEW j \in Nat, NEW n \in Nat,
         i + n <= Len(s), j + n <= Len(t),
         \A k \in 1 .. n : s[i + k] = t[j + k]
  PROVE  SubSeq(s, i + 1, i + n) = SubSeq(t, j + 1, j + n)
<1>1. ASSUME NEW u \in Seq(S), NEW m \in Nat, m + n <= Len(u)
      PROVE  /\ SubSeq(u, m + 1, m + n) \in Seq(S)
             /\ Len(SubSeq(u, m + 1, m + n)) = n
             /\ \A k \in 1 .. n : SubSeq(u, m + 1, m + n)[k] = u[m + k]
  <2> DEFINE v == SubSeq(u, m + 1, m + n)
  <2>1. \A k \in m + 1 .. m + n : u[k] \in S
    BY <1>1
  <2>2. /\ v \in Seq(S)
        /\ Len(v) = IF m + 1 <= m + n THEN m + n - (m + 1) + 1 ELSE 0
        /\ \A k \in 1 .. m + n - (m + 1) + 1 : v[k] = u[m + 1 + k - 1]
    BY <2>1, SubSeqProperties
  <2> HIDE DEF v
  <2>3. Len(v) = n
    BY <2>2
  <2>4. \A k \in 1 .. n : v[k] = u[m + k]
    <3>1. TAKE k \in 1 .. n
    <3>2. k \in 1 .. m + n - (m + 1) + 1 /\ m + 1 + k - 1 = m + k
      OBVIOUS
    <3> QED
      BY <2>2, <3>2
  <2> QED
    BY <2>2, <2>3, <2>4 DEF v
<1> DEFINE a == SubSeq(s, i + 1, i + n)
           b == SubSeq(t, j + 1, j + n)
<1>2. /\ a \in Seq(S) /\ Len(a) = n /\ \A k \in 1 .. n : a[k] = s[i + k]
      /\ b \in Seq(S) /\ Len(b) = n /\ \A k \in 1 .. n : b[k] = t[j + k]
  BY <1>1
<1> HIDE DEF a, b
<1>3. a = b
  BY <1>2, SeqEqual
<1> QED
  BY <1>3 DEF a, b

(* The same, for the front of the second sequence. *)
LEMMA SameFront ==
  ASSUME NEW S, NEW s \in Seq(S), NEW t \in Seq(S),
         NEW i \in Nat, NEW n \in Nat, i + n <= Len(s), n <= Len(t),
         \A k \in 1 .. n : s[i + k] = t[k]
  PROVE  SubSeq(s, i + 1, i + n) = SubSeq(t, 1, n)
<1> DEFINE z == 0
<1>1. z \in Nat /\ z + 1 = 1 /\ z + n = n /\ \A k \in 1 .. n : z + k = k
  OBVIOUS
<1> HIDE DEF z
<1>2. z + n <= Len(t) /\ \A k \in 1 .. n : s[i + k] = t[z + k]
  BY <1>1
<1>3. SubSeq(s, i + 1, i + n) = SubSeq(t, z + 1, z + n)
  BY <1>1, <1>2, SameParts
<1> QED
  BY <1>1, <1>3

(* The queue holds the bytes sent after those consumed, up to the last     *)
(* one published.                                                          *)
ContentsAreSent ==
  /\ Contents \in Seq(Data)
  /\ Len(Contents) = wn - rn
  /\ \A k \in 1 .. wn - rn : Contents[k] = sent[rn + k]
  /\ Contents = SubSeq(sent, rn + 1, wn)

(* This is how the ring represents the queue in every reachable state. *)
LEMMA ContentsLemma == LwrbInv => ContentsAreSent
<1> SUFFICES ASSUME LwrbInv PROVE ContentsAreSent
  OBVIOUS
<1>1. /\ GetFull(w, r) = wn - rn /\ wn - rn \in Nat
      /\ wn \in Nat /\ rn \in Nat /\ r \in Nat
      /\ wn <= Len(sent) /\ Len(sent) \in Nat /\ sent \in Seq(Data)
  BY SizeAssumption
     DEF LwrbInv, TypeOK, CountInv, WriterInv, Index
<1>2. ASSUME NEW i \in 1 .. wn - rn
      PROVE  buff[Wrap(r + i - 1)] = sent[rn + i] /\ sent[rn + i] \in Data
  <2>1. i - 1 \in 0 .. Len(sent) - rn - 1 /\ rn + (i - 1) + 1 = rn + i
        /\ r + (i - 1) = r + i - 1 /\ rn + i \in 1 .. Len(sent)
    BY <1>1
  <2>2. buff[Wrap(r + (i - 1))] = sent[rn + (i - 1) + 1]
    BY <2>1 DEF LwrbInv, ContentInv
  <2>3. sent[rn + i] \in Data
    BY <1>1, <2>1, ElementOfSeq
  <2> QED
    BY <2>1, <2>2, <2>3
<1>3. Contents = [i \in 1 .. wn - rn |-> buff[Wrap(r + i - 1)]]
  BY <1>1 DEF Contents
<1>4. Contents \in [1 .. wn - rn -> Data]
  BY <1>2, <1>3
<1>5. Contents \in Seq(Data) /\ Len(Contents) = wn - rn
  BY <1>1, <1>4
<1>6. \A i \in 1 .. wn - rn : Contents[0 + i] = sent[rn + i]
  BY <1>2, <1>3
<1>7. 0 + (wn - rn) <= Len(Contents) /\ rn + (wn - rn) <= Len(sent)
  BY <1>1, <1>5
<1> HIDE DEF Contents
<1>8. SubSeq(Contents, 0 + 1, 0 + (wn - rn)) = SubSeq(sent, rn + 1, rn + (wn - rn))
  BY <1>1, <1>5, <1>6, <1>7, SameParts
<1>9. 0 + 1 = 1 /\ 0 + (wn - rn) = wn - rn /\ rn + (wn - rn) = wn
  BY <1>1
<1>10. SubSeq(Contents, 1, Len(Contents)) = Contents
  BY <1>5, SubSeqFull
<1>11. \A k \in 1 .. wn - rn : Contents[k] = sent[rn + k]
  BY <1>6
<1> QED
  BY <1>5, <1>8, <1>9, <1>10, <1>11 DEF ContentsAreSent

(* A step that publishes and consumes nothing leaves the queue alone,      *)
(* though the writer may add to what was sent.                             *)
LEMMA SameContents ==
  ASSUME LwrbInv, LwrbInv', wn' = wn, rn' = rn,
         \A i \in 1 .. wn : sent'[i] = sent[i]
  PROVE  Contents' = Contents
<1>1. ContentsAreSent /\ ContentsAreSent'
  BY ContentsLemma, PTL
<1>2. rn \in Nat /\ wn \in Nat /\ rn <= wn
  BY DEF LwrbInv, TypeOK, CountInv
<1>3. /\ Contents \in Seq(Data) /\ Contents' \in Seq(Data)
      /\ Len(Contents) = wn - rn /\ Len(Contents') = wn - rn
  BY <1>1 DEF ContentsAreSent
<1>4. \A i \in 1 .. wn - rn : Contents'[i] = Contents[i]
  BY <1>1, <1>2 DEF ContentsAreSent
<1>5. /\ Len(Contents') = Len(Contents)
      /\ \A i \in 1 .. Len(Contents') : Contents'[i] = Contents[i]
  BY <1>3, <1>4
<1> QED
  BY ONLY <1>3, <1>5, SeqEqual

(* Publishing n bytes puts the last n bytes sent into the queue. *)
LEMMA MoreContents ==
  ASSUME LwrbInv, LwrbInv', NEW n \in Nat, n <= Len(chunk), wn + n <= Len(sent),
         wn' = wn + n, rn' = rn, sent' = sent,
         \A i \in 1 .. n : sent[wn + i] = chunk[i]
  PROVE  Contents' = Contents \o SubSeq(chunk, 1, n)
<1>1. ContentsAreSent /\ ContentsAreSent'
  BY ContentsLemma, PTL
<1>2. /\ rn \in Nat /\ wn \in Nat /\ rn <= wn
      /\ sent \in Seq(Data) /\ chunk \in Seq(Data)
  BY DEF LwrbInv, TypeOK, CountInv
<1>3. Contents' = SubSeq(sent, rn + 1, wn + n)
  BY <1>1 DEF ContentsAreSent
<1>4. SubSeq(sent, rn + 1, wn) \o SubSeq(sent, wn + 1, wn + n)
        = SubSeq(sent, rn + 1, wn + n)
  <2>1. /\ rn + 1 \in 1 .. Len(sent) + 1 /\ wn \in (rn + 1) - 1 .. Len(sent)
        /\ wn + n \in wn .. Len(sent)
    BY <1>2
  <2> QED
    BY <1>2, <2>1, ConcatAdjacentSubSeq
<1>5. SubSeq(sent, wn + 1, wn + n) = SubSeq(chunk, 1, n)
  BY <1>2, SameFront
<1> QED
  BY <1>1, <1>3, <1>4, <1>5 DEF ContentsAreSent

(* Consuming n bytes takes the first n out of the queue. *)
LEMMA LessContents ==
  ASSUME LwrbInv, LwrbInv', NEW n \in Nat, n <= wn - rn,
         wn' = wn, rn' = rn + n, sent' = sent
  PROVE  Contents' = SubSeq(Contents, n + 1, Len(Contents))
<1>1. ContentsAreSent /\ ContentsAreSent'
  BY ContentsLemma, PTL
<1>2. /\ rn \in Nat /\ wn \in Nat /\ rn <= wn /\ wn <= Len(sent)
      /\ sent \in Seq(Data) /\ Len(sent) \in Nat
  BY DEF LwrbInv, TypeOK, CountInv, WriterInv
<1>3. /\ Contents = SubSeq(sent, rn + 1, wn) /\ Len(Contents) = wn - rn
      /\ Contents' = SubSeq(sent, (rn + n) + 1, wn)
  BY <1>1 DEF ContentsAreSent
<1>4. CASE n = wn - rn
  <2>1. wn < (rn + n) + 1 /\ Len(Contents) < n + 1
    BY <1>2, <1>3, <1>4
  <2>2. SubSeq(sent, (rn + n) + 1, wn) = <<>>
    BY <1>2, <2>1, SubSeqEmpty
  <2>3. SubSeq(Contents, n + 1, Len(Contents)) = <<>>
    BY <1>2, <1>3, <2>1, SubSeqEmpty
  <2> QED
    BY <1>3, <2>2, <2>3
<1>5. CASE n < wn - rn
  <2> DEFINE i == rn + 1
  <2>1. /\ i \in 1 .. Len(sent) /\ wn \in 1 .. Len(sent)
        /\ n + 1 \in 1 .. wn - i + 1 /\ wn - rn \in 1 .. wn - i + 1
        /\ i + (n + 1) - 1 = (rn + n) + 1 /\ i + (wn - rn) - 1 = wn
    BY <1>2, <1>5
  <2> HIDE DEF i
  <2>2. SubSeq(SubSeq(sent, i, wn), n + 1, wn - rn)
          = SubSeq(sent, i + (n + 1) - 1, i + (wn - rn) - 1)
    BY <1>2, <2>1, SubSeqOfSubSeq
  <2>3. SubSeq(SubSeq(sent, i, wn), n + 1, wn - rn) = SubSeq(sent, (rn + n) + 1, wn)
    BY <2>1, <2>2
  <2> QED
    BY <1>3, <2>3 DEF i
<1> QED
  BY <1>2, <1>4, <1>5

(* What the reader copied is a part of the queue. *)
LEMMA AnswerIsContents ==
  ASSUME LwrbInv, rpc \in {"read", "peek"}, Len(out) = btr
  PROVE  /\ skip + btr <= Len(Contents)
         /\ out = SubSeq(Contents, skip + 1, skip + btr)
<1>1. ContentsAreSent
  BY ContentsLemma
<1>2. /\ rn \in Nat /\ wn \in Nat /\ rn <= wn /\ skip \in Nat /\ btr \in Nat
      /\ skip + btr <= wn - rn /\ out \in Seq(Data)
      /\ \A i \in 1 .. btr : out[i] = sent[rn + skip + i]
  BY DEF LwrbInv, TypeOK, CountInv, ReaderInv, AnswerInv
<1>3. /\ skip + btr <= Len(Contents) /\ btr <= Len(out)
      /\ \A k \in 1 .. btr : Contents[skip + k] = out[k]
  BY <1>1, <1>2 DEF ContentsAreSent
<1>4. SubSeq(Contents, skip + 1, skip + btr) = SubSeq(out, 1, btr)
  BY <1>1, <1>2, <1>3, SameFront DEF ContentsAreSent
<1>5. SubSeq(out, 1, Len(out)) = out
  BY <1>2, SubSeqFull
<1> QED
  BY <1>3, <1>4, <1>5

----------------------------------------------------------------------------
(* A ring just initialised is an empty queue. *)
LEMMA InitQueue == Init => Queue!Init
<1> SUFFICES ASSUME Init PROVE Queue!Init
  OBVIOUS
<1>1. FifoInv
  BY InitFifoInv
<1>2. ContentsAreSent
  BY <1>1, ContentsLemma DEF FifoInv
<1>3. wn - rn = 0 /\ chunk = <<>> /\ out = <<>>
  BY DEF Init
<1>4. Contents = <<>>
  BY <1>2, <1>3, EmptySeq DEF ContentsAreSent
<1> QED
  BY <1>3, <1>4 DEF Queue!Init

(* Every step of the writer is a step of the queue or none. *)
LEMMA WriterRefines == FifoInv /\ FifoInv' /\ Writer => [Queue!Next]_(Queue!vars)
<1> SUFFICES ASSUME FifoInv, FifoInv', Writer PROVE [Queue!Next]_(Queue!vars)
  OBVIOUS
<1> HIDE DEF Contents
<1>0. /\ LwrbInv /\ LwrbInv' /\ CopiedInv /\ CallsInv /\ WriterInv
      /\ sent \in Seq(Data) /\ Len(sent) \in Nat /\ wn \in Nat
      /\ done \in Nat /\ btw \in Nat /\ rn \in Nat
      /\ Len(Contents) = wn - rn /\ Len(chunk) \in Nat
      /\ GetFree(w, r) = Size - 1 - (wn - rn)
  <2>1. LwrbInv /\ LwrbInv' /\ CopiedInv /\ CallsInv /\ WriterInv
    BY DEF FifoInv, LwrbInv
  <2>2. Len(Contents) = wn - rn
    BY <2>1, ContentsLemma DEF ContentsAreSent
  <2>3. GetFree(w, r) = Size - 1 - (wn - rn)
    BY <2>1, FullIsDistance DEF LwrbInv, TypeOK, CountInv
  <2>4. /\ sent \in Seq(Data) /\ chunk \in Seq(Data) /\ wn \in Nat
        /\ done \in Nat /\ btw \in Nat /\ rn \in Nat
    BY <2>1 DEF LwrbInv, TypeOK
  <2> QED
    BY <2>1, <2>2, <2>3, <2>4
<1>1. ASSUME NEW d \in Chunks, Write(d) \/ FillLinear(d)
      PROVE  Queue!Offer
  <2> USE DEF Write, FillLinear, CallWriter, rvars
  <2>1. /\ chunk = <<>> /\ chunk' = d /\ wn' = wn /\ rn' = rn /\ sent' = sent
        /\ rpc' = rpc /\ out' = out
    BY <1>0, <1>1 DEF CallsInv
  <2>2. d \in Seq(Data)
    BY DEF Chunks
  <2>3. d # <<>>
    BY DEF Chunks
  <2>4. Contents' = Contents
    BY <1>0, <2>1, SameContents
  <2> QED
    BY <2>1, <2>2, <2>3, <2>4 DEF Queue!Offer
<1>2. CASE CopyIn
  <2> USE <1>2 DEF CopyIn, rvars
  <2>1. \A i \in 1 .. wn : sent'[i] = sent[i]
    <3> DEFINE x == chunk[done + 1]
    <3>1. sent' = Append(sent, x) /\ x \in Data /\ sent \in Seq(Data)
      BY <1>0 DEF LwrbInv, TypeOK, WriterInv
    <3> HIDE DEF x
    <3>2. \A i \in 1 .. Len(sent) : sent'[i] = sent[i]
      BY ONLY <3>1, AppendProperties, SMT
    <3> QED
      BY <1>0, <3>2 DEF WriterInv
  <2>2. Contents' = Contents
    BY <1>0, <2>1, SameContents
  <2> QED
    BY <2>2 DEF Queue!vars
<1>3. ASSUME wpc # "idle", done = btw, wn' = wn + btw, rn' = rn, sent' = sent,
             WriterReturns, rpc' = rpc, out' = out
      PROVE  \E n \in 1 .. Capacity : Queue!Put(n)
  <2>1. /\ btw \in 1 .. Capacity /\ btw <= Len(chunk) /\ wn + btw <= Len(sent)
        /\ Len(Contents) + btw <= Capacity
        /\ \A i \in 1 .. btw : sent[wn + i] = chunk[i]
    BY SizeAssumption, <1>0, <1>3 DEF WriterInv, CallsInv, CopiedInv, Capacity
  <2>2. Contents' = Contents \o SubSeq(chunk, 1, btw)
    BY <1>0, <1>3, <2>1, MoreContents
  <2>3. Queue!Put(btw)
    BY <1>3, <2>1, <2>2 DEF Queue!Put, WriterReturns
  <2> QED
    BY <2>1, <2>3
<1>4. CASE PublishWrite
  BY <1>3, <1>4 DEF PublishWrite, rvars, Queue!Next
<1>5. CASE Advance
  <2>1. Lesser(btw, GetFree(w, r)) = btw
    BY SizeAssumption, <1>0 DEF Lesser, WriterInv
  <2> QED
    BY <1>3, <1>5, <2>1 DEF Advance, rvars, Queue!Next
<1> QED
  BY <1>1, <1>2, <1>4, <1>5 DEF Writer, Queue!Next

(* Every step of the reader is a step of the queue or none. *)
LEMMA ReaderRefines == FifoInv /\ FifoInv' /\ Reader => [Queue!Next]_(Queue!vars)
<1> SUFFICES ASSUME FifoInv, FifoInv', Reader PROVE [Queue!Next]_(Queue!vars)
  OBVIOUS
<1> HIDE DEF Contents
<1>0. /\ LwrbInv /\ LwrbInv' /\ CallsInv /\ ReaderInv /\ ContentsAreSent
      /\ wn \in Nat /\ rn \in Nat /\ skip \in Nat /\ btr \in Nat
      /\ wn - rn \in 0 .. Size - 1 /\ Len(Contents) = wn - rn
  BY ContentsLemma, FullIsDistance
     DEF FifoInv, LwrbInv, TypeOK, CountInv, ContentsAreSent
<1>1. ASSUME NEW pc \in {"read", "peek", "skip"}, NEW s, NEW n, CallReader(pc, s, n)
      PROVE  Queue!Call
  <2> USE DEF CallReader, wvars
  <2>1. chunk' = chunk /\ wn' = wn /\ rn' = rn /\ sent' = sent /\ rpc' # "idle"
    BY <1>1
  <2>2. Contents' = Contents
    BY <1>0, <2>1, SameContents
  <2> QED
    BY <2>1, <2>2 DEF Queue!Call
<1>2. CASE \E n \in 1 .. MaxChunk :
             \/ Read(n) \/ ReadLinear(n) \/ Skip(n)
             \/ \E s \in 0 .. Capacity : Peek(s, n)
  BY <1>1, <1>2 DEF Read, ReadLinear, Skip, Peek, Queue!Next
<1>3. CASE CopyOut
  <2> USE <1>3 DEF CopyOut, wvars
  <2>1. Contents' = Contents
    BY <1>0, SameContents
  <2> QED
    BY <2>1 DEF Queue!vars
<1>4. CASE ReadDone
  <2> USE <1>4 DEF ReadDone, ReaderReturns, wvars
  <2>1. btr \in 1 .. Capacity /\ btr <= Len(Contents) /\ skip = 0
    BY SizeAssumption, <1>0 DEF CallsInv, ReaderInv, Capacity
  <2>2. Contents' = SubSeq(Contents, btr + 1, Len(Contents))
    BY <1>0, <2>1, LessContents
  <2>3. CASE rpc = "read"
    <3>1. out = SubSeq(Contents, 1, btr)
      BY <1>0, <2>1, <2>3, AnswerIsContents
    <3>2. Queue!Get(btr)
      BY <2>1, <2>2, <2>3, <3>1 DEF Queue!Get
    <3> QED
      BY <2>1, <3>2 DEF Queue!Next
  <2>4. CASE rpc = "skip"
    <3>1. Queue!Drop(btr)
      BY <1>0, <2>1, <2>2, <2>4 DEF Queue!Drop, CallsInv
    <3> QED
      BY <2>1, <3>1 DEF Queue!Next
  <2> QED
    BY <2>3, <2>4
<1>5. CASE PeekDone
  <2> USE <1>5 DEF PeekDone, ReaderReturns, wvars
  <2>1. btr \in 1 .. Capacity /\ skip \in 0 .. Capacity
    BY SizeAssumption, <1>0 DEF CallsInv, ReaderInv, Capacity
  <2>2. Contents' = Contents
    BY <1>0, SameContents
  <2>3. Queue!Look(skip, btr)
    BY <1>0, <2>2, AnswerIsContents DEF Queue!Look
  <2> QED
    BY <2>1, <2>3 DEF Queue!Next
<1> QED
  BY <1>2, <1>3, <1>4, <1>5 DEF Reader

(* A reset drops what is in the queue. *)
LEMMA ResetRefines == FifoInv /\ FifoInv' /\ Reset => [Queue!Next]_(Queue!vars)
<1> SUFFICES ASSUME FifoInv, FifoInv', Reset PROVE [Queue!Next]_(Queue!vars)
  OBVIOUS
<1> HIDE DEF Contents
<1> USE DEF Reset, wvars, rvars
<1>0. /\ LwrbInv /\ LwrbInv' /\ ContentsAreSent
      /\ wn \in Nat /\ rn \in Nat
      /\ wn - rn \in 0 .. Size - 1 /\ Len(Contents) = wn - rn
  BY ContentsLemma, FullIsDistance
     DEF FifoInv, LwrbInv, TypeOK, CountInv, ContentsAreSent
<1>1. CASE wn = rn
  <2>1. Contents' = Contents
    BY <1>0, <1>1, SameContents
  <2> QED
    BY <2>1 DEF Queue!vars
<1>2. CASE wn # rn
  <2>1. /\ wn - rn \in 1 .. Capacity /\ wn - rn \in Nat
        /\ rn' = rn + (wn - rn) /\ wn' = wn
    BY <1>0, <1>2 DEF Capacity
  <2>2. Contents' = SubSeq(Contents, (wn - rn) + 1, Len(Contents))
    BY <1>0, <2>1, LessContents
  <2>3. Queue!Drop(wn - rn)
    BY <1>0, <2>1, <2>2 DEF Queue!Drop
  <2> QED
    BY <2>1, <2>3 DEF Queue!Next
<1> QED
  BY <1>1, <1>2

(* The ring is a bounded queue: whatever the two sides do, the bytes leave *)
(* in the order in which they were put in, each once, none is made up, and *)
(* a peek answers what a read would.                                       *)
THEOREM LwrbImplementsFifo == Spec => ImplementsFifo
<1>1. FifoInv /\ FifoInv' /\ [Next]_vars => [Queue!Next]_(Queue!vars)
  <2>1. UNCHANGED vars => UNCHANGED Queue!vars
    BY DEF vars, Queue!vars, Contents
  <2> QED
    BY <2>1, WriterRefines, ReaderRefines, ResetRefines DEF Next
<1> QED
  BY <1>1, InitQueue, FifoInvariance, PTL DEF Spec, ImplementsFifo, Queue!Spec
=============================================================================
