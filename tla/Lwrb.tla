-------------------------------- MODULE Lwrb --------------------------------
(***************************************************************************)
(* The ring buffer of lib/lwrb/lwrb.c, used as lwrb/README.md allows it:   *)
(* one thread of control writes (lwrb_write, or a DMA that fills the       *)
(* linear block and then calls lwrb_advance), another one reads            *)
(* (lwrb_read, lwrb_peek, lwrb_skip, or a DMA that empties the linear      *)
(* block and then calls lwrb_skip), and nothing locks.  A call loads the   *)
(* index of the other side once, then copies byte by byte, then publishes  *)
(* its own index: these are separate steps here, and the steps of the two  *)
(* sides interleave.                                                       *)
(***************************************************************************)
EXTENDS RingIndex, Sequences

CONSTANTS Data,        \* the byte values
          MaxChunk,    \* bound: bytes in one call
          MaxBytes     \* bound: bytes ever written

ASSUME BoundsAssumption == MaxChunk \in Nat /\ MaxBytes \in Nat

VARIABLES
  buff, w, r,                    \* lwrb_t
  wpc, chunk, btw, done,         \* the writer's call: pc, data, size, copied
  rpc, skip, btr, out,           \* the reader's call: pc, skip_count, size, copied data
  sent, wn, rn                   \* history: bytes copied in, published, consumed

wvars == <<wpc, chunk, btw, done>>
rvars == <<rpc, skip, btr, out>>
vars == <<buff, w, r, wpc, chunk, btw, done, rpc, skip, btr, out, sent, wn, rn>>

Chunks == UNION {[1 .. n -> Data] : n \in 1 .. MaxChunk}

----------------------------------------------------------------------------
(* lwrb_init: both indices are 0; the array is whatever memory held. *)
Init ==
  /\ buff \in [Index -> Data]
  /\ w = 0 /\ r = 0
  /\ wpc = "idle" /\ chunk = <<>> /\ btw = 0 /\ done = 0
  /\ rpc = "idle" /\ skip = 0 /\ btr = 0 /\ out = <<>>
  /\ sent = <<>> /\ wn = 0 /\ rn = 0

(* The writer is called with d and may copy n bytes of it; a call that may *)
(* copy none returns at once.                                              *)
CallWriter(pc, d, n) ==
  /\ wpc = "idle"
  /\ Len(sent) + Len(d) <= MaxBytes
  /\ n > 0
  /\ wpc' = pc /\ chunk' = d /\ btw' = n /\ done' = 0
  /\ UNCHANGED <<buff, w, r, rvars, sent, wn, rn>>

Write(d) == CallWriter("write", d, Lesser(GetFree(w, r), Len(d)))

(* A DMA fills what lwrb_get_linear_block_write_length grants. *)
FillLinear(d) == CallWriter("fill", d, Lesser(LinearWriteLength(w, r), Len(d)))

(* One byte of the memcpy calls: the linear part, then the overflow part. *)
CopyIn ==
  /\ wpc \in {"write", "fill"} /\ done < btw
  /\ buff' = [buff EXCEPT ![Wrap(w + done)] = chunk[done + 1]]
  /\ done' = done + 1
  /\ sent' = Append(sent, chunk[done + 1])
  /\ UNCHANGED <<w, r, wpc, chunk, btw, rvars, wn, rn>>

WriterReturns == wpc' = "idle" /\ chunk' = <<>> /\ btw' = 0 /\ done' = 0

(* buff->w = buff_w_ptr: the last access of lwrb_write. *)
PublishWrite ==
  /\ wpc = "write" /\ done = btw
  /\ w' = Wrap(w + btw)
  /\ wn' = wn + btw
  /\ WriterReturns
  /\ UNCHANGED <<buff, r, rvars, sent, rn>>

(* lwrb_advance, which looks at the free space again. *)
Advance ==
  /\ wpc = "fill" /\ done = btw
  /\ LET len == Lesser(btw, GetFree(w, r))
     IN  /\ w' = Wrap(w + len)
         /\ wn' = wn + len
  /\ WriterReturns
  /\ UNCHANGED <<buff, r, rvars, sent, rn>>

----------------------------------------------------------------------------
(* The reader is called: it will look at n bytes, s bytes after r. *)
CallReader(pc, s, n) ==
  /\ rpc = "idle"
  /\ n > 0
  /\ rpc' = pc /\ skip' = s /\ btr' = n /\ out' = <<>>
  /\ UNCHANGED <<buff, w, r, wvars, sent, wn, rn>>

Read(n) == CallReader("read", 0, Lesser(GetFull(w, r), n))

(* A DMA empties what lwrb_get_linear_block_read_length grants. *)
ReadLinear(n) == CallReader("read", 0, Lesser(LinearReadLength(w, r), n))

Peek(s, n) == 
  /\ s < GetFull(w, r)
  /\ CallReader("peek", s, Lesser(GetFull(w, r) - s, n))

Skip(n) == CallReader("skip", 0, Lesser(n, GetFull(w, r)))

CopyOut ==
  /\ rpc \in {"read", "peek"} /\ Len(out) < btr
  /\ out' = Append(out, buff[Wrap(Wrap(r + skip) + Len(out))])
  /\ UNCHANGED <<buff, w, r, wvars, rpc, skip, btr, sent, wn, rn>>

ReaderReturns == rpc' = "idle" /\ skip' = 0 /\ btr' = 0 /\ UNCHANGED out

(* Mutant: the whole block is given back before its last byte is copied. *)
ReadDoneEarly ==
  /\ \/ rpc = "read" /\ Len(out) + 1 >= btr
     \/ rpc = "skip"
  /\ r' = Wrap(r + btr)
  /\ rn' = rn + btr
  /\ ReaderReturns
  /\ UNCHANGED <<buff, w, wvars, sent, wn>>

(* buff->r = buff_r_ptr: the last access of lwrb_read, and of lwrb_skip. *)
ReadDone ==
  /\ \/ rpc = "read" /\ Len(out) = btr
     \/ rpc = "skip"
  /\ r' = Wrap(r + btr)
  /\ rn' = rn + btr
  /\ ReaderReturns
  /\ UNCHANGED <<buff, w, wvars, sent, wn>>

PeekDone ==
  /\ rpc = "peek" /\ Len(out) = btr
  /\ ReaderReturns
  /\ UNCHANGED <<buff, w, r, wvars, sent, wn, rn>>

(* lwrb_reset, which "is not thread safe": only between calls. *)
Reset ==
  /\ wpc = "idle" /\ rpc = "idle"
  /\ w' = 0 /\ r' = 0
  /\ rn' = wn
  /\ UNCHANGED <<buff, wvars, rvars, sent, wn>>

----------------------------------------------------------------------------
Writer ==
  \/ \E d \in Chunks : Write(d) \/ FillLinear(d)
  \/ CopyIn
  \/ PublishWrite
  \/ Advance

Reader ==
  \/ \E n \in 1 .. MaxChunk :
       \/ Read(n) \/ ReadLinear(n) \/ Skip(n)
       \/ \E s \in 0 .. Capacity : Peek(s, n)
  \/ CopyOut
  \/ ReadDone
  \/ PeekDone

Next == Writer \/ Reader \/ Reset

Spec == Init /\ [][Next]_vars

(* Both sides finish the calls they make, and the reader, whatever else it *)
(* does, comes back to lwrb_read; nothing makes the writer call again.     *)
ReadAny == \E n \in 1 .. MaxChunk : Read(n)
FairSpec ==
  /\ Spec
  /\ WF_vars(CopyIn \/ PublishWrite \/ Advance)
  /\ WF_vars(CopyOut \/ ReadDone \/ PeekDone)
  /\ SF_vars(ReadAny)

----------------------------------------------------------------------------
(* Every variable stays in its type. *)
TypeOK ==
  /\ buff \in [Index -> Data] /\ w \in Index /\ r \in Index
  /\ wpc \in {"idle", "write", "fill"} /\ chunk \in Seq(Data)
  /\ btw \in Nat /\ done \in Nat
  /\ rpc \in {"idle", "read", "peek", "skip"} /\ out \in Seq(Data)
  /\ skip \in Nat /\ btr \in Nat
  /\ sent \in Seq(Data) /\ wn \in Nat /\ rn \in Nat

(* What the indices say is in the ring is what was published and not yet   *)
(* consumed: no call of one side, whatever the other side does meanwhile,  *)
(* makes bytes appear or disappear (a full ring is never taken for an      *)
(* empty one).                                                             *)
Accounting ==
  /\ GetFull(w, r) = wn - rn
  /\ wpc = "idle" => Len(sent) = wn

(* The reader gets the bytes in the order in which they were written, from *)
(* the first one not consumed, though the writer may be copying into the   *)
(* same array.                                                             *)
ReadsInOrder ==
  rpc \in {"read", "peek"} =>
    \A i \in 1 .. Len(out) :
      rn + skip + i <= wn /\ out[i] = sent[rn + skip + i]

(* The cell the writer is about to overwrite is not one the reader may     *)
(* still look at: the two memcpy never touch the same byte.                *)
NoDataRace ==
  (wpc # "idle" /\ done < btw) =>
    \A i \in 0 .. GetFull(w, r) - 1 : Wrap(w + done) # Wrap(r + i)

(* Every published byte is consumed in the end: no reachable pair of       *)
(* indices hides a byte from lwrb_read.                                    *)
NothingStuck == \A k \in 1 .. MaxBytes : (wn >= k) ~> (rn >= k)

----------------------------------------------------------------------------
(* The ring implements a bounded first-in first-out queue.  What is in the *)
(* queue is read off the array and the two indices.                        *)
Contents == [i \in 1 .. GetFull(w, r) |-> buff[Wrap(r + i - 1)]]

Queue == INSTANCE Fifo WITH
           queue  <- Contents,
           offer  <- chunk,
           answer <- IF rpc = "idle" THEN out ELSE <<>>

ImplementsFifo == Queue!Spec
=============================================================================
