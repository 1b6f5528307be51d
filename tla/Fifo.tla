-------------------------------- MODULE Fifo --------------------------------
(***************************************************************************)
(* What lib/lwrb promises: a bounded first-in first-out queue of bytes.  A *)
(* producer offers a chunk and the queue takes some non-empty prefix of    *)
(* it; a consumer is answered with the bytes at the front, which leave the *)
(* queue or, when it only looks, stay.                                     *)
(***************************************************************************)
EXTENDS Naturals, Sequences

CONSTANTS Data, Capacity

VARIABLES queue,    \* the bytes taken and not yet consumed
          offer,    \* the chunk being offered, <<>> between calls
          answer    \* what the last call answered, <<>> while one is running

vars == <<queue, offer, answer>>

Init == queue = <<>> /\ offer = <<>> /\ answer = <<>>

Offer ==
  /\ offer = <<>>
  /\ offer' \in Seq(Data) \ {<<>>}
  /\ UNCHANGED <<queue, answer>>

Put(n) ==
  /\ n <= Len(offer) /\ Len(queue) + n <= Capacity
  /\ queue' = queue \o SubSeq(offer, 1, n)
  /\ offer' = <<>>
  /\ UNCHANGED answer

Call == answer' = <<>> /\ UNCHANGED <<queue, offer>>

Get(n) ==
  /\ n <= Len(queue)
  /\ answer' = SubSeq(queue, 1, n)
  /\ queue' = SubSeq(queue, n + 1, Len(queue))
  /\ UNCHANGED offer

Look(s, n) ==
  /\ s + n <= Len(queue)
  /\ answer' = SubSeq(queue, s + 1, s + n)
  /\ UNCHANGED <<queue, offer>>

Drop(n) ==
  /\ n <= Len(queue)
  /\ queue' = SubSeq(queue, n + 1, Len(queue))
  /\ UNCHANGED <<offer, answer>>

Next ==
  \/ Offer
  \/ Call
  \/ \E n \in 1 .. Capacity :
       \/ Put(n) \/ Get(n) \/ Drop(n)
       \/ \E s \in 0 .. Capacity : Look(s, n)

Spec == Init /\ [][Next]_vars
=============================================================================
