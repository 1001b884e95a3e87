-------------------------- MODULE RxRingRefinement --------------------------
(***************************************************************************)
(* The receive ring implements the queue of RxQueue: its backlog is what   *)
(* the slots between the oldest one and the head hold.                     *)
(***************************************************************************)
EXTENDS RxRing, Sequences

Stored(k) == IF k \in bad THEN Damaged ELSE content[skb[k]]

backlogBar ==
    IF bufferFailed THEN <<>>
    ELSE [i \in 1 .. Off(Oldest, RDH) |-> Stored(Ahead(Oldest, i - 1))]

Queue == INSTANCE RxQueue WITH
            Capacity <- NUM_RING_FRAME - 2,
            backlog  <- backlogBar,
            broken   <- bufferFailed

\* Frames reach the stack unchanged, in order and once: what the adapter's DMA, the DD
\* bits, the buffer replacement and the index arithmetic do together is a queue.
ImplementsQueue == Queue!Spec
=============================================================================
