-------------------------- MODULE TxRingRefinement --------------------------
(***************************************************************************)
(* The transmit ring implements the queue of TxQueue.  A slot that carries *)
(* a packet's mbuf (its last slot) stands for the packet: the order of the *)
(* packets is that of these slots from the first not yet reclaimed, and    *)
(* the packets sent are those whose last slot the adapter has passed.      *)
(***************************************************************************)
EXTENDS TxRing

\* the last slots of the packets on the ring, the one being attached included
LastSlots ==
    {k \in Idx : skb[k] # NoPacket \/ (gate = "output" /\ k = Pred(next_to_use))}

Older(i, k) == Off(Oldest, i) < Off(Oldest, k)

owedBar == IF overrun THEN {} ELSE held \ abandoned

beforeBar ==
    {e \in owedBar \X owedBar :
        \E i, k \in LastSlots : addr[i] = e[1] /\ addr[k] = e[2] /\ Older(i, k)}

sentBar == {p \in owedBar : \E k \in LastSlots : addr[k] = p /\ Older(k, TDH)}

Queue == INSTANCE TxQueue WITH
            owed   <- owedBar,
            before <- beforeBar,
            sent   <- sentBar,
            broken <- overrun

\* In order, nothing given back before it was sent, nothing sent twice: what
\* outputPacket, the adapter and e1000_clean_tx_irq do to the ring is a queue.
ImplementsQueue == Queue!Spec
=============================================================================
