------------------------------ MODULE MCTxRing ------------------------------
(* TLC instance of the transmit ring and of its refinement.                *)
EXTENDS TxRingRefinement, TLC

PacketSymmetry == Permutations(Packets)
=============================================================================
