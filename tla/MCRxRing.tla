------------------------------ MODULE MCRxRing ------------------------------
(* TLC instance of the receive ring and of its refinement.                 *)
EXTENDS RxRingRefinement
=============================================================================
