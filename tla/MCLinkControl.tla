--------------------------- MODULE MCLinkControl ---------------------------
(* TLC instance of the control side; its state is finite as it stands.     *)
EXTENDS LinkControl
=============================================================================
