----------------------------- MODULE MCNvmIch8 -----------------------------
(* TLC instance of the ICH8 NVM.                                           *)
EXTENDS NvmIch8
=============================================================================
