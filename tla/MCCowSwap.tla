------------------------------ MODULE MCCowSwap -----------------------------
(* The instances of CowSwap that TLC checks: see the MCCow*.cfg files. *)
EXTENDS CowSwap
=============================================================================
