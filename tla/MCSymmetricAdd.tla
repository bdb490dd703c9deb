--------------------------- MODULE MCSymmetricAdd ---------------------------
(* The instances of SymmetricAdd that TLC checks: see the MCSym*.cfg files. *)
EXTENDS SymmetricAdd
=============================================================================
