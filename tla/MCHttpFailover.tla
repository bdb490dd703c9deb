--------------------------- MODULE MCHttpFailover ---------------------------
(* The instance of HttpFailover that TLC checks: see MCHttpFailover.cfg. *)
EXTENDS HttpFailover

CONSTANTS w1, w2
=============================================================================
