---------------------------- MODULE MCEvmSwapRun ----------------------------
(* The instance of EvmSwapRun that TLC checks. *)
EXTENDS EvmSwapRun, TLC

CONSTANTS t1, t2

TwoTerminals     == {t1, t2}
TerminalSymmetry == Permutations(TwoTerminals)
=============================================================================
