--------------------------- MODULE MCCoinSelection --------------------------
(* The instance of CoinSelection that TLC checks: see MCCoinSelection.cfg. *)
EXTENDS CoinSelection, TLC

CONSTANTS c1, c2, c3, c4, t1, t2, t3

FourCoins == {c1, c2, c3, c4}
ThreeTxs  == {t1, t2, t3}
\* Two outputs of one transaction, and two of transactions of their own.
SharedParent == (c1 :> t1) @@ (c2 :> t1) @@ (c3 :> t2) @@ (c4 :> t3)
\* A parent well short of the rate, one a little short and a well-fee'd one.
MixedFees == (t1 :> 0) @@ (t2 :> 1) @@ (t3 :> 9)
=============================================================================
