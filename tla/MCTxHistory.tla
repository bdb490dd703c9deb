----------------------------- MODULE MCTxHistory ----------------------------
(* The instances of TxHistory that TLC checks: see its .cfg files. *)
EXTENDS TxHistory, TLC

CONSTANTS A, B, t1, t2, t3, t4

\* A payment to both addresses, a receipt, a spend of the payment to somebody
\* else, and a spend of the receipt to the wallet's own other address.
WhoIsPaid   == (t1 :> {A, B}) @@ (t2 :> {A}) @@ (t3 :> {}) @@ (t4 :> {B})
WhatIsSpent == (t1 :> {}) @@ (t2 :> {}) @@ (t3 :> {<<t1, A>>}) @@ (t4 :> {<<t2, A>>})
OldReceipt  == <<t1>>

\* An Esplora over a mempool that drops spends, a Blockbook, an Insight that
\* only answers with its first page.
Three == {[paging |-> "txid",   drops |-> {t3, t4}, stubborn |-> FALSE, hosts |-> 1],
          [paging |-> "page",   drops |-> {},       stubborn |-> FALSE, hosts |-> 2],
          [paging |-> "offset", drops |-> {},       stubborn |-> TRUE,  hosts |-> 1]}

\* Four receipts for one address, and an Insight.
AllToA     == [t \in Txs |-> {A}]
NoneSpends == [t \in Txs |-> {}]
Insight    == {[paging |-> "offset", drops |-> {}, stubborn |-> FALSE, hosts |-> 1]}
=============================================================================
