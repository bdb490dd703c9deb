------------------------- MODULE MCDepositCommands -------------------------
EXTENDS DepositCommands

CONSTANTS a1, a2

\* Zero where a deposit of nothing triggers a withdrawal.
MCDust == [utxo |-> 2, evm |-> 0, erc20 |-> 0, tron |-> 2]
=============================================================================
