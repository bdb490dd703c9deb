---------------------------- MODULE UtxoCommands ----------------------------
(***************************************************************************)
(* The commands of a UTXO chain: a run of the program either spends         *)
(* (cmd_send, cmd_swap, pool-add: UtxoSpend) or bumps a transaction that is *)
(* stuck (cmd_bump: FeeBump).                                               *)
(***************************************************************************)
EXTENDS UtxoSpend, FeeBump

VARIABLE command

vars == <<command, spendVars, bumpVars>>

\* The command that does not run stays in one of its initial states.
Init ==
    /\ command \in {"spend", "bump"}
    /\ SpendInit /\ BumpInit
    /\ command = "bump" => status = [o \in Outs |-> "none"] /\ ~ allow
                           /\ \A c \in Chains : chain = "mempool" \/ chain = c
    /\ command = "spend" => /\ shape = CHOOSE s \in Shapes : TRUE
                            /\ parent.at = "mined"
                            /\ \A f \in ParentFees : parent.fee <= f

Spend == command = "spend" /\ SpendNext /\ UNCHANGED <<command, bumpVars>>
Replace == command = "bump" /\ BumpNext
           /\ UNCHANGED <<command, spendVars>>

Next == Spend \/ Replace
Spec == Init /\ [][Next]_vars

=============================================================================
