--------------------------- MODULE DepositCommands ---------------------------
(***************************************************************************)
(* One run of any command that builds a deposit, from its command line to   *)
(* what became of it: the parts that swaps, sends and liquidity have in     *)
(* common with their own.                                                   *)
(***************************************************************************)
EXTENDS LiquidityCommand

vars == <<frameVars, swapVars, liquidityVars>>

Init == FrameInit /\ SwapInit /\ LiquidityInit

Frame(A) == A /\ UNCHANGED <<swapVars, liquidityVars>>
Swap(A)  == A /\ UNCHANGED liquidityVars

\* A plain broadcast ends the command; a vault swap, a liquidity deposit and a
\* pool withdrawal are still to be answered.
Outlives == \/ plan.kind \in {"utxo vault swap", "evm vault swap"}
            \/ args.command \in LiquidityCommands

Next ==
    \/ \E a \in CommandLines : Swap(StartSwap(a))
    \/ \E a \in LiquidityLines : StartLiquidity(a)
    \/ Swap(_swap_from_utxo) \/ Swap(_swap_from_evm)
    \/ Swap(_swap_from_tron) \/ Swap(_swap_from_cosmos)
    \/ Swap(_send_utxo) \/ Swap(_send_evm) \/ Swap(_send_tron) \/ Swap(_send_cosmos)
    \/ Swap(SelectNamed) \/ Swap(SelectBest) \/ Swap(SelectRefused)
    \/ Swap(prepare_swap) \/ Swap(PrepareSend) \/ Swap(_swap_via_cow)
    \/ Swap(_swap_via_chainflip) \/ Swap(_swap_via_chainflip_evm) \/ Swap(Settle)
    \/ Move \/ _liquidity
    \/ _liquidity_utxo \/ _liquidity_evm \/ _liquidity_tron
    \/ _liquidity_protocol_only \/ cmd_withdraw_liquidity
    \/ _withdraw_from_protocol_side \/ cmd_pool_add \/ cmd_pool_withdraw
    \/ Arrive \/ _await_pool_withdraw \/ PollsOver
    \/ Frame(Unsafe) \/ Frame(NotSent) \/ Frame(Expired)
    \/ Frame(Confirm) \/ Frame(Post(IF Outlives THEN "waiting" ELSE "ended", "sent"))
    \/ Frame(Tick)

Spec == Init /\ [][Next]_vars

-----------------------------------------------------------------------------
Said(t) == IF "outs" \in DOMAIN t
           THEN IF Saying(t) = {} THEN NoMemo
                ELSE (CHOOSE o \in Saying(t) : TRUE).memo
           ELSE IF "memo" \in DOMAIN t THEN t.memo ELSE NoMemo
Recipients(t) == IF "outs" \in DOMAIN t THEN {o.to : o \in t.outs} ELSE {t.to}

\* A swap or a send that goes out ends with the one the user named, whatever
\* the node, the explorer or the broker said in between: the memo of the quote
\* the transaction was built on, or the payload of the encoding, names that
\* destination (verify.memo_pays_destination, chainflip.prepare_vault_swap and
\* prepare_evm_vault_swap), and a send goes to it directly.
PaysTheDestination ==
    Sent => CASE args.command = "send" -> Them \in Recipients(sent.tx)
              [] args.command = "swap" -> Said(sent.tx).pays = Them
              [] OTHER -> TRUE

\* A swept native balance covers the gas of the transaction that sweeps it,
\* whichever backend was chosen after the sizing (cli._evm_sweep_gas).
SweepLeavesGas ==
    (Sent /\ args.sweep /\ args.source = "evm") =>
        sent.tx.value + sent.tx.fee <= Balance

\* A vault swap pays no less than the floor the user was shown, or it is
\* refunded to an address of the wallet (chainflip.min_price,
\* verify_chainflip_vault_swap, verify_chainflip_evm_vault_swap).
FloorIsKept ==
    settled # Pending => \/ settled.to = Them /\ settled.amount >= floor
                         \/ settled.to \in Ours
=============================================================================
