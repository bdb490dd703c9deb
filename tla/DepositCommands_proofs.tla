------------------------ MODULE DepositCommands_proofs ------------------------
(***************************************************************************)
(* What holds of every command that moves money, for any amounts, rates,    *)
(* clocks, quotes, encodings and networks.                                  *)
(***************************************************************************)
EXTENDS DepositCommands, FiniteSetTheorems, TLAPS

AccountKinds == {"eth swap", "eth send", "erc20 send", "erc20 swap",
                 "evm vault swap", "tron swap", "tron send", "trc20 swap",
                 "trc20 send", "cosmos send", "cosmos deposit"}

-----------------------------------------------------------------------------
\* A verifier that finds no field off has found them all as planned.
LEMMA NothingOff ==
    ASSUME NEW t, NEW p, NEW F, Off(t, p, F) = {}
    PROVE  \A f \in F : t[f] = p[f]
  BY DEF Off

\* Each verifier compares every field its chain's builder fills in.
LEMMA GateReadsEveryField ==
    ASSUME NEW t, NEW p, NEW at, p.kind \in AccountKinds, Gate(t, p, at) = {}
    PROVE  \A f \in FieldsOf(p.kind) : t[f] = p[f]
<1>1. CASE p.kind = "eth swap"
  <2>1. Off(t, p, {"to", "value", "memo", "chain"}) = {}
    BY <1>1 DEF Gate, verify_eth_swap
  <2>2. FieldsOf(p.kind) = EthBuilt
    BY <1>1 DEF FieldsOf
  <2> QED
    BY <2>1, <2>2, NothingOff DEF EthBuilt
<1>2. CASE p.kind = "eth send"
  <2>1. Off(t, p, {"to", "value", "memo", "chain"}) = {}
    BY <1>2 DEF Gate, verify_eth_send
  <2>2. FieldsOf(p.kind) = EthBuilt
    BY <1>2 DEF FieldsOf
  <2> QED
    BY <2>1, <2>2, NothingOff DEF EthBuilt
<1>3. CASE p.kind = "erc20 send"
  <2>1. Off(t, p, {"contract", "value", "to", "tokens", "chain"}) = {}
    BY <1>3 DEF Gate, verify_eth_token_send
  <2>2. FieldsOf(p.kind) = TokenSent
    BY <1>3 DEF FieldsOf
  <2> QED
    BY <2>1, <2>2, NothingOff DEF TokenSent
<1>4. CASE p.kind = "erc20 swap"
  <2>1. Off(t, p, {"contract", "router", "value", "chain", "spender",
                   "allowance", "to", "tokens", "memo", "expiry"}) = {}
    BY <1>4 DEF Gate, verify_eth_token_swap
  <2>2. FieldsOf(p.kind) = TokenBuilt
    BY <1>4 DEF FieldsOf
  <2> QED
    BY <2>1, <2>2, NothingOff DEF TokenBuilt, TokenSent
<1>5. CASE p.kind = "evm vault swap"
  <2>1. /\ Off(t, p, {"to", "value", "chain", "memo", "contract", "tokens"}) = {}
        /\ Off(t, p, {"spender", "allowance"}) = {}
    BY <1>5 DEF Gate, verify_chainflip_evm_vault_swap, _verify_vault_approve
  <2>2. FieldsOf(p.kind) = VaultBuilt
    BY <1>5 DEF FieldsOf
  <2> QED
    BY <2>1, <2>2, NothingOff DEF VaultBuilt, TokenSent
<1>6. CASE p.kind = "tron swap"
  <2>1. Off(t, p, {"type", "to", "value", "memo"}) = {}
    BY <1>6 DEF Gate, verify_tron_swap
  <2>2. FieldsOf(p.kind) = TronBuilt
    BY <1>6 DEF FieldsOf
  <2> QED
    BY <2>1, <2>2, NothingOff DEF TronBuilt
<1>7. CASE p.kind = "tron send"
  <2>1. Off(t, p, {"type", "to", "value", "memo"}) = {}
    BY <1>7 DEF Gate, verify_tron_send
  <2>2. FieldsOf(p.kind) = TronBuilt
    BY <1>7 DEF FieldsOf
  <2> QED
    BY <2>1, <2>2, NothingOff DEF TronBuilt
<1>8. CASE p.kind = "trc20 swap"
  <2>1. Off(t, p, {"type", "contract", "to", "tokens", "value", "memo"}) = {}
    BY <1>8 DEF Gate, verify_tron_token_swap
  <2>2. FieldsOf(p.kind) = Trc20Built
    BY <1>8 DEF FieldsOf
  <2> QED
    BY <2>1, <2>2, NothingOff DEF Trc20Built, TronBuilt
<1>9. CASE p.kind = "trc20 send"
  <2>1. Off(t, p, {"type", "contract", "to", "tokens", "value", "memo"}) = {}
    BY <1>9 DEF Gate, verify_tron_token_send
  <2>2. FieldsOf(p.kind) = Trc20Built
    BY <1>9 DEF FieldsOf
  <2> QED
    BY <2>1, <2>2, NothingOff DEF Trc20Built, TronBuilt
<1>10. CASE p.kind = "cosmos send"
  <2>1. Off(t, p, {"type", "from", "to", "denom", "value", "memo"}) = {}
    BY <1>10 DEF Gate, verify_cosmos_send
  <2>2. FieldsOf(p.kind) = MsgSend
    BY <1>10 DEF FieldsOf
  <2> QED
    BY <2>1, <2>2, NothingOff DEF MsgSend
<1>11. CASE p.kind = "cosmos deposit"
  <2>1. Off(t, p, {"type", "denom", "value", "memo", "from"}) = {}
    BY <1>11 DEF Gate, verify_cosmos_deposit
  <2>2. FieldsOf(p.kind) = MsgDeposit
    BY <1>11 DEF FieldsOf
  <2> QED
    BY <2>1, <2>2, NothingOff DEF MsgDeposit
<1> QED
  BY <1>1, <1>2, <1>3, <1>4, <1>5, <1>6, <1>7, <1>8, <1>9, <1>10, <1>11
     DEF AccountKinds

\* Whatever built it, a transaction of an account chain passes its gate only if
\* it is the one the plan calls for, fee aside (verify.py, chains/eth.py): the
\* builders are not trusted with any field.
THEOREM AccountGateIsExact ==
    ASSUME NEW p, p.kind \in AccountKinds, NEW at,
           NEW t, t = [f \in FieldsOf(p.kind) \cup {"fee"} |-> t[f]],
           Gate(t, p, at) = {}
    PROVE  t = Right(p, t.fee)
<1>1. p.kind \notin UtxoKinds
  BY DEF AccountKinds, UtxoKinds
<1>2. "fee" \notin FieldsOf(p.kind)
  BY DEF AccountKinds, FieldsOf, EthBuilt, TokenSent, TokenBuilt, VaultBuilt,
         TronBuilt, Trc20Built, MsgSend, MsgDeposit
<1>3. \A f \in FieldsOf(p.kind) : t[f] = p[f]
  BY GateReadsEveryField
<1> QED
  BY <1>1, <1>2, <1>3 DEF Right

\* A price the protocol accepts buys at least the floor, after both flat fees
\* and with every division rounded as it is (chainflip.min_price): rounding the
\* price down would not do.
THEOREM PriceBuysTheFloor ==
    ASSUME NEW least \in Nat, NEW input \in Nat \ {0}, NEW price \in Nat,
           price >= min_price(least, input)
    PROVE  (input * price) \div Scale - Egress >= least
<1>1. Scale \in Nat \ {0} /\ Egress \in Nat
  BY SwapAssumption
<1> DEFINE n == (least + Egress) * Scale
           q == (n + input - 1) \div input
<1>2. n \in Nat
  BY <1>1
<1>3. q \in Nat /\ input * q >= n
  <2> HIDE DEF n
  <2>1. n + input - 1 \in Nat
    BY <1>2
  <2>2. q \in Nat /\ input * q + input > n + input - 1
    BY <2>1
  <2>3. input * q \in Nat
    BY <2>2
  <2> QED
    BY <1>2, <2>2, <2>3
<1>4. price >= q
  BY DEF min_price
<1>5. input * price >= n
  <2>1. input * price >= input * q
    BY <1>3, <1>4
  <2>2. input * price \in Nat /\ input * q \in Nat
    BY <1>3
  <2> QED
    BY <1>2, <1>3, <2>1, <2>2
<1>6. (input * price) \div Scale >= least + Egress
  <2> DEFINE x == input * price
  <2>1. x \in Nat
    OBVIOUS
  <2>2. x >= (least + Egress) * Scale
    BY <1>5
  <2> HIDE DEF x
  <2>3. x \div Scale \in Nat /\ x < Scale * (x \div Scale) + Scale
    BY <1>1, <2>1
  <2>4. (least + Egress) * Scale < ((x \div Scale) + 1) * Scale
    BY <1>1, <2>1, <2>2, <2>3
  <2>5. least + Egress < (x \div Scale) + 1
    BY <1>1, <2>3, <2>4
  <2> QED
    BY <1>1, <2>3, <2>5 DEF x
<1>7. (input * price) \div Scale \in Int
  BY <1>1
<1> QED
  BY <1>1, <1>6, <1>7

-----------------------------------------------------------------------------
\* What any step of a command does to the transaction: nothing, it prepares
\* one, or it sends the one that was shown.
Busy == step \notin {"start", "prompt", "sending", "waiting", "ended"}
AfterPrompt == {"sending", "waiting", "ended"}

Quiet == /\ UNCHANGED <<plan, tx, problems, sent>>
         /\ step' = "prompt" => step = "prompt"
         /\ step' = "sending" =>
              step = "sending" \/ (step = "prompt" /\ problems = {})
         /\ step \in AfterPrompt => step' \in AfterPrompt

Sane(p) == /\ p.kind \in AccountKinds \cup UtxoKinds
           /\ p.kind \in UtxoKinds => p.to \in {"vault", Them}
           /\ p.kind = "utxo send" => p.memo = NoMemo

\* A swap's plan is of a kind that says where it goes, and names the user's
\* destination; a send's pays it.
MemoSwaps  == {"utxo swap", "eth swap", "erc20 swap", "tron swap", "trc20 swap",
               "cosmos deposit"}
VaultSwaps == {"utxo vault swap", "evm vault swap"}
SendKinds  == {"utxo send", "eth send", "erc20 send", "tron send", "trc20 send",
               "cosmos send"}
Names(p, command) ==
    /\ command = "swap" => \/ p.kind \in MemoSwaps /\ p.destination = Them
                           \/ p.kind \in VaultSwaps /\ p.pays = Them
    /\ command = "send" => p.kind \in SendKinds /\ p.to = Them

Preparing == Busy /\ \E p, fee : /\ Sane(p) /\ Names(p, args.command)
                                 /\ fee \in Nat /\ Prepare(p, fee)

Sending == \/ Post("waiting", "sent")
           \/ Post("ended", "sent")

\* The command line and the rate fetched, which the fee is made of.
CommandInv == /\ rate \in Nat
              /\ step # "start" => /\ args.source \in Sources
                                   /\ args.gas \in Nat
              /\ step = "home" => args.command = "swap"
              /\ step = "found" => args.command = "withdraw"

\* A command that gives up leaves everything but its report alone.
LEMMA AbortIsQuiet == Abort => Quiet
  BY DEF Abort, Quiet, AfterPrompt

\* The fee is a rate times a gas budget, so it is never negative.
LEMMA FeeIsNat ==
    ASSUME CommandInv, step # "start", NEW p
    PROVE  FeeOf(p) \in Nat
<1>1. {DefaultGas, SendGas, VaultGas, TokenGas} \subseteq Nat
  BY SwapAssumption
<1>2. Requested(args.gas) \in Nat
  BY <1>1 DEF Requested, CommandInv
<1> DEFINE gas == CASE p.kind \in {"utxo swap", "utxo send", "utxo vault swap"} -> 1
                    [] p.kind = "eth swap" -> Requested(args.gas)
                    [] p.kind = "eth send" -> SendGas
                    [] p.kind = "evm vault swap" /\ p.value > 0 -> VaultGas
                    [] OTHER -> TokenGas
<1>3. gas \in Nat
  BY <1>1, <1>2
<1>4. rate * gas \in Nat
  <2> HIDE DEF gas
  <2> QED
    BY <1>3 DEF CommandInv
<1> QED
  BY <1>4 DEF FeeOf

\* A plan is prepared unless its change would be negative.
LEMMA FundedIsPrepared ==
    ASSUME CommandInv, Busy, NEW p, Sane(p),
           Names(p, args.command), PrepareFunded(p)
    PROVE  Quiet \/ Preparing
<1>1. CASE p.change < 0
  BY <1>1, AbortIsQuiet DEF PrepareFunded
<1>2. CASE ~ (p.change < 0)
  <2>1. Prepare(p, FeeOf(p)) /\ FeeOf(p) \in Nat
    BY <1>2, FeeIsNat DEF PrepareFunded, Busy
  <2> QED
    BY <2>1 DEF Preparing
<1> QED
  BY <1>1, <1>2

\* A deposit of any source is of a kind the gate knows, and pays a vault.
LEMMA DepositIsSane ==
    ASSUME CommandInv, step # "start", NEW m, NEW e, NEW d, NEW a
    PROVE  /\ Sane(PlanOf(Carrying(m, e, d), a))
           /\ d = Them => Names(PlanOf(Carrying(m, e, d), a), "swap")
<1> DEFINE p == PlanOf(Carrying(m, e, d), a)
<1>1. Sane(p)
  <2>1. args.source \in Sources
    BY DEF CommandInv
  <2>2. CASE args.source = "utxo"
    BY <2>2 DEF Sane, PlanOf, Carrying, Blank, UtxoPlan, UtxoKinds
  <2>3. CASE args.source = "evm"
    BY <2>3 DEF Sane, PlanOf, Carrying, Blank, EthPlan, AccountKinds
  <2>4. CASE args.source = "erc20"
    BY <2>4 DEF Sane, PlanOf, Carrying, Blank, TokenPlan, AccountKinds
  <2>5. CASE args.source = "tron"
    BY <2>5 DEF Sane, PlanOf, Carrying, Blank, TronPlan, AccountKinds
  <2>6. CASE args.source = "trc20"
    BY <2>6 DEF Sane, PlanOf, Carrying, Blank, TronTokenPlan, AccountKinds
  <2>7. CASE args.source = "home"
    BY <2>7 DEF Sane, PlanOf, Carrying, Blank, CosmosPlan, AccountKinds
  <2> QED
    BY <2>1, <2>2, <2>3, <2>4, <2>5, <2>6, <2>7 DEF Sources
<1>2. p.kind \in MemoSwaps /\ p.destination = d
  BY DEF CommandInv, MemoSwaps, PlanOf, Carrying, Blank, UtxoPlan, EthPlan,
     TokenPlan, TronPlan, TronTokenPlan, CosmosPlan, Sources
<1> QED
  BY <1>1, <1>2 DEF Names

\* A send is of a kind the gate knows, pays its recipient, and has no memo.
LEMMA SendIsSane ==
    ASSUME CommandInv, step # "start"
    PROVE  Sane(SendPlan) /\ (args.command = "send" => Names(SendPlan, args.command))
<1> DEFINE p == PlanOf([Blank EXCEPT !.to = Them], amount)
<1>1. p.to = Them /\ p.memo = NoMemo /\ "kind" \in DOMAIN p
  BY DEF CommandInv, PlanOf, Blank, UtxoPlan, EthPlan, TokenPlan, TronPlan,
         TronTokenPlan, CosmosPlan, Sources
<1>2. Sends[args.source] \in (AccountKinds \cup UtxoKinds) \cap SendKinds
  <2>1. /\ Sends["utxo"] = "utxo send"   /\ Sends["evm"] = "eth send"
        /\ Sends["erc20"] = "erc20 send" /\ Sends["tron"] = "tron send"
        /\ Sends["trc20"] = "trc20 send" /\ Sends["home"] = "cosmos send"
    BY DEF Sends
  <2> QED
    BY <2>1 DEF CommandInv, Sources, AccountKinds, UtxoKinds, SendKinds
<1> QED
  <2> HIDE DEF p
  <2>1. SendPlan = [p EXCEPT !.kind = Sends[args.source]]
    BY DEF p, SendPlan
  <2>2. SendPlan.kind = Sends[args.source] /\ SendPlan.to = Them /\ SendPlan.memo = NoMemo
    BY <1>1, <2>1
  <2> QED
    BY <1>2, <2>2 DEF Sane, Names

\* A deposit of the protocol's own coin is a MsgDeposit.
LEMMA ProtocolIsSane ==
    ASSUME NEW v
    PROVE  Sane(ProtocolDeposit(v))
  BY DEF Sane, ProtocolDeposit, ForPool, CosmosPlan, Carrying, Blank,
         AccountKinds, UtxoKinds

\* A vault swap pays a vault, from Bitcoin or from an EVM account.
LEMMA VaultIsSane ==
    ASSUME NEW e, NEW least
    PROVE  Sane(VaultPlan(e, least)) /\ Names(VaultPlan(e, least), "swap")
<1>1. Sane(UtxoVaultPlan(e, least)) /\ Names(UtxoVaultPlan(e, least), "swap")
  BY DEF Names, VaultSwaps, Sane, UtxoVaultPlan, UtxoPlan, Carried, Carrying, Blank, AccountKinds,
         UtxoKinds
<1>2. Sane(EvmVaultPlan(e, least)) /\ Names(EvmVaultPlan(e, least), "swap")
  BY DEF Names, VaultSwaps, Sane, EvmVaultPlan, EthPlan, TokenPlan, Carried, Carrying, Blank,
         AccountKinds, UtxoKinds
<1> QED
  BY <1>1, <1>2 DEF VaultPlan

-----------------------------------------------------------------------------
\* What becomes of the command line and the rate in one step.
Steady == /\ UNCHANGED args
          /\ rate' \in {rate} \cup Rates
          /\ step = "start" => step' = "start"
          /\ step' = "home" => step = "home" \/ args.command = "swap"
          /\ step' = "found" => step = "found" \/ args.command = "withdraw"

\* Sizing fetches a rate and builds nothing.
LEMMA SizingIsQuiet ==
    ASSUME NEW reserve, NEW next, next \in {"sized", "selected", "home"},
           next = "home" => args.command = "swap", step = "sizing",
           Sizes(reserve, next)
    PROVE  Quiet /\ Steady
<1>1. PICK r \in Rates :
        IF args.sweep /\ Balance <= reserve[r] THEN Refuse
        ELSE /\ rate' = r /\ step' = next
             /\ UNCHANGED <<plan, tx, problems, sent, args>>
  BY DEF Sizes
<1> QED
  BY <1>1 DEF Refuse, Abort, swapVars, Quiet, AfterPrompt, Steady

\* The steps of swaps and sends, up to the prompt, and a settlement.
LEMMA SwapSteps ==
    ASSUME CommandInv,
           \/ _swap_from_utxo \/ _swap_from_evm
           \/ _swap_from_tron \/ _swap_from_cosmos
           \/ _send_utxo \/ _send_evm \/ _send_tron \/ _send_cosmos
           \/ SelectNamed \/ SelectBest \/ SelectRefused
           \/ prepare_swap \/ PrepareSend \/ _swap_via_cow
           \/ _swap_via_chainflip \/ _swap_via_chainflip_evm \/ Settle
    PROVE  (Quiet \/ Preparing) /\ Steady
<1>1. CASE \/ _swap_from_utxo \/ _swap_from_evm
           \/ _swap_from_tron \/ _swap_from_cosmos
           \/ _send_utxo \/ _send_evm \/ _send_tron \/ _send_cosmos
  <2>1. step = "sizing" /\ (Refuse \/ \E reserve, next :
                                         /\ next \in {"sized", "selected", "home"}
                                         /\ next = "home" => args.command = "swap"
                                         /\ Sizes(reserve, next))
    BY <1>1 DEF _swap_from_utxo, _swap_from_evm, _swap_from_tron,
       _swap_from_cosmos, _send_utxo, _send_evm, _send_tron, _send_cosmos, Sizing
  <2>2. CASE Refuse
    BY <2>1, <2>2 DEF Refuse, Abort, swapVars, Quiet, AfterPrompt, Steady
  <2> QED
    BY <2>1, <2>2, SizingIsQuiet
<1>2. CASE SelectNamed \/ SelectBest \/ SelectRefused \/ _swap_via_cow \/ Settle
  BY <1>2 DEF SelectNamed, SelectBest, SelectRefused, _swap_via_cow, Settle,
     Sized, End, Abort, swapVars, Quiet, AfterPrompt, Steady
<1>3. CASE prepare_swap
  <2>1. step \in {"home", "selected"} /\ args.command = "swap" /\ Steady
    BY <1>3 DEF prepare_swap, PrepareFunded, Prepare, Abort, swapVars, Steady,
       CommandInv
  <2>2. \/ Abort
        \/ \E q : PrepareFunded(PlanOf(Carrying(q.memo, q.expiry, Them), amount))
    BY <1>3 DEF prepare_swap
  <2>3. ASSUME NEW q, PrepareFunded(PlanOf(Carrying(q.memo, q.expiry, Them), amount))
        PROVE  Quiet \/ Preparing
    <3>1. /\ Sane(PlanOf(Carrying(q.memo, q.expiry, Them), amount))
          /\ Names(PlanOf(Carrying(q.memo, q.expiry, Them), amount), args.command)
      BY <2>1, DepositIsSane
    <3> QED
      BY <2>1, <2>3, <3>1, FundedIsPrepared DEF Busy
  <2> QED
    BY <2>1, <2>2, <2>3, AbortIsQuiet
<1>4. CASE PrepareSend
  <2>1. /\ step = "selected" /\ args.command = "send"
        /\ Steady /\ PrepareFunded(SendPlan)
    BY <1>4 DEF PrepareSend, PrepareFunded, Prepare, Abort, swapVars, Steady
  <2> QED
    BY <2>1, SendIsSane, FundedIsPrepared DEF Busy
<1>5. CASE _swap_via_chainflip \/ _swap_via_chainflip_evm
  <2>1. step = "selected" /\ args.command = "swap"
    BY <1>5 DEF _swap_via_chainflip, _swap_via_chainflip_evm, OnVault
  <2>4. Steady
    <3>1. Abort \/ \E p, fee : Prepare(p, fee)
      BY <1>5 DEF _swap_via_chainflip, _swap_via_chainflip_evm, Encoded,
         PrepareFunded
    <3>2. step' \notin {"home", "found"}
      BY <3>1 DEF Abort, Prepare
    <3> QED
      BY <1>5, <2>1, <3>2 DEF _swap_via_chainflip, _swap_via_chainflip_evm, Steady
  <2>2. Abort \/ \E least : Encoded(least)
    BY <1>5 DEF _swap_via_chainflip, _swap_via_chainflip_evm
  <2>3. ASSUME NEW least, Encoded(least) PROVE Quiet \/ Preparing
    <3>1. Abort \/ \E e : PrepareFunded(VaultPlan(e, least))
      BY <2>3 DEF Encoded
    <3> QED
      BY <2>1, <3>1, AbortIsQuiet, VaultIsSane, FundedIsPrepared DEF Busy
  <2> QED
    BY <2>2, <2>3, <2>4, AbortIsQuiet
<1> QED
  BY <1>1, <1>2, <1>3, <1>4, <1>5

\* The steps of the liquidity commands, up to the prompt, and what the network
\* answers.
LEMMA LiquiditySteps ==
    ASSUME CommandInv,
           \/ Move \/ _liquidity
           \/ _liquidity_utxo \/ _liquidity_evm \/ _liquidity_tron
           \/ _liquidity_protocol_only \/ cmd_withdraw_liquidity
           \/ _withdraw_from_protocol_side \/ cmd_pool_add \/ cmd_pool_withdraw
           \/ Arrive \/ _await_pool_withdraw \/ PollsOver
    PROVE  (Quiet \/ Preparing) /\ Steady
<1>1. CASE _liquidity
  <2>1. step = "sizing" /\ (Refuse \/ \E reserve : Sizes(reserve, "sized"))
    BY <1>1 DEF _liquidity
  <2>2. CASE Refuse
    BY <2>1, <2>2 DEF Refuse, Abort, swapVars, Quiet, AfterPrompt, Steady
  <2> QED
    BY <2>1, <2>2, SizingIsQuiet
<1>2. CASE Move \/ Arrive \/ _await_pool_withdraw \/ PollsOver
  BY <1>2 DEF Move, Arrive, _await_pool_withdraw, PollsOver, Awaiting, End,
     frameVars, swapVars, Quiet, AfterPrompt, Steady
<1>3. CASE cmd_withdraw_liquidity
  BY <1>3 DEF cmd_withdraw_liquidity, _protocol_side_position, Abort, swapVars,
     Quiet, AfterPrompt, Steady
<1>4. CASE _liquidity_utxo \/ _liquidity_evm \/ _liquidity_tron
  <2>1. step \in {"sized", "found"} /\ args.command \notin {"swap", "send"}
    BY <1>4 DEF _liquidity_utxo, _liquidity_evm, _liquidity_tron, FromAsset,
       Adding, CommandInv
  <2>7. UNCHANGED <<args, rate>>
    BY <1>4 DEF _liquidity_utxo, _liquidity_evm, _liquidity_tron, FromAsset,
       swapVars
  <2>2. Abort \/ prepare_liquidity
    BY <1>4 DEF _liquidity_utxo, _liquidity_evm, _liquidity_tron
  <2>3. \/ Abort
        \/ PrepareFunded(PlanOf(ForPool, amount)) \/ PrepareFunded(TriggerPlan)
    BY <2>2 DEF prepare_liquidity
  <2>8. Steady
    BY <2>1, <2>3, <2>7 DEF PrepareFunded, Prepare, Abort, Steady
  <2>4. Sane(PlanOf(ForPool, amount)) /\ Sane(PlanOf(ForPool, dust_threshold))
    BY <2>1, DepositIsSane DEF ForPool
  <2>5. Sane(EthPlan(ForPool, dust_threshold))
    BY DEF Sane, EthPlan, ForPool, Carrying, Blank, AccountKinds, UtxoKinds
  <2>6. Sane(TriggerPlan)
    BY <2>4, <2>5 DEF TriggerPlan
  <2>9. \A p : Names(p, args.command)
    BY <2>1 DEF Names
  <2> QED
    BY <2>1, <2>3, <2>4, <2>6, <2>8, <2>9, AbortIsQuiet, FundedIsPrepared DEF Busy
<1>5. CASE \/ _liquidity_protocol_only \/ _withdraw_from_protocol_side
           \/ cmd_pool_add \/ cmd_pool_withdraw
  <2>1. /\ step \in {"sized", "found"} /\ args.command \notin {"swap", "send"}
        /\ UNCHANGED <<args, rate>>
    BY <1>5 DEF _liquidity_protocol_only, _withdraw_from_protocol_side,
       cmd_pool_add, cmd_pool_withdraw, swapVars, CommandInv
  <2>2. Abort \/ \E v : Prepare(ProtocolDeposit(v), 0)
    BY <1>5 DEF _liquidity_protocol_only, _withdraw_from_protocol_side,
       cmd_pool_add, cmd_pool_withdraw, prepare_protocol_only_liquidity,
       prepare_pool_deposit, prepare_pool_withdraw
  <2>3. ASSUME NEW v, Prepare(ProtocolDeposit(v), 0) PROVE Preparing
    <3>1. Sane(ProtocolDeposit(v)) /\ Names(ProtocolDeposit(v), args.command)
      BY <2>1, ProtocolIsSane DEF Names
    <3> QED
      BY <2>1, <2>3, <3>1 DEF Preparing, Busy
  <2>4. Steady
    BY <2>1, <2>2 DEF Prepare, Abort, Steady
  <2> QED
    BY <2>2, <2>3, <2>4, AbortIsQuiet
<1> QED
  BY <1>1, <1>2, <1>3, <1>4, <1>5

\* A command starts with an option or a default for its gas, and a source.
LEMMA CommandStarts ==
    ASSUME CommandInv, NEW a, StartSwap(a) \/ StartLiquidity(a)
    PROVE  Quiet /\ step = "start" /\ CommandInv'
<1>1. a.source \in Sources /\ a.gas \in Nat
  <2>1. CASE a \in CommandLines
    <3>1. GasOptions \subseteq Nat
      BY SwapAssumption
    <3>2. a.source \in Sources /\ a.gas \in GasOptions
      BY <2>1 DEF CommandLines
    <3> QED
      BY <3>1, <3>2
  <2>2. CASE a \in LiquidityLines
    <3>1. a.source \in {"utxo", "evm", "erc20", "tron"} /\ a.gas \in {0}
      BY <2>2 DEF LiquidityLines, LiquiditySources
    <3> QED
      BY <3>1 DEF Sources
  <2> QED
    BY <2>1, <2>2 DEF StartSwap, StartLiquidity
<1>2. args' = a /\ UNCHANGED rate
  BY DEF StartSwap, StartLiquidity
<1>3. Quiet /\ step = "start" /\ step' = "sizing"
  BY DEF StartSwap, StartLiquidity, Quiet, AfterPrompt
<1> QED
  BY <1>1, <1>2, <1>3 DEF CommandInv

\* A step that is steady keeps the fee a natural number.
LEMMA SteadyKeeps == CommandInv /\ Steady => CommandInv'
  BY SwapAssumption DEF CommandInv, Steady

\* The prompt, and what can be answered there.
LEMMA FrameSteps ==
    ASSUME Frame(Unsafe) \/ Frame(NotSent) \/ Frame(Expired) \/ Frame(Tick)
           \/ Frame(Confirm)
           \/ Frame(Post(IF Outlives THEN "waiting" ELSE "ended", "sent"))
    PROVE  (Quiet \/ Sending) /\ Steady
<1>1. CASE Frame(Unsafe) \/ Frame(NotSent) \/ Frame(Expired) \/ Frame(Tick)
  BY <1>1 DEF Frame, Unsafe, NotSent, Expired, Tick, End, swapVars, Quiet, AfterPrompt,
     Steady
<1>2. CASE Frame(Confirm)
  BY <1>2 DEF Frame, Confirm, swapVars, Quiet, AfterPrompt, Steady
<1>3. CASE Frame(Post(IF Outlives THEN "waiting" ELSE "ended", "sent"))
  <2>1. Sending
    BY <1>3 DEF Frame, Sending
  <2>2. UNCHANGED <<args, rate>> /\ step = "sending" /\ step' \in AfterPrompt
    BY <1>3 DEF Frame, swapVars, Post, End, AfterPrompt
  <2> QED
    BY <2>1, <2>2 DEF Steady, AfterPrompt
<1> QED
  BY <1>1, <1>2, <1>3

\* Every step of every command is one of the three, and a command goes on with
\* the command line it was started with.
LEMMA EveryStep ==
    ASSUME CommandInv, [Next]_vars
    PROVE  /\ Quiet \/ Preparing \/ Sending
           /\ UNCHANGED args \/ step = "start"
           /\ CommandInv'
<1>1. CASE UNCHANGED vars
  BY <1>1 DEF vars, frameVars, swapVars, CommandInv, Quiet
<1>2. CASE Next
  <2>1. CASE \E a : StartSwap(a) \/ StartLiquidity(a)
    BY <2>1, CommandStarts
  <2>2. CASE ~ (\E a : StartSwap(a) \/ StartLiquidity(a))
    <3>1. (Quiet \/ Preparing \/ Sending) /\ Steady
      BY <1>2, <2>2, SwapSteps, LiquiditySteps, FrameSteps DEF Next, Swap
    <3> QED
      BY <3>1, SteadyKeeps DEF Steady
  <2> QED
    BY <2>1, <2>2
<1> QED
  BY <1>1, <1>2

-----------------------------------------------------------------------------
\* The outputs a plan calls for are three at most, and their numbers differ.
LEMMA OutputsAreFew ==
    ASSUME NEW p
    PROVE  /\ IsFiniteSet(OutputsOf(p))
           /\ \A o, q \in OutputsOf(p) : o.n = q.n => o = q
           /\ Output(1, p.to, p.value, NoMemo) \in OutputsOf(p)
           /\ \A o \in OutputsOf(p) :
                 \/ o = Output(1, p.to, p.value, NoMemo)
                 \/ o = Output(2, "data", 0, p.memo) /\ p.memo # NoMemo
                 \/ o = Output(3, "our change", p.change, NoMemo)
<1> DEFINE one == Output(1, p.to, p.value, NoMemo)
           two == {o \in {Output(2, "data", 0, p.memo)} : p.memo # NoMemo}
           three == {o \in {Output(3, "our change", p.change, NoMemo)} : p.change > 0}
<1>1. IsFiniteSet({one}) /\ IsFiniteSet({Output(2, "data", 0, p.memo)})
      /\ IsFiniteSet({Output(3, "our change", p.change, NoMemo)})
  BY FS_Singleton
<1>2. IsFiniteSet(two) /\ IsFiniteSet(three)
  BY <1>1, FS_Subset
<1>3. OutputsOf(p) = {one} \cup two \cup three
  BY DEF OutputsOf
<1>4. IsFiniteSet(OutputsOf(p))
  <2> HIDE DEF one, two, three
  <2>1. IsFiniteSet({one} \cup two)
    BY <1>1, <1>2, FS_Union
  <2> QED
    BY <1>2, <1>3, <2>1, FS_Union
<1>5. \A o \in OutputsOf(p) :
         \/ o = one
         \/ o = Output(2, "data", 0, p.memo) /\ p.memo # NoMemo
         \/ o = Output(3, "our change", p.change, NoMemo)
  BY <1>3
<1>6. \A o, q \in OutputsOf(p) : o.n = q.n => o = q
  <2>1. one.n = 1 /\ Output(2, "data", 0, p.memo).n = 2
        /\ Output(3, "our change", p.change, NoMemo).n = 3
    BY DEF Output
  <2> DEFINE q2 == Output(2, "data", 0, p.memo)
             q3 == Output(3, "our change", p.change, NoMemo)
  <2>2. \A o \in OutputsOf(p) : o \in {one, q2, q3}
    BY <1>5
  <2> HIDE DEF one, q2, q3
  <2>3. one.n = 1 /\ q2.n = 2 /\ q3.n = 3
    BY <2>1 DEF one, q2, q3
  <2> QED
    BY <2>2, <2>3
<1> QED
  BY <1>3, <1>4, <1>5, <1>6

\* A memo that is not wrongly said is in one output, as planned.
LEMMA SaidOnce ==
    ASSUME NEW p, NEW t, IsFiniteSet(t.outs), SaidWrongly(t, p) = {}
    PROVE  \E o : Saying(t) = {o} /\ o.memo = p.memo
<1>1. Cardinality(Saying(t)) = 1 /\ IsFiniteSet(Saying(t))
      /\ \A o \in Saying(t) : o.memo = p.memo
  BY FS_Subset DEF SaidWrongly, If, Saying
<1> QED
  BY <1>1, FS_Singleton

\* Whatever built it, a UTXO transaction passes its gate only if one output pays
\* whom the plan names and what it names, at most one speaks and says the
\* plan's memo, the rest is the wallet's own, and the fee is capped (verify.py).
THEOREM UtxoGateIsStrict ==
    ASSUME NEW p, p.kind \in UtxoKinds, NEW at, NEW t, Gate(t, p, at) = {},
           IsFiniteSet(t.outs)
    PROVE  /\ \E o : Paying(t, p.to) = {o} /\ o.value = p.value
           /\ p.kind = "utxo send" => Saying(t) = {}
           /\ p.kind # "utxo send" => \E o : Saying(t) = {o} /\ o.memo = p.memo
           /\ \A o \in Others(t, p.to) : o.to \in Ours
           /\ ~ (t.fee < 0 \/ t.fee > MaxFee)
<1>1. /\ PaidWrongly(t, p) = {} /\ Foreign(t, p, Ours) = {} /\ FeeWrong(t) = {}
      /\ p.kind = "utxo send" => Saying(t) = {}
      /\ p.kind # "utxo send" => SaidWrongly(t, p) = {}
  <2>1. CASE p.kind = "utxo swap"
    <3>1. verify_btc_swap(t, p, Ours, at) = {}
      BY <2>1 DEF Gate
    <3> QED
      BY <2>1, <3>1 DEF verify_btc_swap
  <2>2. CASE p.kind = "utxo send"
    <3>1. verify_btc_send(t, p, Ours) = {}
      BY <2>2 DEF Gate
    <3> QED
      BY <2>2, <3>1 DEF verify_btc_send, If
  <2>3. CASE p.kind = "utxo vault swap"
    <3>1. verify_chainflip_vault_swap(t, p, Ours, at) = {}
      BY <2>3 DEF Gate
    <3>2. verify_btc_swap(t, p, Ours, at) = {}
      BY <3>1 DEF verify_chainflip_vault_swap
    <3> QED
      BY <2>3, <3>2 DEF verify_btc_swap
  <2> QED
    BY <2>1, <2>2, <2>3 DEF UtxoKinds
<1>2. /\ Cardinality(Paying(t, p.to)) = 1 /\ IsFiniteSet(Paying(t, p.to))
      /\ \A o \in Paying(t, p.to) : o.value = p.value
  BY <1>1, FS_Subset DEF PaidWrongly, If, Paying
<1>3. \E o : Paying(t, p.to) = {o} /\ o.value = p.value
  BY <1>2, FS_Singleton
<1>4. ASSUME p.kind # "utxo send"
      PROVE  \E o : Saying(t) = {o} /\ o.memo = p.memo
  BY <1>1, <1>4, SaidOnce
<1> QED
  BY <1>1, <1>3, <1>4 DEF Foreign, FeeWrong, If

\* So none of the ways a builder may go wrong gets past it.
LEMMA SlipIsCaught ==
    ASSUME NEW p, p.kind \in UtxoKinds, Sane(p), NEW fee, NEW at,
           NEW t \in Slipped(p, fee), Gate(t, p, at) = {}
    PROVE  t = Right(p, fee)
<1> DEFINE outs == OutputsOf(p)
           one == Output(1, p.to, p.value, NoMemo)
           two == Output(2, "data", 0, p.memo)
           three == Output(3, "our change", p.change, NoMemo)
           twice == Output(4, p.to, p.value, NoMemo)
           other == Output(4, "data", 0, Text(Slip))
           away == Output(4, Slip, 1, NoMemo)
           astray == Output(3, Slip, p.change, NoMemo)
<1>1. /\ one.to = p.to /\ one.memo = NoMemo
      /\ two.to = "data" /\ two.memo = p.memo
      /\ three.to = "our change" /\ three.memo = NoMemo
      /\ twice.to = p.to
      /\ other.memo = Text(Slip)
      /\ away.to = Slip /\ away.memo = NoMemo
      /\ astray.to = Slip /\ astray.memo = NoMemo
  BY DEF Output
<1>0. /\ one.n = 1 /\ two.n = 2 /\ three.n = 3 /\ astray.n = 3
      /\ twice.n = 4 /\ other.n = 4 /\ away.n = 4
  BY DEF Output
<1>2. /\ IsFiniteSet(outs) /\ one \in outs
      /\ \A o \in outs : o \in {one, two, three}
      /\ two \in outs => p.memo # NoMemo
      /\ p.memo # NoMemo => two \in outs
  <2>1. /\ IsFiniteSet(outs) /\ one \in outs
        /\ \A o \in outs : o = one \/ (o = two /\ p.memo # NoMemo) \/ o = three
    BY OutputsAreFew
  <2>2. p.memo # NoMemo => two \in outs
    BY DEF OutputsOf
  <2> HIDE DEF outs, one, two, three
  <2>3. two # one /\ two # three
    BY <1>0
  <2> QED
    BY <2>1, <2>2, <2>3
<1>3. Right(p, fee) = [outs |-> outs, fee |-> fee]
  BY DEF Right
<1>4. /\ p.to \notin {"data", "our change"} /\ Slip \notin Ours
      /\ p.kind = "utxo send" => p.memo = NoMemo
      /\ Text(Slip) # NoMemo
  BY CommandAssumption DEF Sane, Them, Text, NoMemo
<1>5. \/ \E o \in {twice, other, away} : t = [outs |-> outs \cup {o}, fee |-> fee]
      \/ \E o \in outs : o.to # "our change" /\ t = [outs |-> outs \ {o}, fee |-> fee]
      \/ t = [outs |-> {[o EXCEPT !.to = IF o.n = 3 THEN Slip ELSE @] : o \in outs},
              fee |-> fee]
  BY DEF Slipped
<1> HIDE DEF outs, one, two, three, twice, other, away, astray
<1>6. ASSUME IsFiniteSet(t.outs)
      PROVE  /\ Paying(t, p.to) # {}
             /\ \A x, y \in Paying(t, p.to) : x = y
             /\ p.kind = "utxo send" => Saying(t) = {}
             /\ p.kind # "utxo send" => /\ Saying(t) # {}
                                        /\ \A x \in Saying(t) : x.memo = p.memo
             /\ \A x, y \in Saying(t) : x = y
             /\ \A o \in Others(t, p.to) : o.to \in Ours
  <2>1. /\ \E o : Paying(t, p.to) = {o} /\ o.value = p.value
        /\ p.kind = "utxo send" => Saying(t) = {}
        /\ p.kind # "utxo send" => \E o : Saying(t) = {o} /\ o.memo = p.memo
        /\ \A o \in Others(t, p.to) : o.to \in Ours
        /\ ~ (t.fee < 0 \/ t.fee > MaxFee)
    BY <1>6, UtxoGateIsStrict, Zenon
  <2>4. Paying(t, p.to) # {} /\ \A x, y \in Paying(t, p.to) : x = y
    BY <2>1
  <2>5. ASSUME p.kind # "utxo send"
        PROVE  /\ Saying(t) # {}
               /\ \A x \in Saying(t) : x.memo = p.memo
               /\ \A x, y \in Saying(t) : x = y
    <3>1. PICK o : Saying(t) = {o} /\ o.memo = p.memo
      BY <2>1, <2>5
    <3> QED
      BY <3>1
  <2> QED
    BY <2>1, <2>4, <2>5
<1>10. ASSUME IsFiniteSet(t.outs), one \in t.outs, NEW o \in t.outs,
              o # one, o.to = Slip, o.memo = NoMemo
       PROVE  FALSE
  <2>1. CASE Slip = p.to
    <3>1. o \in Paying(t, p.to) /\ one \in Paying(t, p.to)
      BY <1>1, <1>10, <2>1 DEF Paying
    <3> QED
      BY <1>6, <1>10, <3>1
  <2>2. CASE Slip # p.to
    <3>1. o \in Others(t, p.to)
      BY <1>10, <2>2 DEF Others, Paying, Saying
    <3> QED
      BY <1>4, <1>6, <1>10, <3>1
  <2> QED
    BY <2>1, <2>2
<1>7. ASSUME NEW o \in {twice, other, away}, t = [outs |-> outs \cup {o}, fee |-> fee]
      PROVE  FALSE
  <2>1. t.outs = outs \cup {o} /\ IsFiniteSet(t.outs)
    BY <1>2, <1>7, FS_AddElement
  <2>2. CASE o = twice
    <3>1. o \in Paying(t, p.to) /\ one \in Paying(t, p.to)
      BY <1>1, <1>2, <2>1, <2>2 DEF Paying
    <3>2. o # one
      BY <1>0, <2>2
    <3>3. o = one
      BY <1>6, <2>1, <3>1
    <3> QED
      BY <3>2, <3>3
  <2>3. CASE o = other
    <3>1. o \in Saying(t)
      BY <1>1, <1>4, <2>1, <2>3 DEF Saying
    <3>2. o.memo = p.memo /\ \A q \in Saying(t) : q = o
      BY <1>6, <2>1, <3>1
    <3>3. two \in Saying(t)
      BY <1>0, <1>1, <1>2, <1>4, <2>1, <2>3, <3>2 DEF Saying
    <3> QED
      BY <1>0, <2>3, <3>2, <3>3
  <2>4. CASE o = away
    <3>1. o # one
      BY <1>0, <2>4
    <3>2. o.to = Slip /\ o.memo = NoMemo
      BY <1>1, <2>4
    <3>3. one \in t.outs /\ o \in t.outs
      BY <1>2, <2>1
    <3> QED
      BY <1>10, <2>1, <3>1, <3>2, <3>3
  <2> QED
    BY <2>2, <2>3, <2>4
<1>8. ASSUME NEW o \in outs, o.to # "our change", t = [outs |-> outs \ {o}, fee |-> fee]
      PROVE  FALSE
  <2>1. t.outs = outs \ {o} /\ IsFiniteSet(t.outs)
    BY <1>2, <1>8, FS_Subset
  <2>2. CASE o = one
    <3>1. PICK x \in Paying(t, p.to) : TRUE
      BY <1>6, <2>1
    <3>2. x \in {two, three} /\ x.to = p.to
      BY <1>2, <2>1, <2>2, <3>1 DEF Paying
    <3> QED
      BY <1>1, <1>4, <3>2
  <2>3. CASE o = two
    <3>1. PICK x \in Saying(t) : TRUE
      BY <1>2, <1>4, <1>6, <2>1, <2>3
    <3>2. x \in {one, three} /\ x.memo # NoMemo
      BY <1>2, <2>1, <2>3, <3>1 DEF Saying
    <3> QED
      BY <1>1, <3>2
  <2> QED
    BY <1>0, <1>1, <1>2, <1>8, <2>2, <2>3
<1>9. ASSUME t = [outs |-> {[o EXCEPT !.to = IF o.n = 3 THEN Slip ELSE @] : o \in outs},
                  fee |-> fee]
      PROVE  t = Right(p, fee)
  <2>1. /\ [one EXCEPT !.to = IF one.n = 3 THEN Slip ELSE @] = one
        /\ [two EXCEPT !.to = IF two.n = 3 THEN Slip ELSE @] = two
        /\ [three EXCEPT !.to = IF three.n = 3 THEN Slip ELSE @] = astray
    <3>1. [one EXCEPT !.to = IF one.n = 3 THEN Slip ELSE @] = one
      BY <1>0 DEF one, Output
    <3>2. [two EXCEPT !.to = IF two.n = 3 THEN Slip ELSE @] = two
      BY <1>0 DEF two, Output
    <3>3. [three EXCEPT !.to = IF three.n = 3 THEN Slip ELSE @] = astray
      <4> DEFINE here == "our change"
      <4> HIDE DEF here
      <4>2. [Output(3, here, p.change, NoMemo) EXCEPT !.to = Slip]
               = Output(3, Slip, p.change, NoMemo)
        BY DEF Output
      <4>1. [three EXCEPT !.to = Slip] = astray
        BY <4>2 DEF three, astray, here
      <4> QED
        BY <1>0, <4>1
    <3> QED
      BY <3>1, <3>2, <3>3
  <2>2. CASE three \notin outs
    <3>1. \A o \in outs : [o EXCEPT !.to = IF o.n = 3 THEN Slip ELSE @] = o
      BY <1>2, <2>1, <2>2
    <3>2. {[o EXCEPT !.to = IF o.n = 3 THEN Slip ELSE @] : o \in outs} = outs
      BY <3>1
    <3> QED
      BY <1>3, <1>9, <3>2
  <2>3. CASE three \in outs
    <3>1. one \in t.outs /\ astray \in t.outs
      BY <1>2, <1>9, <2>1, <2>3
    <3>2. t.outs \subseteq outs \cup {astray}
      BY <1>2, <1>9, <2>1
    <3>3. IsFiniteSet(t.outs)
      BY <1>2, <3>2, FS_AddElement, FS_Subset
    <3>4. astray # one
      BY <1>0
    <3>5. astray.to = Slip /\ astray.memo = NoMemo
      BY <1>1
    <3> QED
      BY <1>10, <3>1, <3>3, <3>4, <3>5
  <2> QED
    BY <2>2, <2>3
<1> QED
  BY <1>5, <1>7, <1>8, <1>9

-----------------------------------------------------------------------------
\* What SentAsPlanned says of the transaction and the plan.
Good(t, p) == /\ t = Right(p, t.fee)
              /\ p.kind \in Capped => t.fee \in 0..MaxFee

\* Where the wallet chooses the fee, no gate lets one above the cap pass.
LEMMA FeeIsCapped ==
    ASSUME NEW p, p.kind \in Capped, NEW at, NEW t, Gate(t, p, at) = {},
           p.kind \in UtxoKinds => IsFiniteSet(t.outs)
    PROVE  ~ (t.fee > MaxFee)
<1>1. CASE p.kind \in UtxoKinds
  BY <1>1, UtxoGateIsStrict
<1>2. ASSUME Dear(t) = {} PROVE ~ (t.fee > MaxFee)
  BY <1>2 DEF Dear, If
<1>3. CASE p.kind = "eth swap"
  BY <1>2, <1>3 DEF Gate, verify_eth_swap
<1>4. CASE p.kind = "eth send"
  BY <1>2, <1>4 DEF Gate, verify_eth_send
<1>5. CASE p.kind = "erc20 send"
  BY <1>2, <1>5 DEF Gate, verify_eth_token_send
<1>6. CASE p.kind = "erc20 swap"
  BY <1>2, <1>6 DEF Gate, verify_eth_token_swap
<1>7. CASE p.kind = "evm vault swap"
  BY <1>2, <1>7 DEF Gate, verify_chainflip_evm_vault_swap
<1> QED
  BY <1>1, <1>3, <1>4, <1>5, <1>6, <1>7 DEF Capped

\* A transaction that passes its gate is the one its plan calls for.
LEMMA PassedIsGood ==
    ASSUME NEW p, Sane(p), NEW fee \in Nat, NEW at,
           NEW t \in {Right(p, fee)} \cup Slipped(p, fee), Gate(t, p, at) = {}
    PROVE  Good(t, p)
<1>1. CASE p.kind \in UtxoKinds
  <2>1. t = Right(p, fee)
    BY <1>1, SlipIsCaught
  <2>2. Right(p, fee) = [outs |-> OutputsOf(p), fee |-> fee]
    BY <1>1 DEF Right
  <2>3. t.fee = fee /\ IsFiniteSet(t.outs)
    <3>1. t.fee = fee /\ t.outs = OutputsOf(p)
      BY <2>1, <2>2
    <3> QED
      BY <3>1, OutputsAreFew
  <2>4. p.kind \in Capped => ~ (fee > MaxFee)
    BY <2>3, FeeIsCapped
  <2> QED
    BY <2>1, <2>3, <2>4, GateAssumption DEF Good
<1>2. CASE p.kind \in AccountKinds
  <2>0. p.kind \notin UtxoKinds
    BY <1>2 DEF AccountKinds, UtxoKinds
  <2> DEFINE F == FieldsOf(p.kind)
             R == [f \in F \cup {"fee"} |-> IF f = "fee" THEN fee ELSE p[f]]
  <2>1. Right(p, fee) = R
    BY <2>0 DEF Right
  <2>2. "fee" \notin F
    BY <1>2 DEF AccountKinds, FieldsOf, EthBuilt, TokenSent, TokenBuilt,
           VaultBuilt, TronBuilt, Trc20Built, MsgSend, MsgDeposit
  <2>3. t = R \/ \E f \in F : t = [R EXCEPT ![f] = Slip]
    BY <2>0, <2>1 DEF Slipped
  <2> HIDE DEF F
  <2>4. t = [f \in F \cup {"fee"} |-> t[f]] /\ t["fee"] = fee
    BY <2>2, <2>3
  <2>5. t.fee = fee
    BY <2>4
  <2>6. t = Right(p, t.fee)
    BY <1>2, <2>4, AccountGateIsExact DEF F
  <2>7. p.kind \in Capped => ~ (fee > MaxFee)
    BY <2>0, <2>5, FeeIsCapped
  <2> QED
    BY <2>5, <2>6, <2>7, GateAssumption DEF Good
<1> QED
  BY <1>1, <1>2 DEF Sane

-----------------------------------------------------------------------------
\* What PaysTheDestination says of the transaction and the command.
Pays(t, command) == /\ command = "send" => Them \in Recipients(t)
                    /\ command = "swap" => Said(t).pays = Them

\* A gate without complaint has compared the memo or the payload with the
\* destination.
LEMMA GateReadsDestination ==
    ASSUME NEW p, Names(p, "swap"), NEW at, NEW t, Gate(t, p, at) = {}
    PROVE  p.memo.pays = Them
<1>1. ASSUME p.destination = Them, Unpaid(p) = {} PROVE p.memo.pays = Them
  BY <1>1 DEF Unpaid, If, memo_pays_destination, Them, Nobody
<1>3. CASE p.kind \in MemoSwaps /\ p.destination = Them
  <2>1. CASE p.kind = "utxo swap"
    BY <1>1, <1>3, <2>1 DEF Gate, verify_btc_swap
  <2>2. CASE p.kind = "eth swap"
    BY <1>1, <1>3, <2>2 DEF Gate, verify_eth_swap
  <2>3. CASE p.kind = "erc20 swap"
    BY <1>1, <1>3, <2>3 DEF Gate, verify_eth_token_swap
  <2>4. CASE p.kind = "tron swap"
    BY <1>1, <1>3, <2>4 DEF Gate, verify_tron_swap
  <2>5. CASE p.kind = "trc20 swap"
    BY <1>1, <1>3, <2>5 DEF Gate, verify_tron_token_swap
  <2>6. CASE p.kind = "cosmos deposit"
    BY <1>1, <1>3, <2>6 DEF Gate, verify_cosmos_deposit
  <2> QED
    BY <1>3, <2>1, <2>2, <2>3, <2>4, <2>5, <2>6 DEF MemoSwaps
<1>4. CASE p.kind = "utxo vault swap" /\ p.pays = Them
  <2>1. verify_chainflip_vault_swap(t, p, Ours, at) = {}
    BY <1>4 DEF Gate
  <2>2. Off(p.memo, p, {"asset", "pays"}) = {}
    BY <2>1 DEF verify_chainflip_vault_swap, PayloadWrong
  <2>3. p.memo["pays"] = p["pays"]
    BY <2>2 DEF Off
  <2> QED
    BY <1>4, <2>3
<1>5. CASE p.kind = "evm vault swap" /\ p.pays = Them
  <2>1. verify_chainflip_evm_vault_swap(t, p, Ours, at) = {}
    BY <1>5 DEF Gate
  <2>2. Off(p.memo, p, {"asset", "pays", "contract", "tokens"}) = {}
    BY <2>1 DEF verify_chainflip_evm_vault_swap
  <2>3. p.memo["pays"] = p["pays"]
    BY <2>2 DEF Off
  <2> QED
    BY <1>5, <2>3
<1> QED
  BY <1>3, <1>4, <1>5 DEF Names, VaultSwaps

\* What the gate read is what the transaction says.
LEMMA PassedPays ==
    ASSUME NEW p, Sane(p), NEW command, Names(p, command), NEW fee \in Nat, NEW at,
           NEW t \in {Right(p, fee)} \cup Slipped(p, fee), Gate(t, p, at) = {}
    PROVE  Pays(t, command)
<1>0. t = Right(p, t.fee)
  BY PassedIsGood DEF Good
<1>1. ASSUME command = "swap" PROVE p.memo.pays = Them
  BY <1>1, GateReadsDestination
<1>2. CASE p.kind \in UtxoKinds
  <2>1. t = [outs |-> OutputsOf(p), fee |-> t.fee]
    BY <1>0, <1>2 DEF Right
  <2>2. "outs" \in DOMAIN t /\ t.outs = OutputsOf(p)
    BY <2>1
  <2>3. ASSUME command = "send" PROVE Them \in Recipients(t)
    <3>1. Output(1, p.to, p.value, NoMemo) \in t.outs
      BY <2>2, OutputsAreFew
    <3>2. Output(1, p.to, p.value, NoMemo).to = Them
      BY <2>3 DEF Names, Output
    <3> QED
      BY <2>2, <3>1, <3>2 DEF Recipients
  <2>4. ASSUME command = "swap" PROVE Said(t).pays = Them
    <3>1. p.kind # "utxo send"
      BY <2>4 DEF Names, MemoSwaps, VaultSwaps
    <3>2. IsFiniteSet(t.outs)
      BY <2>2, OutputsAreFew
    <3>3. \E o : Saying(t) = {o} /\ o.memo = p.memo
      <4>1. p.kind # "utxo send" => \E o : Saying(t) = {o} /\ o.memo = p.memo
        BY <1>2, <3>2, UtxoGateIsStrict
      <4> QED
        BY <3>1, <4>1
    <3>4. Said(t) = p.memo
      BY <2>2, <3>3 DEF Said
    <3> QED
      BY <1>1, <2>4, <3>4
  <2> QED
    BY <2>3, <2>4 DEF Pays
<1>3. CASE p.kind \in AccountKinds
  <2> DEFINE F == FieldsOf(p.kind)
  <2>1. t = [f \in F \cup {"fee"} |-> IF f = "fee" THEN t.fee ELSE p[f]]
    BY <1>0, <1>3 DEF Right, AccountKinds, UtxoKinds
  <2>2. "outs" \notin F
    BY <1>3 DEF AccountKinds, FieldsOf, EthBuilt, TokenSent, TokenBuilt,
           VaultBuilt, TronBuilt, Trc20Built, MsgSend, MsgDeposit
  <2>3. command = "swap" => "memo" \in F
    BY <1>3 DEF Names, MemoSwaps, VaultSwaps, AccountKinds, FieldsOf, EthBuilt,
           TokenSent, TokenBuilt, VaultBuilt, TronBuilt, Trc20Built, MsgDeposit
  <2>4. command = "send" => "to" \in F
    BY <1>3 DEF Names, SendKinds, AccountKinds, FieldsOf, EthBuilt, TokenSent,
           TronBuilt, Trc20Built, MsgSend
  <2> HIDE DEF F
  <2>5. "outs" \notin DOMAIN t
    BY <2>1, <2>2
  <2>6. ASSUME command = "swap" PROVE Said(t).pays = Them
    <3>1. "memo" \in DOMAIN t /\ t.memo = p.memo
      BY <2>1, <2>3, <2>6
    <3> QED
      BY <1>1, <2>5, <2>6, <3>1 DEF Said
  <2>7. ASSUME command = "send" PROVE Them \in Recipients(t)
    <3>1. t.to = p.to /\ p.to = Them
      BY <2>1, <2>4, <2>7 DEF Names
    <3> QED
      BY <2>5, <3>1 DEF Recipients
  <2> QED
    BY <2>6, <2>7 DEF Pays
<1> QED
  BY <1>2, <1>3 DEF Sane

-----------------------------------------------------------------------------
\* At the prompt and behind it, what is shown was built for the plan, right or
\* slipped, the plan is what the command asked for, and the problems are those its
\* gate found then, none once it is sent; what is out passed it.
Fits(p, t, q, command) ==
    \E fee \in Nat : \E at : /\ Sane(p) /\ Names(p, command)
                             /\ t \in {Right(p, fee)} \cup Slipped(p, fee)
                             /\ q = Gate(t, p, at)

PlannedInv ==
    /\ CommandInv
    /\ step \in {"prompt", "sending"} => Fits(plan, tx, problems, args.command)
    /\ step = "sending" => problems = {}
    /\ Sent => /\ step \in AfterPrompt
               /\ Good(sent.tx, plan) /\ Pays(sent.tx, args.command)

\* The first state has nothing planned, and every step keeps it so: what goes
\* out is what stood at the prompt without a problem.
LEMMA PlannedInvInit == Init => PlannedInv
  BY DEF Init, FrameInit, SwapInit, PlannedInv, CommandInv, Sent

\* Every step keeps it: what goes out is what stood at the prompt without a
\* problem.
LEMMA PlannedInvNext == PlannedInv /\ [Next]_vars => PlannedInv'
<1> SUFFICES ASSUME PlannedInv, [Next]_vars PROVE PlannedInv'
  OBVIOUS
<1>1. /\ CommandInv' /\ (Quiet \/ Preparing \/ Sending)
      /\ UNCHANGED args \/ step = "start"
  BY EveryStep DEF PlannedInv
<1>2. CASE Quiet
  BY <1>1, <1>2 DEF PlannedInv, Quiet, Sent, AfterPrompt
<1>3. CASE Preparing
  <2>1. PICK p, fee : /\ Sane(p) /\ Names(p, args.command)
                      /\ fee \in Nat /\ Prepare(p, fee)
    BY <1>3 DEF Preparing
  <2>2. PICK t \in {Right(p, fee)} \cup Slipped(p, fee) :
          /\ plan' = p /\ tx' = t /\ problems' = Gate(t, p, now)
          /\ step' = "prompt" /\ UNCHANGED sent
    BY <2>1 DEF Prepare
  <2>3. sent = Unsent /\ UNCHANGED args
    BY <1>1, <1>3 DEF Preparing, Busy, AfterPrompt, PlannedInv, Sent
  <2>4. Fits(plan', tx', problems', args'.command)
    BY <2>1, <2>2, <2>3 DEF Fits
  <2> QED
    BY <1>1, <2>2, <2>3, <2>4 DEF PlannedInv, Sent
<1>4. CASE Sending
  <2>1. step = "sending" /\ step' \in AfterPrompt /\ UNCHANGED <<plan, tx, problems>>
    BY <1>4 DEF Sending, Post, End, AfterPrompt
  <2>2. sent' = sent \/ sent'.tx = tx
    BY <1>4 DEF Sending, Post
  <2>3. problems = {} /\ Fits(plan, tx, problems, args.command) /\ UNCHANGED args
    BY <1>1, <2>1 DEF PlannedInv
  <2>4. Good(tx, plan) /\ Pays(tx, args.command)
    BY <2>3, PassedIsGood, PassedPays DEF Fits
  <2>5. Sent' => Good(sent'.tx, plan') /\ Pays(sent'.tx, args'.command)
    BY <2>1, <2>2, <2>3, <2>4 DEF Sent, PlannedInv
  <2>6. step' # "prompt"
    BY <2>1 DEF AfterPrompt
  <2> QED
    BY <1>1, <2>1, <2>3, <2>5, <2>6 DEF PlannedInv
<1> QED
  BY <1>1, <1>2, <1>3, <1>4

\* Whatever goes out, of any command, over any chain, is what its plan says, at
\* a fee below the cap, whichever one thing its builder got wrong (verify.py,
\* cli._confirm_and_execute).
THEOREM AlwaysAsPlanned == Spec => []SentAsPlanned
<1>1. PlannedInv => SentAsPlanned
  BY DEF PlannedInv, SentAsPlanned, Good
<1> QED
  BY <1>1, PlannedInvInit, PlannedInvNext, PTL DEF Spec

\* A swap or a send that goes out ends with the one the user named, whatever
\* the node or the broker answered (verify.memo_pays_destination,
\* chainflip.prepare_vault_swap).
THEOREM DestinationIsPaid == Spec => []PaysTheDestination
<1>1. PlannedInv => PaysTheDestination
  BY DEF PlannedInv, PaysTheDestination, Pays
<1> QED
  BY <1>1, PlannedInvInit, PlannedInvNext, PTL DEF Spec

-----------------------------------------------------------------------------
\* The network as a liquidity command can find it.
Worlds(source) ==
    [tradable : BOOLEAN, paused : BOOLEAN, status : {"Available", "Staged"},
     protocol : {"none", "pending", "only", "symmetric"},
     asset : {"none"} \cup Senders(source),
     enabled : BOOLEAN, halt : Nat, mimir : Nat, units : Nat, last : Nat]

\* What the command saw when it looked, and still holds if nothing moved.
LookedAt ==
    /\ args.command = "add" => world.tradable /\ ~ world.paused
    /\ args.command = "add protocol" =>
           /\ ~ world.paused /\ world.protocol # "pending"
           /\ world.status = "Available"
    /\ args.command = "withdraw" => (side = "protocol" <=> world.protocol # "none")
    /\ args.command = "pool add" => world.enabled /\ ~ Halted(world, heights)
    /\ args.command = "pool withdraw" =>
           /\ world.enabled /\ ~ Halted(world, heights)
           /\ world.units > 0 /\ world.last + MaturityOf(world) <= heights
           /\ before = world.units

Shown   == step \in {"prompt", "sending", "waiting"}
Decided == step = "found" \/ Shown

Counts == /\ now \in Nat /\ heights \in Nat /\ looked \in Nat /\ moves \in Nat
          /\ before \in Nat /\ looked <= moves /\ heights <= now

\* A withdrawal from the asset side is paid from an address of the wallet.
Paid == (Shown /\ args.command = "withdraw" /\ side # "protocol") =>
            payer \in Senders(args.source)

LiquidityInv ==
    /\ step # "start" => world \in Worlds(args.source)
    /\ Counts /\ Paid
    /\ step = "start" => world = Plain
    /\ step \notin {"waiting", "ended"} => outcome = "none" /\ told = "nothing"
    /\ outcome = "none" => ~ heard
    /\ (Decided /\ outcome = "none" /\ moves = looked) => LookedAt
    /\ (outcome = "taken" /\ args.command = "pool withdraw" /\ moves = looked) =>
           world.units < before
    /\ TakenUnlessChanged /\ TriggerFindsPosition
    /\ told = "withdrawn" => step = "ended" /\ world.units < before
    /\ heard => moves > looked \/ told = "withdrawn"

\* Whatever happens to a network leaves it one.
LEMMA ChangedIsAWorld ==
    ASSUME NEW source, NEW w \in Worlds(source), now \in Nat,
           NEW x \in Changed(w, source)
    PROVE  x \in Worlds(source)
<1>1. MaxTime \in Nat /\ Unset \in Nat
  BY CommandAssumption DEF Unset
<1>2. CASE x \in {[w EXCEPT !.tradable = ~ @], [w EXCEPT !.paused = ~ @],
                  [w EXCEPT !.enabled = ~ @]}
  BY <1>2 DEF Worlds
<1>3. CASE x = [w EXCEPT !.status = IF @ = "Staged" THEN "Available" ELSE "Staged"]
  BY <1>3 DEF Worlds
<1>4. CASE x = [w EXCEPT !.mimir = IF @ = 0 THEN Unset ELSE 0]
  BY <1>1, <1>4 DEF Worlds
<1>5. CASE x = [w EXCEPT !.units = 2, !.last = now]
  BY <1>5 DEF Worlds
<1>6. ASSUME NEW p \in {"none", "pending", "only", "symmetric"},
             x = [w EXCEPT !.protocol = p]
      PROVE  x \in Worlds(source)
  BY <1>6 DEF Worlds
<1>7. ASSUME NEW h \in 0..MaxTime, x = [w EXCEPT !.halt = h] PROVE x \in Worlds(source)
  BY <1>1, <1>7 DEF Worlds
<1>8. ASSUME NEW a \in {"none"} \cup Senders(source), x = [w EXCEPT !.asset = a]
      PROVE  x \in Worlds(source)
  BY <1>8 DEF Worlds
<1> QED
  BY <1>2, <1>3, <1>4, <1>5, <1>6, <1>7, <1>8 DEF Changed

\* An uneventful one is a network for any source.
LEMMA PlainIsAWorld == \A source : Plain \in Worlds(source)
<1>1. Unset \in Nat
  BY CommandAssumption DEF Unset
<1> QED
  BY <1>1 DEF Plain, Worlds

\* The network the command meets is one for its source, also before it has any.
LEMMA WorldIsKnown == LiquidityInv => world \in Worlds(args.source)
  BY PlainIsAWorld DEF LiquidityInv

\* So is every network a command can find.
LEMMA FoundIsAWorld ==
    ASSUME now \in Nat, NEW source, NEW w \in Found(source)
    PROVE  w \in Worlds(source)
<1>1. MaxTime \in Nat /\ Unset \in Nat
  BY CommandAssumption DEF Unset
<1>2. Plain \in Worlds(source)
  BY PlainIsAWorld
<1>3. ASSUME NEW m \in {0, Unset}, NEW h \in 0..MaxTime,
             w = [Plain EXCEPT !.units = 2, !.mimir = m, !.halt = h]
      PROVE  w \in Worlds(source)
  <2>1. \A v \in Worlds(source), n \in Nat : /\ [v EXCEPT !.units = n] \in Worlds(source)
                                     /\ [v EXCEPT !.mimir = n] \in Worlds(source)
                                     /\ [v EXCEPT !.halt = n] \in Worlds(source)
    BY DEF Worlds
  <2> DEFINE u == [Plain EXCEPT !.units = 2]
             v == [u EXCEPT !.mimir = m]
  <2>2. u \in Worlds(source)
    BY <1>2, <2>1
  <2>3. v \in Worlds(source)
    <3> HIDE DEF u
    <3> QED
      BY <1>1, <2>1, <2>2
  <2>4. h \in Nat /\ w = [v EXCEPT !.halt = h]
    BY <1>1, <1>3
  <2> HIDE DEF v
  <2> QED
    BY <2>1, <2>3, <2>4
<1>4. w \in Changed(Plain, source) => w \in Worlds(source)
  BY <1>2, ChangedIsAWorld
<1> QED
  BY <1>2, <1>3, <1>4 DEF Found

\* A step that is not about the network: what it may do to the clock, to the
\* progress of the command and to its report.
Aside ==
    /\ UNCHANGED liquidityVars
    /\ \/ now' = now
       \/ step \notin {"waiting", "ended"} /\ now' = now + 1
    /\ UNCHANGED args \/ step = "start"
    /\ UNCHANGED amount \/ step \notin {"waiting", "ended"}
    /\ step = "start" => step' \in {"start", "sizing"}
    /\ step' = "start" => step = "start"
    /\ Decided' => Decided \/ args.command \notin LiquidityCommands
    /\ Shown' => Shown \/ side = "protocol" \/ args.command # "withdraw"
    /\ step = "waiting" => step' \in {"waiting", "ended"}
    /\ step' \notin {"waiting", "ended"} => told' = told
    /\ told' = "withdrawn" => told = "withdrawn"

\* When the command has ended nothing moves any more.
LEMMA EndedIsOver ==
    ASSUME [Next]_vars, step = "ended"
    PROVE  UNCHANGED vars
<1>1. ASSUME Next PROVE FALSE
  <2>1. ~ \E a : StartSwap(a) \/ StartLiquidity(a)
    BY DEF StartSwap, StartLiquidity
  <2>2. ~ (\/ _swap_from_utxo \/ _swap_from_evm \/ _swap_from_tron \/ _swap_from_cosmos
           \/ _send_utxo \/ _send_evm \/ _send_tron \/ _send_cosmos \/ _liquidity)
    BY DEF _swap_from_utxo, _swap_from_evm, _swap_from_tron, _swap_from_cosmos,
       _send_utxo, _send_evm, _send_tron, _send_cosmos, Sizing, _liquidity
  <2>3. ~ (\/ SelectNamed \/ SelectBest \/ SelectRefused \/ prepare_swap \/ PrepareSend
           \/ _swap_via_cow \/ _swap_via_chainflip \/ _swap_via_chainflip_evm \/ Settle)
    BY DEF SelectNamed, SelectBest, SelectRefused, Sized, prepare_swap, PrepareSend,
       _swap_via_cow, _swap_via_chainflip, _swap_via_chainflip_evm, OnVault, Settle
  <2>4. ~ (\/ Move \/ _liquidity_utxo \/ _liquidity_evm \/ _liquidity_tron
           \/ _liquidity_protocol_only \/ cmd_withdraw_liquidity
           \/ _withdraw_from_protocol_side \/ cmd_pool_add \/ cmd_pool_withdraw
           \/ Arrive \/ _await_pool_withdraw \/ PollsOver)
    BY DEF Move, _liquidity_utxo, _liquidity_evm, _liquidity_tron, FromAsset,
       _liquidity_protocol_only, cmd_withdraw_liquidity,
       _withdraw_from_protocol_side, cmd_pool_add, cmd_pool_withdraw, Arrive,
       _await_pool_withdraw, PollsOver, Awaiting
  <2>5. ~ (\/ Frame(Unsafe) \/ Frame(NotSent) \/ Frame(Expired) \/ Frame(Tick)
           \/ Frame(Confirm)
           \/ Frame(Post(IF Outlives THEN "waiting" ELSE "ended", "sent")))
    BY DEF Frame, Unsafe, NotSent, Expired, Tick, Confirm, Post
  <2> QED
    BY <1>1, <2>1, <2>2, <2>3, <2>4, <2>5 DEF Next, Swap
<1> QED
  BY <1>1

\* Swaps, sends, the prompt, the sizing of a liquidity command and the end of
\* the polling are such steps.
LEMMA AsideSteps ==
    ASSUME CommandInv,
           \/ \E a : Swap(StartSwap(a))
           \/ Swap(_swap_from_utxo) \/ Swap(_swap_from_evm)
           \/ Swap(_swap_from_tron) \/ Swap(_swap_from_cosmos)
           \/ Swap(_send_utxo) \/ Swap(_send_evm) \/ Swap(_send_tron) \/ Swap(_send_cosmos)
           \/ Swap(SelectNamed) \/ Swap(SelectBest) \/ Swap(SelectRefused)
           \/ Swap(prepare_swap) \/ Swap(PrepareSend) \/ Swap(_swap_via_cow)
           \/ Swap(_swap_via_chainflip) \/ Swap(_swap_via_chainflip_evm) \/ Swap(Settle)
           \/ _liquidity \/ _withdraw_from_protocol_side \/ PollsOver
           \/ Frame(Unsafe) \/ Frame(NotSent) \/ Frame(Expired) \/ Frame(Tick)
           \/ Frame(Confirm)
           \/ Frame(Post(IF Outlives THEN "waiting" ELSE "ended", "sent"))
    PROVE  Aside
<1>1. CASE \E a : Swap(StartSwap(a))
  BY <1>1 DEF Swap, StartSwap, Aside, Decided, Shown
<1>2. ASSUME NEW reserve, NEW next \in {"sized", "selected", "home"},
             step = "sizing", Sizes(reserve, next) \/ Refuse, UNCHANGED liquidityVars
      PROVE  Aside
  BY <1>2 DEF Sizes, Refuse, Abort, swapVars, Aside, Decided, Shown
<1>3. CASE \/ Swap(_swap_from_utxo) \/ Swap(_swap_from_evm)
           \/ Swap(_swap_from_tron) \/ Swap(_swap_from_cosmos)
           \/ Swap(_send_utxo) \/ Swap(_send_evm) \/ Swap(_send_tron) \/ Swap(_send_cosmos)
           \/ _liquidity
  <2>1. step = "sizing" /\ UNCHANGED liquidityVars
        /\ (Refuse \/ \E reserve : \E next \in {"sized", "selected", "home"} :
                         Sizes(reserve, next))
    BY <1>3 DEF Swap, _swap_from_utxo, _swap_from_evm, _swap_from_tron,
       _swap_from_cosmos, _send_utxo, _send_evm, _send_tron, _send_cosmos, Sizing,
       _liquidity
  <2> QED
    BY <1>2, <2>1
<1>4. CASE \/ Swap(SelectNamed) \/ Swap(SelectBest) \/ Swap(SelectRefused)
           \/ Swap(_swap_via_cow) \/ Swap(Settle)
  BY <1>4 DEF Swap, SelectNamed, SelectBest, SelectRefused, _swap_via_cow, Settle,
     Sized, End, Abort, swapVars, Aside, Decided, Shown
<1>5. ASSUME step \in {"home", "selected"}, args.command \in {"swap", "send"},
             UNCHANGED <<args, liquidityVars>>,
             Abort \/ \E p, fee : Prepare(p, fee)
      PROVE  Aside
  BY <1>5 DEF Prepare, Abort, Aside, LiquidityCommands, Decided, Shown
<1>6. CASE \/ Swap(prepare_swap) \/ Swap(PrepareSend)
           \/ Swap(_swap_via_chainflip) \/ Swap(_swap_via_chainflip_evm)
  <2>1. step \in {"home", "selected"} /\ args.command \in {"swap", "send"}
        /\ UNCHANGED <<args, liquidityVars>>
    BY <1>6 DEF Swap, prepare_swap, PrepareSend, _swap_via_chainflip,
       _swap_via_chainflip_evm, OnVault, swapVars, CommandInv
  <2>2. Abort \/ \E p, fee : Prepare(p, fee)
    BY <1>6 DEF Swap, prepare_swap, PrepareSend, _swap_via_chainflip,
       _swap_via_chainflip_evm, Encoded, PrepareFunded
  <2> QED
    BY <1>5, <2>1, <2>2
<1>7. CASE _withdraw_from_protocol_side
  BY <1>7 DEF _withdraw_from_protocol_side, Prepare, swapVars, Aside, Decided,
     Shown
<1>8. CASE PollsOver
  BY <1>8 DEF PollsOver, Awaiting, End, swapVars, Aside, Decided, Shown
<1>9. CASE Frame(Unsafe) \/ Frame(NotSent) \/ Frame(Expired) \/ Frame(Tick)
  BY <1>9 DEF Frame, Unsafe, NotSent, Expired, Tick, End, swapVars, Aside, Decided,
     Shown
<1>10. CASE Frame(Confirm)
  BY <1>10 DEF Frame, Confirm, swapVars, Aside, Decided, Shown
<1>11. CASE Frame(Post(IF Outlives THEN "waiting" ELSE "ended", "sent"))
  <2>1. /\ step = "sending" /\ step' \in AfterPrompt
        /\ UNCHANGED <<now, args, amount, liquidityVars>>
        /\ told' = told \/ (step' \in {"waiting", "ended"} /\ told' \in {"sent", "failed"})
    BY <1>11 DEF Frame, Post, End, swapVars, AfterPrompt
  <2> QED
    BY <2>1 DEF Aside, AfterPrompt, Decided, Shown
<1> QED
  BY <1>1, <1>3, <1>4, <1>6, <1>7, <1>8, <1>9, <1>10, <1>11

\* A step that is not about the network keeps what the command knows of it.
LEMMA AsideKeeps ==
    ASSUME LiquidityInv, Aside, step # "ended"
    PROVE  LiquidityInv'
<1>1. UNCHANGED <<world, moves, looked, heights, side, payer, before, polls, outcome,
                  heard>>
  BY DEF Aside, liquidityVars
<1>0. /\ world' \in Worlds(args'.source) /\ Paid'
      /\ step' = "start" => world' = Plain
  <2>1. CASE step = "start"
    <3>1. world = Plain /\ step' \in {"start", "sizing"}
      BY <2>1 DEF LiquidityInv, Aside
    <3> QED
      BY <1>1, <3>1, PlainIsAWorld DEF Paid, Shown
  <2>2. CASE step # "start"
    <3>1. UNCHANGED args /\ step' # "start"
      BY <2>2 DEF Aside
    <3>2. Paid'
      BY <1>1, <3>1 DEF LiquidityInv, Aside, Paid, Shown
    <3> QED
      BY <1>1, <3>1, <3>2, <2>2, WorldIsKnown DEF LiquidityInv
  <2> QED
    BY <2>1, <2>2
<1>2. Counts'
  <2>1. Counts /\ now' \in {now, now + 1}
    BY DEF LiquidityInv, Aside
  <2> QED
    BY <1>1, <2>1 DEF Counts
<1>3. ASSUME Decided', outcome = "none", moves = looked PROVE LookedAt'
  <2>1. UNCHANGED args
    BY <1>3 DEF Aside, Decided, Shown
  <2>2. LookedAt
    <3>1. CASE Decided
      BY <1>3, <3>1 DEF LiquidityInv
    <3>2. CASE args.command \notin LiquidityCommands
      BY <3>2 DEF LookedAt, LiquidityCommands
    <3> QED
      BY <1>3, <3>1, <3>2 DEF Aside
  <2> QED
    BY <1>1, <2>1, <2>2 DEF LookedAt, Halted, MaturityOf
<1>4. ASSUME outcome # "none" PROVE UNCHANGED <<args, now, amount>>
  BY <1>4 DEF LiquidityInv, Aside
<1>5. TakenUnlessChanged' /\ TriggerFindsPosition'
  <2>1. CASE outcome = "none"
    BY <1>1, <2>1 DEF TakenUnlessChanged, TriggerFindsPosition
  <2>2. CASE outcome # "none"
    BY <1>1, <1>4, <2>2 DEF LiquidityInv, TakenUnlessChanged, TriggerFindsPosition,
       SinceLooked, dust_threshold
  <2> QED
    BY <2>1, <2>2
<1>6. step' \notin {"waiting", "ended"} => outcome = "none" /\ told' = "nothing"
  BY DEF LiquidityInv, Aside
<1>7. told' # "withdrawn" /\ told # "withdrawn"
  BY DEF LiquidityInv, Aside
<1>8. (outcome = "taken" /\ args'.command = "pool withdraw" /\ moves = looked) =>
          world.units < before
  BY <1>4 DEF LiquidityInv
<1> QED
  BY <1>0, <1>1, <1>2, <1>3, <1>5, <1>6, <1>7, <1>8 DEF LiquidityInv

\* A liquidity command starts on a network it has not looked at.
LEMMA StartKeeps ==
    ASSUME LiquidityInv, NEW a, StartLiquidity(a)
    PROVE  LiquidityInv'
<1>1. /\ step = "start" /\ step' = "sizing"
      /\ args' = a /\ world' \in Found(a.source)
      /\ UNCHANGED <<now, told, moves, looked, heights, side, before, polls, outcome,
                     heard>>
  BY DEF StartLiquidity
<1>2. outcome = "none" /\ ~ heard /\ told = "nothing"
  BY <1>1 DEF LiquidityInv
<1>3. world' \in Worlds(args'.source)
  BY <1>1, FoundIsAWorld DEF LiquidityInv, Counts
<1>4. Counts'
  BY <1>1 DEF LiquidityInv, Counts
<1> QED
  BY <1>1, <1>2, <1>3, <1>4 DEF LiquidityInv, Decided, Shown, Paid,
     TakenUnlessChanged, TriggerFindsPosition

\* Once the network has changed, nothing is claimed of it.
LEMMA MoveKeeps ==
    ASSUME LiquidityInv, Move
    PROVE  LiquidityInv'
<1>1. /\ moves' = moves + 1 /\ world' \in Changed(world, args.source)
      /\ UNCHANGED <<now, step, told, args, looked, heights, side, payer, before,
                     outcome, heard>>
      /\ step \notin {"start", "ended"}
  BY DEF Move, frameVars, swapVars
<1>7. Paid'
  BY <1>1 DEF LiquidityInv, Paid, Shown
<1>2. world' \in Worlds(args'.source)
  BY <1>1, ChangedIsAWorld DEF LiquidityInv, Counts
<1>3. Counts' /\ moves' > looked'
  <2>1. Counts
    BY DEF LiquidityInv
  <2> QED
    BY <1>1, <2>1 DEF Counts
<1>4. TakenUnlessChanged' /\ TriggerFindsPosition'
  BY <1>3 DEF TakenUnlessChanged, TriggerFindsPosition, SinceLooked
<1>5. told' # "withdrawn"
  BY <1>1 DEF LiquidityInv
<1>6. ~ (moves' = looked')
  BY <1>3 DEF Counts
<1> QED
  BY <1>1, <1>2, <1>3, <1>4, <1>5, <1>6, <1>7 DEF LiquidityInv

\* A command that has looked goes on, or gives up, with what it saw.
LEMMA LookKeeps ==
    ASSUME LiquidityInv, step \in {"sized", "found"},
           UNCHANGED <<now, args, world, moves, outcome, heard>>,
           step' \in {"found", "prompt", "ended"},
           looked' \in {looked, moves}, heights' \in {heights, now},
           before' \in {before, world.units},
           step' # "ended" => told' = told, told' # "withdrawn",
           (step' = "prompt" /\ args.command = "withdraw") =>
               payer' \in Senders(args.source),
           (step' # "ended" /\ moves = looked') => LookedAt'
    PROVE  LiquidityInv'
<1>1. outcome = "none" /\ ~ heard /\ told = "nothing"
  BY DEF LiquidityInv
<1>2. Counts'
  <2>1. Counts /\ world.units \in Nat
    BY DEF LiquidityInv, Worlds
  <2> QED
    BY <2>1 DEF Counts
<1>3. (Decided' /\ moves = looked') => LookedAt'
  BY DEF Decided, Shown
<1>4. TakenUnlessChanged' /\ TriggerFindsPosition'
  BY <1>1 DEF TakenUnlessChanged, TriggerFindsPosition
<1>5. step' # "ended" => told' = "nothing"
  BY <1>1
<1>6. Paid'
  BY DEF Paid, Shown
<1> QED
  BY <1>1, <1>2, <1>3, <1>4, <1>5, <1>6 DEF LiquidityInv

\* The deposits from the asset side: an add is built only while the network
\* trades and takes liquidity (swap.prepare_liquidity).
LEMMA FromAssetKeeps ==
    ASSUME LiquidityInv, CommandInv, _liquidity_utxo \/ _liquidity_evm \/ _liquidity_tron
    PROVE  LiquidityInv'
<1>1. \/ step = "sized" /\ Adding /\ Reading
      \/ step = "found" /\ side = "asset" /\ UNCHANGED <<looked, heights>>
  BY DEF _liquidity_utxo, _liquidity_evm, _liquidity_tron, FromAsset
<1>2. UNCHANGED <<args, world, moves, side, before, outcome, heard>>
  BY DEF _liquidity_utxo, _liquidity_evm, _liquidity_tron, FromAsset, swapVars, Answered
<1>3. Abort \/ prepare_liquidity
  BY DEF _liquidity_utxo, _liquidity_evm, _liquidity_tron
<1>4. \/ Abort
      \/ /\ \E p, fee : Prepare(p, fee)
         /\ Adding => world.tradable /\ ~ world.paused
  BY <1>3 DEF prepare_liquidity, PrepareFunded, _require_tradable,
     lp_deposit_pause_reason
<1>5. /\ UNCHANGED now
      /\ step' \in {"prompt", "ended"}
      /\ step' # "ended" => told' = told
      /\ step' = "ended" => told' = "refused"
  BY <1>4 DEF Abort, Prepare
<1>6. told' # "withdrawn"
  BY <1>1, <1>5 DEF LiquidityInv
<1>7. ASSUME step' # "ended", moves = looked' PROVE LookedAt'
  <2>1. Adding => world.tradable /\ ~ world.paused
    BY <1>4, <1>7 DEF Abort
  <2>2. CASE step = "sized" /\ Adding
    BY <1>2, <2>1, <2>2 DEF LookedAt, Adding
  <2>3. CASE step = "found" /\ UNCHANGED <<looked, heights>>
    <3>1. outcome = "none" /\ moves = looked
      BY <1>7, <2>3 DEF LiquidityInv
    <3>2. LookedAt
      BY <2>3, <3>1 DEF LiquidityInv, Decided
    <3> QED
      BY <1>2, <2>3, <3>2 DEF LookedAt, Halted, MaturityOf
  <2> QED
    BY <1>1, <2>2, <2>3
<1>8. looked' \in {looked, moves} /\ heights' \in {heights, now}
  BY <1>1 DEF Reading
<1>9. payer' \in Senders(args.source)
  BY DEF _liquidity_utxo, _liquidity_evm, _liquidity_tron, FromAsset
<1> QED
  BY <1>1, <1>2, <1>5, <1>6, <1>7, <1>8, <1>9, LookKeeps

\* The deposits of the protocol's coin, and the question which side a position
\* lives on (swap.prepare_protocol_only_liquidity, prepare_pool_deposit,
\* prepare_pool_withdraw, cli._protocol_side_position).
LEMMA FromProtocolKeeps ==
    ASSUME LiquidityInv, \/ _liquidity_protocol_only \/ cmd_withdraw_liquidity
                         \/ cmd_pool_add \/ cmd_pool_withdraw
    PROVE  LiquidityInv'
<1>1. /\ step = "sized" /\ looked' = moves /\ heights' = now
      /\ UNCHANGED <<args, world, moves, outcome, heard>>
      /\ before' \in {before, world.units}
  BY DEF _liquidity_protocol_only, cmd_withdraw_liquidity, cmd_pool_add,
     cmd_pool_withdraw, Reading, Answered, swapVars
<1>2. /\ UNCHANGED now
      /\ step' \in {"found", "prompt", "ended"}
      /\ step' # "ended" => told' = told
      /\ step' = "ended" => told' = "refused"
  BY DEF _liquidity_protocol_only, cmd_withdraw_liquidity, cmd_pool_add,
     cmd_pool_withdraw, prepare_protocol_only_liquidity, _protocol_side_position,
     prepare_pool_deposit, prepare_pool_withdraw, Abort, Prepare
<1>3. told' # "withdrawn"
  BY <1>1, <1>2 DEF LiquidityInv
<1>4. ASSUME step' # "ended" PROVE LookedAt'
  <2>1. CASE _liquidity_protocol_only
    <3>1. ~ world.paused /\ world.protocol # "pending" /\ world.status = "Available"
      BY <1>4, <2>1 DEF _liquidity_protocol_only, prepare_protocol_only_liquidity,
         lp_deposit_pause_reason, Abort
    <3>2. args.command = "add protocol"
      BY <2>1 DEF _liquidity_protocol_only
    <3> QED
      BY <1>1, <3>1, <3>2 DEF LookedAt
  <2>2. CASE cmd_withdraw_liquidity
    <3>1. side' = IF world.protocol = "none" THEN "asset" ELSE "protocol"
      BY <1>4, <2>2 DEF cmd_withdraw_liquidity, _protocol_side_position, Abort
    <3>2. args.command = "withdraw"
      BY <2>2 DEF cmd_withdraw_liquidity
    <3> QED
      BY <1>1, <3>1, <3>2 DEF LookedAt
  <2>3. CASE cmd_pool_add
    <3>1. world.enabled /\ ~ Halted(world, now)
      BY <1>4, <2>3 DEF cmd_pool_add, prepare_pool_deposit, _require_protocol_pool, Abort
    <3>2. args.command = "pool add"
      BY <2>3 DEF cmd_pool_add
    <3> QED
      BY <1>1, <3>1, <3>2 DEF LookedAt, Halted
  <2>4. CASE cmd_pool_withdraw
    <3>1. /\ world.enabled /\ ~ Halted(world, now)
          /\ world.units # 0 /\ ~ (Left(world, now) > 0)
      BY <1>4, <2>4 DEF cmd_pool_withdraw, prepare_pool_withdraw,
         _require_protocol_pool, Abort
    <3>2. args.command = "pool withdraw" /\ before' = world.units
      BY <2>4 DEF cmd_pool_withdraw
    <3>3. world.units > 0 /\ world.last + MaturityOf(world) <= now
      <4>1. world.units \in Nat /\ world.last \in Nat /\ now \in Nat
        BY WorldIsKnown DEF LiquidityInv, Counts, Worlds
      <4>2. MaturityOf(world) \in Nat
        <5>1. world.mimir \in Nat
          BY WorldIsKnown DEF Worlds
        <5> QED
          BY <5>1, LiquidityAssumption DEF MaturityOf
      <4> QED
        BY <3>1, <4>1, <4>2 DEF Left
    <3> QED
      BY <1>1, <3>1, <3>2, <3>3 DEF LookedAt, Halted, MaturityOf
  <2> QED
    BY <2>1, <2>2, <2>3, <2>4
<1>5. ~ (step' = "prompt" /\ args.command = "withdraw")
  BY DEF _liquidity_protocol_only, cmd_withdraw_liquidity, cmd_pool_add,
     cmd_pool_withdraw, _protocol_side_position, Abort
<1> QED
  BY <1>1, <1>2, <1>3, <1>4, <1>5, LookKeeps

\* A withdrawal from the asset side that is of no position.
Unmatched == \/ world.asset = "none"
             \/ args.source = "utxo" /\ world.asset # payer

\* What a network that has not moved since the command looked refuses: an add
\* to a staged pool, a withdrawal that is of no position, and
\* what a halt announced for a height it has reached meanwhile forbids.
LEMMA RefusedForAReason ==
    ASSUME LiquidityInv, step = "waiting", outcome = "none",
           args.command \in LiquidityCommands, ~ Takes(world)
    PROVE  /\ args.command # "withdraw" =>
                  SinceLooked \/ (args.command = "add" /\ world.status = "Staged")
           /\ args.command = "withdraw" =>
                  SinceLooked \/ (world.protocol = "none" /\ Unmatched)
<1>1. CASE moves # looked
  <2>1. Counts
    BY DEF LiquidityInv
  <2>2. moves > looked
    BY <1>1, <2>1 DEF Counts
  <2> QED
    BY <2>2 DEF SinceLooked
<1>2. CASE moves = looked
  <2>1. LookedAt
    BY <1>2 DEF LiquidityInv, Decided, Shown
  <2>2. now \in Nat /\ heights \in Nat /\ heights <= now /\ world.halt \in Nat
    BY DEF LiquidityInv, Counts, Worlds
  <2>3. ASSUME ~ Halted(world, heights), Halted(world, now) PROVE SinceLooked
    <3> DEFINE h == world.halt
    <3>1. h > 0 /\ now >= h /\ ~ (heights >= h)
      BY <2>3 DEF Halted
    <3>2. h \in Nat
      BY <2>2
    <3>3. h \in (heights + 1)..now
      <4> HIDE DEF h
      <4> QED
        BY <2>2, <3>1, <3>2
    <3> QED
      BY <3>3 DEF SinceLooked
  <2>4. CASE args.command = "add"
    <3>1. world.status \in {"Available", "Staged"}
      BY DEF LiquidityInv, Worlds
    <3> QED
      BY <2>1, <2>4, <3>1 DEF LookedAt, Takes
  <2>5. CASE args.command = "add protocol"
    BY <2>1, <2>5 DEF LookedAt, Takes
  <2>6. CASE args.command = "withdraw"
    <3>1. side # "protocol" /\ world.protocol = "none" /\ world.asset # payer
      BY <2>1, <2>6 DEF LookedAt, Takes
    <3>2. /\ payer \in Senders(args.source)
          /\ world.asset \in {"none"} \cup Senders(args.source)
      BY <2>6, <3>1 DEF LiquidityInv, Paid, Shown, Worlds
    <3>3. Unmatched
      BY <3>1, <3>2 DEF Senders, Unmatched
    <3> QED
      BY <2>6, <3>1, <3>3
  <2>7. CASE args.command = "pool add"
    BY <2>1, <2>3, <2>7 DEF LookedAt, Takes, _require_protocol_pool
  <2>8. CASE args.command = "pool withdraw"
    <3>1. world.last + MaturityOf(world) <= now
      <4>1. world.last \in Nat /\ world.mimir \in Nat
        BY DEF LiquidityInv, Worlds
      <4>2. MaturityOf(world) \in Nat
        BY <4>1, LiquidityAssumption DEF MaturityOf
      <4>3. world.last + MaturityOf(world) <= heights
        BY <2>1, <2>8 DEF LookedAt
      <4> DEFINE due == world.last + MaturityOf(world)
      <4>4. due \in Nat
        BY <4>1, <4>2
      <4>5. due <= now
        <5> HIDE DEF due
        <5>1. due <= heights
          BY <4>3 DEF due
        <5> QED
          BY <2>2, <4>4, <5>1
      <4> QED
        BY <4>5
    <3> QED
      BY <2>1, <2>3, <2>8, <3>1 DEF LookedAt, Takes
  <2> QED
    BY <2>4, <2>5, <2>6, <2>7, <2>8 DEF LiquidityCommands
<1> QED
  BY <1>1, <1>2

\* The network's answer keeps it.
LEMMA ArriveKeeps ==
    ASSUME LiquidityInv, Arrive
    PROVE  LiquidityInv'
<1>1. /\ step = "waiting" /\ args.command \in LiquidityCommands /\ outcome = "none"
      /\ UNCHANGED <<now, told, args, amount, moves, looked, heights, side, payer,
                     before, heard>>
      /\ step' \in {"waiting", "ended"}
      /\ outcome' = IF ~ Observed THEN "unobserved"
                    ELSE IF Takes(world) THEN "taken" ELSE "refused"
      /\ world' = IF args.command = "pool withdraw" /\ Takes(world)
                  THEN [world EXCEPT !.units = @ - 1] ELSE world
  BY DEF Arrive, swapVars
<1>2. ~ heard /\ told # "withdrawn"
  BY <1>1 DEF LiquidityInv
<1>6. Paid' /\ UNCHANGED dust_threshold
  BY <1>1 DEF LiquidityInv, Paid, Shown, dust_threshold
<1>3. Counts'
  BY <1>1 DEF LiquidityInv, Counts
<1>4. CASE args.command = "pool withdraw" /\ Takes(world)
  <2> DEFINE W == Worlds(args.source)
  <2>1. world \in W /\ world.units \in Nat /\ world.units > 0
    BY <1>4, WorldIsKnown DEF Worlds, Takes
  <2>2. world' \in W /\ world'.units = world.units - 1
    <3>1. \A v \in W, n \in Nat : /\ [v EXCEPT !.units = n] \in W
                                  /\ [v EXCEPT !.units = n].units = n
      BY DEF Worlds
    <3> DEFINE left == world.units - 1
    <3>4. left \in Nat
      BY <2>1
    <3>2. left \in Nat /\ world' = [world EXCEPT !.units = left]
      BY <1>1, <1>4, <3>4
    <3> HIDE DEF left, W
    <3>3. world' \in W /\ world'.units = left
      BY <2>1, <3>1, <3>2
    <3> QED
      BY <3>3 DEF left
  <2>3. moves = looked => world'.units < before
    <3>1. moves = looked => before = world.units
      BY <1>1, <1>4 DEF LiquidityInv, Decided, Shown, LookedAt
    <3> QED
      BY <2>1, <2>2, <3>1
  <2>4. outcome' = "taken"
    BY <1>1, <1>4 DEF Observed, Adding
  <2> QED
    BY <1>1, <1>2, <1>3, <1>6, <2>2, <2>3, <2>4
       DEF LiquidityInv, TakenUnlessChanged, TriggerFindsPosition
<1>5. CASE ~ (args.command = "pool withdraw" /\ Takes(world))
  <2>1. world' = world
    BY <1>1, <1>5
  <2>2. ASSUME outcome' = "refused" PROVE TakenUnlessChanged' /\ TriggerFindsPosition'
    <3>1. ~ Takes(world)
      BY <1>1, <2>2
    <3>2. /\ args.command # "withdraw" =>
                 SinceLooked \/ (args.command = "add" /\ world.status = "Staged")
          /\ args.command = "withdraw" =>
                 SinceLooked \/ (world.protocol = "none" /\ Unmatched)
      BY <1>1, <3>1, RefusedForAReason
    <3>3. SinceLooked' <=> SinceLooked
      BY <1>1, <2>1 DEF SinceLooked
    <3> QED
      BY <1>1, <2>1, <3>2, <3>3 DEF TakenUnlessChanged, TriggerFindsPosition,
         Unmatched
  <2>3. ASSUME outcome' = "unobserved"
        PROVE  TakenUnlessChanged' /\ TriggerFindsPosition'
    <3>1. args.command = "add" /\ amount < dust_threshold
      BY <1>1, <2>3 DEF Observed, Adding
    <3> QED
      BY <1>1, <1>6, <2>3, <3>1 DEF TakenUnlessChanged, TriggerFindsPosition
  <2>4. ASSUME outcome' = "taken" PROVE TakenUnlessChanged' /\ TriggerFindsPosition'
    BY <2>4 DEF TakenUnlessChanged, TriggerFindsPosition
  <2>5. outcome' \in {"taken", "refused", "unobserved"}
    BY <1>1
  <2>6. outcome' = "taken" => args.command # "pool withdraw"
    BY <1>1, <1>5
  <2>7. TakenUnlessChanged' /\ TriggerFindsPosition'
    BY <2>2, <2>3, <2>4, <2>5
  <2> QED
    BY <1>1, <1>2, <1>3, <1>6, <2>1, <2>5, <2>6, <2>7 DEF LiquidityInv
<1> QED
  BY <1>4, <1>5

\* A poll reports a withdrawal only when it saw fewer units than there were,
\* and one that is answered after the network took the withdrawal sees that,
\* unless another deposit hides it.
LEMMA PollKeeps ==
    ASSUME LiquidityInv, _await_pool_withdraw
    PROVE  LiquidityInv'
<1>1. /\ step = "waiting" /\ args.command = "pool withdraw"
      /\ UNCHANGED <<now, args, amount, world, moves, looked, heights, side, payer,
                     before, outcome>>
  BY DEF _await_pool_withdraw, Awaiting, swapVars
<1>2. PICK answered \in BOOLEAN :
        /\ heard' = (heard \/ (answered /\ outcome = "taken"))
        /\ IF UnitsSeen(answered) < before
           THEN step' = "ended" /\ told' = "withdrawn"
           ELSE UNCHANGED <<step, told>>
  BY DEF _await_pool_withdraw
<1>3. world.units \in Nat /\ before \in Nat /\ moves \in Nat /\ looked \in Nat
      /\ looked <= moves
  BY WorldIsKnown DEF LiquidityInv, Counts, Worlds
<1>4. told # "withdrawn"
  BY <1>1 DEF LiquidityInv
<1>5. /\ step' \in {"waiting", "ended"}
      /\ told' = "withdrawn" => step' = "ended" /\ world.units < before
  <2>1. CASE UnitsSeen(answered) < before
    <3>1. answered /\ world.units < before
      BY <1>3, <2>1 DEF UnitsSeen
    <3> QED
      BY <1>2, <2>1, <3>1
  <2>2. CASE ~ (UnitsSeen(answered) < before)
    BY <1>1, <1>2, <1>4, <2>2
  <2> QED
    BY <2>1, <2>2
<1>6. heard' => moves > looked \/ told' = "withdrawn"
  <2>1. CASE heard
    BY <1>4, <2>1 DEF LiquidityInv
  <2>2. CASE ~ heard /\ heard'
    <3>1. answered /\ outcome = "taken"
      BY <1>2, <2>2
    <3>2. CASE moves = looked
      <4>1. UnitsSeen(answered) < before
        BY <1>1, <3>1, <3>2 DEF LiquidityInv, UnitsSeen
      <4> QED
        BY <1>2, <4>1
    <3>3. CASE moves # looked
      BY <1>3, <3>3
    <3> QED
      BY <3>2, <3>3
  <2> QED
    BY <2>1, <2>2
<1>7. outcome = "none" => ~ heard'
  BY <1>2 DEF LiquidityInv
<1>8. Counts'
  BY <1>1 DEF LiquidityInv, Counts
<1>9. TakenUnlessChanged' /\ TriggerFindsPosition'
  BY <1>1 DEF LiquidityInv, TakenUnlessChanged, TriggerFindsPosition, SinceLooked,
     dust_threshold
<1>10. (Decided' /\ outcome = "none" /\ moves = looked) => LookedAt'
  BY <1>1 DEF LiquidityInv, Decided, Shown, LookedAt, Halted, MaturityOf
<1>11. Paid'
  BY <1>1 DEF LiquidityInv, Paid, Shown
<1> QED
  BY <1>1, <1>5, <1>6, <1>7, <1>8, <1>9, <1>10, <1>11 DEF LiquidityInv

-----------------------------------------------------------------------------
\* A command starts without having looked at anything.
LEMMA LiquidityInvInit == Init => CommandInv /\ LiquidityInv
<1> SUFFICES ASSUME Init PROVE CommandInv /\ LiquidityInv
  OBVIOUS
<1>1. CommandInv
  BY DEF Init, FrameInit, SwapInit, CommandInv
<1>2. step = "start" /\ outcome = "none" /\ told = "nothing" /\ ~ heard /\ world = Plain
  BY DEF Init, FrameInit, LiquidityInit
<1>3. Counts
  BY DEF Init, FrameInit, LiquidityInit, Counts
<1>4. world \in Worlds(args.source)
  BY <1>2, PlainIsAWorld
<1> QED
  BY <1>1, <1>2, <1>3, <1>4 DEF LiquidityInv, Decided, Shown, Paid,
     TakenUnlessChanged, TriggerFindsPosition

\* Every step of every command keeps what is known of the network true.
LEMMA LiquidityInvNext ==
    CommandInv /\ LiquidityInv /\ [Next]_vars => CommandInv' /\ LiquidityInv'
<1> SUFFICES ASSUME CommandInv, LiquidityInv, [Next]_vars
             PROVE  CommandInv' /\ LiquidityInv'
  OBVIOUS
<1>1. CommandInv'
  BY EveryStep
<1>2. CASE UNCHANGED vars
  <2>1. UNCHANGED <<now, step, told, args, amount, world, moves, looked, heights, side,
                    payer, before, outcome, heard>>
    BY <1>2 DEF vars, frameVars, swapVars, liquidityVars
  <2>2. Counts' /\ (LookedAt => LookedAt')
    BY <2>1 DEF LiquidityInv, Counts, LookedAt, Halted, MaturityOf
  <2>3. TakenUnlessChanged' /\ TriggerFindsPosition'
    BY <2>1 DEF LiquidityInv, TakenUnlessChanged, TriggerFindsPosition, SinceLooked,
       dust_threshold
  <2>4. Paid' /\ world' \in Worlds(args'.source)
    BY <2>1, WorldIsKnown DEF LiquidityInv, Paid, Shown
  <2> QED
    BY <1>1, <2>1, <2>2, <2>3, <2>4 DEF LiquidityInv, Decided, Shown
<1>3. CASE Next /\ step # "ended"
  <2>1. CASE \/ \E a : StartLiquidity(a)
             \/ Move \/ _liquidity_utxo \/ _liquidity_evm \/ _liquidity_tron
             \/ _liquidity_protocol_only \/ cmd_withdraw_liquidity
             \/ cmd_pool_add \/ cmd_pool_withdraw \/ Arrive \/ _await_pool_withdraw
    <3>1. LiquidityInv'
      BY <2>1, StartKeeps, MoveKeeps, FromAssetKeeps, FromProtocolKeeps, ArriveKeeps,
         PollKeeps
    <3> QED
      BY <1>1, <3>1
  <2>2. CASE ~ (\/ \E a : StartLiquidity(a)
                \/ Move \/ _liquidity_utxo \/ _liquidity_evm \/ _liquidity_tron
                \/ _liquidity_protocol_only \/ cmd_withdraw_liquidity
                \/ cmd_pool_add \/ cmd_pool_withdraw \/ Arrive \/ _await_pool_withdraw)
    <3>1. Aside
      BY <1>3, <2>2, AsideSteps DEF Next
    <3> QED
      BY <1>1, <1>3, <3>1, AsideKeeps
  <2> QED
    BY <2>1, <2>2
<1> QED
  BY <1>1, <1>2, <1>3, EndedIsOver

\* However the network's switches change during a command, and whatever height
\* they were announced for, a deposit is lost or refused only because of a change
\* after the command looked, or as an add to a staged pool or of less than the
\* inbound's dust threshold (swap.prepare_liquidity, prepare_pool_withdraw).
THEOREM AlwaysTakenUnlessChanged == Spec => []TakenUnlessChanged
<1>1. LiquidityInv => TakenUnlessChanged
  BY DEF LiquidityInv
<1> QED
  BY <1>1, LiquidityInvInit, LiquidityInvNext, PTL DEF Spec

\* A withdrawal that matches no position means that the position has moved since
\* the command asked for it, that there was none, or that outputs of another
\* address than its own paid for it (cli.cmd_withdraw_liquidity, _liquidity_utxo).
THEOREM TriggerAlwaysFinds == Spec => []TriggerFindsPosition
<1>1. LiquidityInv => TriggerFindsPosition
  BY DEF LiquidityInv
<1> QED
  BY <1>1, LiquidityInvInit, LiquidityInvNext, PTL DEF Spec

\* The report of a pool withdrawal is true of the units the network holds,
\* however many polls fail (cli._await_pool_withdraw).
THEOREM PoolReportAlwaysTrue == Spec => []PoolReportIsTrue
<1>1. LiquidityInv => PoolReportIsTrue
  BY DEF LiquidityInv, PoolReportIsTrue
<1> QED
  BY <1>1, LiquidityInvInit, LiquidityInvNext, PTL DEF Spec

-----------------------------------------------------------------------------
\* What a sweep of a native EVM balance keeps back, per command.
Reserve == IF args.command = "swap" THEN _evm_sweep_gas(args.backend, args.gas)
           ELSE IF args.command = "send" THEN SendGas ELSE Requested(args.gas)

Sweeping == args.sweep /\ args.source = "evm"

NativeKinds == {"eth swap", "eth send", "evm vault swap"}

\* The amount of a sweep is what its reserve leaves, until it is sent.
SweepInv ==
    /\ step \in {"start", "sizing", "sized", "selected", "home", "found",
                 "prompt", "sending", "waiting", "ended"}
    /\ step # "start" => args \in CommandLines \cup LiquidityLines
    /\ (step \in {"sized", "selected"} /\ Sweeping) =>
           /\ amount \in Nat \ {0} /\ amount + rate * Reserve = Balance
           /\ args.command \in {"swap", "send", "add"}
    /\ (step = "selected" /\ args.command = "swap") => args.backend \in {"auto", backend}
    /\ step \in {"home", "found"} => ~ Sweeping
    /\ (step \in {"prompt", "sending"} /\ Sweeping) =>
           /\ plan.kind \in NativeKinds
           /\ tx.fee \in Nat /\ plan.value \in Nat
           /\ plan.value + tx.fee <= Balance
    /\ SweepLeavesGas

Idle == /\ UNCHANGED <<plan, tx, sent, settled>>
        /\ step' \in {step, "ended"} \/ (step = "prompt" /\ step' = "sending")
Posted == /\ step = "sending" /\ step' \in AfterPrompt
          /\ UNCHANGED <<plan, tx, settled>>
          /\ sent' = sent \/ sent'.tx = tx
          /\ step' = "waiting" => sent'.tx = tx

\* Once something is shown, nothing of what it was worked out from changes: it
\* stays, or it goes out, or it has been out and is settled.
LEMMA LateSteps ==
    ASSUME [Next]_vars, step \in {"prompt"} \cup AfterPrompt
    PROVE  /\ UNCHANGED <<args, amount, rate, backend, floor>>
           /\ Idle \/ Posted \/ Settle
<1>1. CASE UNCHANGED vars
  BY <1>1 DEF vars, frameVars, swapVars, Idle
<1>2. CASE Next
  <2>1. ~ \E a : StartSwap(a) \/ StartLiquidity(a)
    BY DEF AfterPrompt, StartSwap, StartLiquidity
  <2>2. ~ (\/ _swap_from_utxo \/ _swap_from_evm \/ _swap_from_tron \/ _swap_from_cosmos
           \/ _send_utxo \/ _send_evm \/ _send_tron \/ _send_cosmos \/ _liquidity)
    BY DEF AfterPrompt, _swap_from_utxo, _swap_from_evm, _swap_from_tron, _swap_from_cosmos,
       _send_utxo, _send_evm, _send_tron, _send_cosmos, Sizing, _liquidity
  <2>3. ~ (\/ SelectNamed \/ SelectBest \/ SelectRefused \/ prepare_swap \/ PrepareSend
           \/ _swap_via_cow \/ _swap_via_chainflip \/ _swap_via_chainflip_evm)
    BY DEF AfterPrompt, SelectNamed, SelectBest, SelectRefused, Sized, prepare_swap, PrepareSend,
       _swap_via_cow, _swap_via_chainflip, _swap_via_chainflip_evm, OnVault
  <2>4. ~ (\/ _liquidity_utxo \/ _liquidity_evm \/ _liquidity_tron
           \/ _liquidity_protocol_only \/ cmd_withdraw_liquidity
           \/ _withdraw_from_protocol_side \/ cmd_pool_add \/ cmd_pool_withdraw)
    BY DEF AfterPrompt, _liquidity_utxo, _liquidity_evm, _liquidity_tron, FromAsset,
       _liquidity_protocol_only, cmd_withdraw_liquidity,
       _withdraw_from_protocol_side, cmd_pool_add, cmd_pool_withdraw
  <2>5. \/ Settle \/ Move \/ Arrive \/ _await_pool_withdraw \/ PollsOver
        \/ Frame(Unsafe) \/ Frame(NotSent) \/ Frame(Expired) \/ Frame(Tick)
        \/ Frame(Confirm) \/ Frame(Post(IF Outlives THEN "waiting" ELSE "ended", "sent"))
    BY <1>2, <2>1, <2>2, <2>3, <2>4 DEF Next, Swap
  <2>6. CASE Settle
    BY <2>6 DEF Settle
  <2>7. CASE Move \/ Arrive \/ _await_pool_withdraw \/ PollsOver
    BY <2>7 DEF Move, Arrive, _await_pool_withdraw, PollsOver, End, frameVars, swapVars,
       Idle
  <2>8. CASE Frame(Unsafe) \/ Frame(NotSent) \/ Frame(Expired) \/ Frame(Tick)
    BY <2>8 DEF Frame, Unsafe, NotSent, Expired, Tick, End, swapVars,
       Idle
  <2>9. CASE Frame(Confirm)
    BY <2>9 DEF Frame, Confirm, swapVars, Idle
  <2>10. CASE Frame(Post(IF Outlives THEN "waiting" ELSE "ended", "sent"))
    <3>1. UNCHANGED <<args, amount, rate, backend, floor, settled>>
      BY <2>10 DEF Frame, swapVars
    <3>2. Posted
      <4>1. PICK next : Post(next, "sent")
        BY <2>10 DEF Frame
      <4>2. /\ step = "sending" /\ UNCHANGED <<plan, tx>>
            /\ sent' = sent \/ sent'.tx = tx
            /\ step' = "waiting" => sent'.tx = tx
        BY <4>1 DEF Post, End
      <4>3. step' \in AfterPrompt
        BY <2>10 DEF Frame, Post, End, AfterPrompt
      <4> QED
        BY <3>1, <4>2, <4>3 DEF Posted
    <3> QED
      BY <3>1, <3>2
  <2> QED
    BY <2>5, <2>6, <2>7, <2>8, <2>9, <2>10
<1> QED
  BY <1>1, <1>2

\* What a command may put before the user: the deposit of a swap, a send, a
\* vault swap for its floor, an add, or what a position is moved with.
MemoAsked(p) ==
    /\ step \in {"selected", "home"} /\ args.command = "swap"
    /\ \E m, e : p = PlanOf(Carrying(m, e, Them), amount)
    /\ UNCHANGED floor
SendAsked(p) == step = "selected" /\ args.command = "send" /\ p = SendPlan
                /\ UNCHANGED floor
AddAsked(p)  == step = "sized" /\ args.command = "add" /\ p = PlanOf(ForPool, amount)
                /\ UNCHANGED floor
VaultAsked(p) ==
    /\ step = "selected" /\ args.command = "swap" /\ executor(backend) = "vault-swap"
    /\ \E egress \in Outs \cup {0}, bps \in Bps : floor' = min_output_amount(egress, bps)
    /\ \E least : \E e \in Encodings(least) :
           \/ /\ args.source = "utxo" /\ least = floor'
              /\ p = UtxoVaultPlan(e, least)
           \/ /\ args.source \in {"evm", "erc20"} /\ Swapped > 0
              /\ least = min_price(floor', Swapped)
              /\ p = EvmVaultPlan(e, least)
PoolAsked(p) ==
    /\ \/ step = "found"
       \/ step = "sized" /\ args.command \in {"add protocol", "pool add", "pool withdraw"}
    /\ p = TriggerPlan \/ \E v : p = ProtocolDeposit(v)
    /\ UNCHANGED floor

Showing(p, fee) ==
    /\ Prepare(p, fee) /\ UNCHANGED <<args, amount, rate, settled>>
    /\ \/ (MemoAsked(p) \/ SendAsked(p) \/ AddAsked(p) \/ VaultAsked(p)) /\ fee = FeeOf(p)
       \/ PoolAsked(p)

\* A swap's deposit is built on the second quote, and a send on the request.
LEMMA SwapShows ==
    ASSUME CommandInv, prepare_swap \/ PrepareSend, step' = "prompt"
    PROVE  \E p, fee : Showing(p, fee)
<1>1. CASE prepare_swap
  <2>1. step \in {"selected", "home"} /\ args.command = "swap"
    BY <1>1 DEF prepare_swap, CommandInv
  <2>2. PICK m : \E e : PrepareFunded(PlanOf(Carrying(m, e, Them), amount))
    BY <1>1 DEF prepare_swap, Abort
  <2>3. PICK e : PrepareFunded(PlanOf(Carrying(m, e, Them), amount))
    BY <2>2
  <2> DEFINE p == PlanOf(Carrying(m, e, Them), amount)
  <2>4. Prepare(p, FeeOf(p))
    BY <2>3 DEF PrepareFunded, Abort
  <2>5. MemoAsked(p) /\ UNCHANGED <<args, amount, rate, settled>>
    BY <1>1, <2>1 DEF MemoAsked, prepare_swap, swapVars
  <2> QED
    BY <2>4, <2>5 DEF Showing
<1>2. CASE PrepareSend
  <2>1. step = "selected" /\ args.command = "send"
        /\ UNCHANGED <<args, amount, rate, settled, floor>>
    BY <1>2 DEF PrepareSend, swapVars
  <2>2. Prepare(SendPlan, FeeOf(SendPlan))
    BY <1>2 DEF PrepareSend, PrepareFunded, Abort
  <2> QED
    BY <2>1, <2>2 DEF Showing, SendAsked
<1> QED
  BY <1>1, <1>2

\* A vault swap is built on an encoding for the floor of a second quote.
LEMMA VaultShows ==
    ASSUME _swap_via_chainflip \/ _swap_via_chainflip_evm, step' = "prompt"
    PROVE  \E p, fee : Showing(p, fee)
<1>1. /\ step = "selected" /\ args.command = "swap"
      /\ executor(backend) = "vault-swap"
      /\ UNCHANGED <<args, amount, rate, settled>>
  BY DEF _swap_via_chainflip, _swap_via_chainflip_evm, OnVault
<1>2. ASSUME NEW least, Encoded(least)
      PROVE  \E e \in Encodings(least) :
                Prepare(VaultPlan(e, least), FeeOf(VaultPlan(e, least)))
  BY <1>2 DEF Encoded, PrepareFunded, Abort
<1>3. CASE _swap_via_chainflip
  <2>1. args.source = "utxo"
    BY <1>3 DEF _swap_via_chainflip, OnVault
  <2>2. /\ \E egress \in Outs \cup {0}, bps \in Bps :
              floor' = min_output_amount(egress, bps)
        /\ Encoded(floor')
    BY <1>3 DEF _swap_via_chainflip, Abort
  <2>3. PICK e \in Encodings(floor') :
          Prepare(VaultPlan(e, floor'), FeeOf(VaultPlan(e, floor')))
    BY <1>2, <2>2
  <2> DEFINE p == UtxoVaultPlan(e, floor')
  <2>4. Prepare(p, FeeOf(p))
    BY <2>1, <2>3 DEF VaultPlan
  <2>5. VaultAsked(p)
    BY <1>1, <2>1, <2>2, <2>3 DEF VaultAsked
  <2> QED
    BY <1>1, <2>4, <2>5 DEF Showing
<1>4. CASE _swap_via_chainflip_evm
  <2>1. args.source \in {"evm", "erc20"} /\ args.source # "utxo"
    BY <1>4 DEF _swap_via_chainflip_evm, OnVault
  <2>2. /\ \E egress \in Outs \cup {0}, bps \in Bps :
              floor' = min_output_amount(egress, bps)
        /\ Swapped > 0 /\ Encoded(min_price(floor', Swapped))
    BY <1>4 DEF _swap_via_chainflip_evm, _native_fee_legs, Abort
  <2> DEFINE least == min_price(floor', Swapped)
  <2>3. PICK e \in Encodings(least) :
          Prepare(VaultPlan(e, least), FeeOf(VaultPlan(e, least)))
    BY <1>2, <2>2
  <2> DEFINE p == EvmVaultPlan(e, least)
  <2>4. Prepare(p, FeeOf(p))
    BY <2>1, <2>3 DEF VaultPlan
  <2>5. VaultAsked(p)
    BY <1>1, <2>1, <2>2, <2>3 DEF VaultAsked
  <2> QED
    BY <1>1, <2>4, <2>5 DEF Showing
<1> QED
  BY <1>3, <1>4

\* A liquidity command shows its add, its trigger or its MsgDeposit.
LEMMA LiquidityShows ==
    ASSUME CommandInv,
           \/ _liquidity_utxo \/ _liquidity_evm \/ _liquidity_tron
           \/ _liquidity_protocol_only \/ _withdraw_from_protocol_side
           \/ cmd_pool_add \/ cmd_pool_withdraw,
           step' = "prompt"
    PROVE  \E p, fee : Showing(p, fee)
<1>1. CASE _liquidity_utxo \/ _liquidity_evm \/ _liquidity_tron
  <2>1. /\ (step = "sized" /\ Adding) \/ step = "found"
        /\ UNCHANGED <<args, amount, rate, settled, floor>>
    BY <1>1 DEF _liquidity_utxo, _liquidity_evm, _liquidity_tron, FromAsset, swapVars
  <2>2. PrepareFunded(IF Adding THEN PlanOf(ForPool, amount) ELSE TriggerPlan)
    BY <1>1 DEF _liquidity_utxo, _liquidity_evm, _liquidity_tron, prepare_liquidity,
       Abort
  <2>3. CASE step = "sized" /\ Adding
    <3> DEFINE p == PlanOf(ForPool, amount)
    <3>1. Prepare(p, FeeOf(p))
      BY <2>2, <2>3 DEF PrepareFunded, Abort
    <3>2. AddAsked(p)
      BY <2>1, <2>3 DEF AddAsked, Adding
    <3> QED
      BY <2>1, <3>1, <3>2 DEF Showing
  <2>4. ~ (step = "found" /\ Adding)
    BY DEF CommandInv, Adding
  <2>5. CASE step = "found" /\ ~ Adding
    <3>1. Prepare(TriggerPlan, FeeOf(TriggerPlan))
      BY <2>2, <2>5 DEF PrepareFunded, Abort
    <3>2. PoolAsked(TriggerPlan)
      BY <2>1, <2>5 DEF PoolAsked
    <3> QED
      BY <2>1, <3>1, <3>2 DEF Showing
  <2> QED
    BY <2>1, <2>3, <2>4, <2>5
<1>2. CASE \/ _liquidity_protocol_only \/ _withdraw_from_protocol_side
           \/ cmd_pool_add \/ cmd_pool_withdraw
  <2>1. PICK v : Prepare(ProtocolDeposit(v), 0)
    BY <1>2 DEF _liquidity_protocol_only, _withdraw_from_protocol_side,
       cmd_pool_add, cmd_pool_withdraw, prepare_protocol_only_liquidity,
       prepare_pool_deposit, prepare_pool_withdraw, Abort
  <2>2. /\ \/ step = "found"
           \/ step = "sized" /\ args.command \in {"add protocol", "pool add", "pool withdraw"}
        /\ UNCHANGED <<args, amount, rate, settled, floor>>
    BY <1>2 DEF _liquidity_protocol_only, _withdraw_from_protocol_side,
       cmd_pool_add, cmd_pool_withdraw, swapVars
  <2> QED
    BY <2>1, <2>2 DEF Showing, PoolAsked
<1> QED
  BY <1>1, <1>2

\* Whatever the prompt follows, it shows one of these.
LEMMA PromptShows ==
    ASSUME CommandInv, [Next]_vars, step' = "prompt", step # "prompt"
    PROVE  \E p, fee : Showing(p, fee)
<1>1. Next
  BY DEF vars, frameVars
<1>2. ~ \E a : StartSwap(a) \/ StartLiquidity(a)
  BY DEF StartSwap, StartLiquidity
<1>3. ~ (\/ _swap_from_utxo \/ _swap_from_evm \/ _swap_from_tron \/ _swap_from_cosmos
         \/ _send_utxo \/ _send_evm \/ _send_tron \/ _send_cosmos \/ _liquidity)
  <2>1. ~ \E reserve, next : next \in {"sized", "selected", "home"} /\ Sizes(reserve, next)
    BY DEF Sizes, Refuse, Abort
  <2>2. ~ Refuse
    BY DEF Refuse, Abort
  <2> QED
    BY <2>1, <2>2 DEF _swap_from_utxo, _swap_from_evm, _swap_from_tron,
       _swap_from_cosmos, _send_utxo, _send_evm, _send_tron, _send_cosmos, _liquidity
<1>4. ~ (\/ SelectNamed \/ SelectBest \/ SelectRefused \/ _swap_via_cow \/ Settle
         \/ Move \/ cmd_withdraw_liquidity
         \/ Arrive \/ _await_pool_withdraw \/ PollsOver)
  BY DEF SelectNamed, SelectBest, SelectRefused, _swap_via_cow, Settle, Move,
     cmd_withdraw_liquidity, _protocol_side_position, Arrive, _await_pool_withdraw,
     Awaiting, PollsOver, End, Abort, frameVars
<1>5. ~ (\/ Frame(Unsafe) \/ Frame(NotSent) \/ Frame(Expired) \/ Frame(Tick)
         \/ Frame(Confirm)
         \/ Frame(Post(IF Outlives THEN "waiting" ELSE "ended", "sent")))
  BY DEF Frame, Unsafe, NotSent, Expired, Tick, Confirm, Post, End
<1>6. \/ prepare_swap \/ PrepareSend \/ _swap_via_chainflip \/ _swap_via_chainflip_evm
      \/ _liquidity_utxo \/ _liquidity_evm \/ _liquidity_tron
      \/ _liquidity_protocol_only \/ _withdraw_from_protocol_side
      \/ cmd_pool_add \/ cmd_pool_withdraw
  BY <1>1, <1>2, <1>3, <1>4, <1>5 DEF Next, Swap
<1> QED
  BY <1>6, SwapShows, VaultShows, LiquidityShows

\* The other steps before the prompt: nothing moves but the clock and the
\* network, the command gives up, a backend is selected, or a side found.
LEMMA EarlySteps ==
    ASSUME CommandInv, [Next]_vars, step \in {"sized", "selected", "home", "found"},
           step' # "prompt"
    PROVE  /\ UNCHANGED <<args, amount, rate, sent, settled>>
           /\ \/ UNCHANGED <<step, backend>>
              \/ step' = "ended"
              \/ /\ step = "sized" /\ step' = "selected" /\ args.command = "swap"
                 /\ args.backend \in {"auto", backend'}
              \/ step' = "found" /\ args.command = "withdraw"
<1>1. CASE UNCHANGED vars
  BY <1>1 DEF vars, frameVars, swapVars
<1>2. CASE Next
  <2>1. ~ \E a : StartSwap(a) \/ StartLiquidity(a)
    BY DEF StartSwap, StartLiquidity
  <2>2. ~ (\/ _swap_from_utxo \/ _swap_from_evm \/ _swap_from_tron \/ _swap_from_cosmos
           \/ _send_utxo \/ _send_evm \/ _send_tron \/ _send_cosmos \/ _liquidity)
    BY DEF _swap_from_utxo, _swap_from_evm, _swap_from_tron, _swap_from_cosmos,
       _send_utxo, _send_evm, _send_tron, _send_cosmos, Sizing, _liquidity
  <2>3. ~ (\/ Settle \/ Arrive \/ _await_pool_withdraw \/ PollsOver
           \/ Frame(Unsafe) \/ Frame(NotSent) \/ Frame(Expired)
           \/ Frame(Confirm)
           \/ Frame(Post(IF Outlives THEN "waiting" ELSE "ended", "sent")))
    BY DEF Settle, Arrive, _await_pool_withdraw, PollsOver, Awaiting, Frame, Unsafe,
       NotSent, Expired, Confirm, Post
  <2>4. CASE SelectNamed \/ SelectBest
    BY <2>4 DEF SelectNamed, SelectBest, Sized
  <2>5. CASE SelectRefused \/ _swap_via_cow
    BY <2>5 DEF SelectRefused, _swap_via_cow, Abort, End, swapVars
  <2>6. ASSUME \/ prepare_swap \/ PrepareSend
               \/ _swap_via_chainflip \/ _swap_via_chainflip_evm
               \/ _liquidity_utxo \/ _liquidity_evm \/ _liquidity_tron
               \/ _liquidity_protocol_only \/ _withdraw_from_protocol_side
               \/ cmd_pool_add \/ cmd_pool_withdraw
        PROVE  step' = "ended" /\ UNCHANGED <<args, amount, rate, sent, settled>>
    <3>1. Abort \/ \E p, fee : Prepare(p, fee)
      BY <2>6 DEF prepare_swap, PrepareSend, _swap_via_chainflip, PrepareFunded,
         _swap_via_chainflip_evm, Encoded, _liquidity_utxo, _liquidity_evm,
         _liquidity_tron, prepare_liquidity, _liquidity_protocol_only,
         prepare_protocol_only_liquidity, _withdraw_from_protocol_side,
         cmd_pool_add, prepare_pool_deposit, cmd_pool_withdraw, prepare_pool_withdraw
    <3>2. step' = "ended" /\ UNCHANGED sent
      BY <3>1 DEF Prepare, Abort
    <3>3. UNCHANGED <<args, amount, rate, settled>>
      BY <2>6 DEF prepare_swap, PrepareSend, _swap_via_chainflip,
         _swap_via_chainflip_evm, _liquidity_utxo, _liquidity_evm, _liquidity_tron,
         FromAsset, _liquidity_protocol_only, _withdraw_from_protocol_side,
         cmd_pool_add, cmd_pool_withdraw, swapVars
    <3> QED
      BY <3>2, <3>3
  <2>7. CASE cmd_withdraw_liquidity
    BY <2>7 DEF cmd_withdraw_liquidity, _protocol_side_position, Abort, swapVars
  <2>8. CASE Move \/ Frame(Tick)
    BY <2>8 DEF Move, Frame, Tick, frameVars, swapVars
  <2> QED
    BY <1>2, <2>1, <2>2, <2>3, <2>4, <2>5, <2>6, <2>7, <2>8 DEF Next, Swap
<1> QED
  BY <1>1, <1>2

\* A command's first step names what it is; until then nothing moves but the
\* clock.
LEMMA FirstStep ==
    ASSUME [Next]_vars, step = "start"
    PROVE  /\ \/ step' = "start" /\ UNCHANGED args
              \/ step' = "sizing" /\ args' \in CommandLines \cup LiquidityLines
           /\ UNCHANGED <<amount, rate, sent, settled, floor>>
<1>1. CASE UNCHANGED vars
  BY <1>1 DEF vars, frameVars, swapVars
<1>2. CASE Next
  <2>2. ~ (\/ _swap_from_utxo \/ _swap_from_evm \/ _swap_from_tron \/ _swap_from_cosmos
           \/ _send_utxo \/ _send_evm \/ _send_tron \/ _send_cosmos \/ _liquidity)
    BY DEF _swap_from_utxo, _swap_from_evm, _swap_from_tron, _swap_from_cosmos,
       _send_utxo, _send_evm, _send_tron, _send_cosmos, Sizing, _liquidity
  <2>3. ~ (\/ SelectNamed \/ SelectBest \/ SelectRefused \/ prepare_swap \/ PrepareSend
           \/ _swap_via_cow \/ _swap_via_chainflip \/ _swap_via_chainflip_evm \/ Settle)
    BY DEF SelectNamed, SelectBest, SelectRefused, Sized, prepare_swap, PrepareSend,
       _swap_via_cow, _swap_via_chainflip, _swap_via_chainflip_evm, OnVault, Settle
  <2>4. ~ (\/ Move \/ _liquidity_utxo \/ _liquidity_evm \/ _liquidity_tron
           \/ _liquidity_protocol_only \/ cmd_withdraw_liquidity
           \/ _withdraw_from_protocol_side \/ cmd_pool_add \/ cmd_pool_withdraw
           \/ Arrive \/ _await_pool_withdraw \/ PollsOver)
    BY DEF Move, _liquidity_utxo, _liquidity_evm, _liquidity_tron, FromAsset,
       _liquidity_protocol_only, cmd_withdraw_liquidity,
       _withdraw_from_protocol_side, cmd_pool_add, cmd_pool_withdraw, Arrive,
       _await_pool_withdraw, PollsOver, Awaiting
  <2>5. \/ \E a \in CommandLines : Swap(StartSwap(a))
        \/ \E a \in LiquidityLines : StartLiquidity(a)
        \/ Frame(Unsafe) \/ Frame(NotSent) \/ Frame(Expired) \/ Frame(Tick)
        \/ Frame(Confirm)
        \/ Frame(Post(IF Outlives THEN "waiting" ELSE "ended", "sent"))
    BY <1>2, <2>2, <2>3, <2>4 DEF Next, Swap
  <2>6. CASE \E a \in CommandLines : Swap(StartSwap(a))
    BY <2>6 DEF Swap, StartSwap
  <2>7. CASE \E a \in LiquidityLines : StartLiquidity(a)
    BY <2>7 DEF StartLiquidity
  <2>8. CASE \/ Frame(Unsafe) \/ Frame(NotSent) \/ Frame(Expired) \/ Frame(Tick)
             \/ Frame(Confirm)
             \/ Frame(Post(IF Outlives THEN "waiting" ELSE "ended", "sent"))
    BY <2>8 DEF Frame, Unsafe, NotSent, Expired, Tick, Confirm, Post, swapVars
  <2> QED
    BY <2>5, <2>6, <2>7, <2>8
<1> QED
  BY <1>1, <1>2

\* The gas a command keeps back is a natural number.
LEMMA ReserveIsNat ==
    ASSUME CommandInv, step # "start"
    PROVE  /\ Requested(args.gas) \in Nat /\ Reserve \in Nat
           /\ args.command = "swap" => _evm_sweep_gas(args.backend, args.gas) \in Nat
<1>1. Requested(args.gas) \in Nat
  BY SwapAssumption DEF CommandInv, Requested
<1>2. _evm_sweep_gas(args.backend, args.gas) \in Nat
  BY <1>1, SwapAssumption DEF _evm_sweep_gas, Larger
<1> QED
  BY <1>1, <1>2, SwapAssumption DEF Reserve

\* The sizing of every command: it fetches a rate and fixes the amount; a swept
\* one is what the command's reserve leaves at that rate.
LEMMA SizingSteps ==
    ASSUME CommandInv, args \in CommandLines \cup LiquidityLines, [Next]_vars,
           step = "sizing"
    PROVE  /\ UNCHANGED <<args, sent, settled, floor>>
           /\ amount' = amount \/ amount' \in Int
           /\ \/ step' \in {"sizing", "ended"}
              \/ /\ step' \in {"sized", "selected", "home"}
                 /\ step' = "selected" => args.command = "send"
                 /\ step' = "home" => ~ Sweeping
                 /\ Sweeping =>
                        /\ args.command \in {"swap", "send", "add"}
                        /\ amount' \in Nat \ {0} /\ amount' + rate' * Reserve = Balance
<1>1. CASE UNCHANGED vars
  BY <1>1 DEF vars, frameVars, swapVars
<1>2. CASE Next
  <2>1. ~ \E a : StartSwap(a) \/ StartLiquidity(a)
    BY DEF StartSwap, StartLiquidity
  <2>2. ~ (\/ SelectNamed \/ SelectBest \/ SelectRefused \/ prepare_swap \/ PrepareSend
           \/ _swap_via_cow \/ _swap_via_chainflip \/ _swap_via_chainflip_evm \/ Settle)
    BY DEF SelectNamed, SelectBest, SelectRefused, Sized, prepare_swap, PrepareSend,
       _swap_via_cow, _swap_via_chainflip, _swap_via_chainflip_evm, OnVault, Settle
  <2>3. ~ (\/ _liquidity_utxo \/ _liquidity_evm \/ _liquidity_tron
           \/ _liquidity_protocol_only \/ cmd_withdraw_liquidity
           \/ _withdraw_from_protocol_side \/ cmd_pool_add \/ cmd_pool_withdraw
           \/ Arrive \/ _await_pool_withdraw \/ PollsOver)
    BY DEF _liquidity_utxo, _liquidity_evm, _liquidity_tron, FromAsset,
       _liquidity_protocol_only, cmd_withdraw_liquidity,
       _withdraw_from_protocol_side, cmd_pool_add, cmd_pool_withdraw, Arrive,
       _await_pool_withdraw, PollsOver, Awaiting
  <2>4. ~ (\/ Frame(Unsafe) \/ Frame(NotSent) \/ Frame(Expired)
           \/ Frame(Confirm)
           \/ Frame(Post(IF Outlives THEN "waiting" ELSE "ended", "sent")))
    BY DEF Frame, Unsafe, NotSent, Expired, Confirm, Post
  <2>5. CASE Move \/ Frame(Tick)
    BY <2>5 DEF Move, Frame, Tick, frameVars, swapVars
  <2>6. CASE Refuse
    BY <2>6 DEF Refuse, Abort, swapVars
  <2>7. ASSUME NEW reserve \in [Rates -> Nat], NEW next, Sizes(reserve, next)
        PROVE  /\ UNCHANGED <<args, sent, settled, floor>>
               /\ amount' = amount \/ amount' \in Int
               /\ \/ step' = "ended"
                  \/ /\ step' = next
                     /\ args.sweep => /\ amount' \in Nat \ {0} /\ rate' \in Rates
                                      /\ amount' + reserve[rate'] = Balance
    <3>1. PICK r \in Rates :
            IF args.sweep /\ Balance <= reserve[r] THEN Refuse
            ELSE /\ rate' = r /\ step' = next
                 /\ IF args.sweep THEN amount' = Balance - reserve[r]
                    ELSE amount' \in Amounts
                 /\ UNCHANGED <<sent, args, floor, settled>>
      BY <2>7 DEF Sizes
    <3>2. CASE args.sweep /\ Balance <= reserve[r]
      BY <3>1, <3>2 DEF Refuse, Abort, swapVars
    <3>3. CASE args.sweep /\ ~ (Balance <= reserve[r])
      <4>1. reserve[r] \in Nat /\ Balance \in Nat
        BY SwapAssumption
      <4>2. Balance - reserve[r] \in Nat \ {0}
            /\ (Balance - reserve[r]) + reserve[r] = Balance
        BY <3>3, <4>1
      <4>3. amount' = Balance - reserve[r] /\ rate' = r /\ step' = next
        BY <3>1, <3>3
      <4> QED
        BY <3>1, <3>3, <4>2, <4>3
    <3>4. CASE ~ args.sweep
      <4>1. amount' \in Int
        BY <3>1, <3>4, SwapAssumption
      <4> QED
        BY <3>1, <3>4, <4>1
    <3> QED
      BY <3>2, <3>3, <3>4
  <2>8. /\ Nothing \in [Rates -> Nat] /\ Fee \in [Rates -> Nat]
        /\ \A g \in Nat : /\ Gas(g) \in [Rates -> Nat]
                          /\ \A r \in Rates : Gas(g)[r] = r * g
    BY SwapAssumption DEF Nothing, Fee, Gas
  <2>9. CASE _swap_from_utxo \/ _swap_from_tron \/ _send_utxo \/ _send_tron
    BY <2>6, <2>7, <2>8, <2>9 DEF _swap_from_utxo, _swap_from_tron, _send_utxo,
       _send_tron, Sizing, Sweeping
  <2>10. CASE _swap_from_cosmos \/ _send_cosmos
    BY <2>6, <2>7, <2>8, <2>10 DEF _swap_from_cosmos, _send_cosmos, Sizing, Sweeping
  <2>11. CASE _swap_from_evm
    <3> DEFINE g == _evm_sweep_gas(args.backend, args.gas)
    <3>1. args.command = "swap" /\ args.source \in {"evm", "erc20"}
          /\ Sizes(IF args.source = "erc20" THEN Nothing ELSE Gas(g), "sized")
      BY <2>11 DEF _swap_from_evm, Sizing
    <3>2. g \in Nat /\ Reserve = g
      BY <3>1, ReserveIsNat DEF Reserve
    <3>3. CASE args.source = "erc20"
      BY <2>7, <2>8, <3>1, <3>3 DEF Sweeping
    <3>4. CASE args.source = "evm"
      <4> HIDE DEF g
      <4> QED
        BY <2>7, <2>8, <3>1, <3>2, <3>4 DEF Sweeping
    <3> QED
      BY <3>1, <3>3, <3>4
  <2>12. CASE _send_evm
    <3>1. args.command = "send" /\ args.source \in {"evm", "erc20"}
          /\ Sizes(IF args.source = "erc20" THEN Nothing ELSE Gas(SendGas), "selected")
      BY <2>12 DEF _send_evm, Sizing
    <3>2. SendGas \in Nat /\ Reserve = SendGas
      BY <3>1, SwapAssumption DEF Reserve
    <3>3. CASE args.source = "erc20"
      BY <2>7, <2>8, <3>1, <3>3 DEF Sweeping
    <3>4. CASE args.source = "evm"
      BY <2>7, <2>8, <3>1, <3>2, <3>4 DEF Sweeping
    <3> QED
      BY <3>1, <3>3, <3>4
  <2>13. CASE _liquidity
    <3> DEFINE g == Requested(args.gas)
    <3>1. /\ args.command \in LiquidityCommands
          /\ \/ Refuse
             \/ /\ ~ (args.sweep /\ NeedsAmount)
                /\ Sizes(CASE args.source = "evm"  -> Gas(g)
                           [] args.source = "utxo" -> Fee
                           [] OTHER                -> Nothing, "sized")
      BY <2>13 DEF _liquidity
    <3>2. g \in Nat
      BY ReserveIsNat
    <3>3. CASE args.source # "evm"
      <4>1. PICK reserve \in [Rates -> Nat] :
                reserve = IF args.source = "utxo" THEN Fee ELSE Nothing
        BY <2>8
      <4>2. Refuse \/ Sizes(reserve, "sized")
        BY <3>1, <3>3, <4>1
      <4>3. ~ Sweeping
        BY <3>3 DEF Sweeping
      <4> QED
        BY <2>6, <2>7, <4>2, <4>3
    <3>4. CASE args.source = "evm" /\ ~ args.sweep
      <4> HIDE DEF g
      <4> QED
        BY <2>6, <2>7, <2>8, <3>1, <3>2, <3>4 DEF Sweeping
    <3>5. CASE args.source = "evm" /\ args.sweep /\ ~ Refuse
      <4>1. args.command = "add"
        <5>1. args \in LiquidityLines
          BY <3>1 DEF CommandLines, LiquidityCommands
        <5>2. args.command \notin {"withdraw", "pool withdraw", "pool add"}
          BY <3>5, <5>1 DEF LiquidityLines
        <5>3. args.command # "add protocol"
          BY <3>1, <3>5 DEF NeedsAmount
        <5> QED
          BY <3>1, <5>2, <5>3 DEF LiquidityCommands
      <4>2. Reserve = g
        BY <4>1 DEF Reserve
      <4> HIDE DEF g
      <4> QED
        BY <2>7, <2>8, <3>1, <3>2, <3>5, <4>1, <4>2 DEF Sweeping
    <3> QED
      BY <2>6, <3>3, <3>4, <3>5
  <2> QED
    BY <1>2, <2>1, <2>2, <2>3, <2>4, <2>5, <2>9, <2>10, <2>11, <2>12, <2>13 DEF Next, Swap
<1> QED
  BY <1>1, <1>2

\* What is left by a reserve covers any smaller budget at the same rate.
LEMMA ReserveCovers ==
    ASSUME NEW a \in Nat, NEW r \in Nat, NEW R \in Nat, NEW g \in Nat, NEW b \in Nat,
           a + r * R = b, g <= R
    PROVE  a + r * g <= b
<1>1. r * g <= r * R /\ r * g \in Nat /\ r * R \in Nat
  OBVIOUS
<1> QED
  BY <1>1

\* What is charged for the gas of each transaction that moves a native balance.
LEMMA FeePerKind ==
    ASSUME NEW p
    PROVE  /\ p.kind = "eth swap" => FeeOf(p) = rate * Requested(args.gas)
           /\ p.kind = "eth send" => FeeOf(p) = rate * SendGas
           /\ (p.kind = "evm vault swap" /\ p.value > 0) => FeeOf(p) = rate * VaultGas
<1>1. ASSUME p.kind = "eth swap" PROVE FeeOf(p) = rate * Requested(args.gas)
  BY <1>1 DEF FeeOf
<1>2. ASSUME p.kind = "eth send" PROVE FeeOf(p) = rate * SendGas
  BY <1>2 DEF FeeOf
<1>3. ASSUME p.kind = "evm vault swap" /\ p.value > 0 PROVE FeeOf(p) = rate * VaultGas
  BY <1>3 DEF FeeOf
<1> QED
  BY <1>1, <1>2, <1>3

\* The gas of the swap and of the vault swap are both within what a sweep that
\* is to be swapped keeps back, if Chainflip may get it.
LEMMA SwapReserve ==
    ASSUME CommandInv, step # "start", args.command = "swap"
    PROVE  /\ Requested(args.gas) <= Reserve
           /\ args.backend \in {"auto", "chainflip"} => VaultGas <= Reserve
<1>1. Requested(args.gas) \in Nat /\ VaultGas \in Nat
  BY ReserveIsNat, SwapAssumption
<1>2. Reserve = IF args.backend \in {"auto", "chainflip"}
                THEN Larger(Requested(args.gas), VaultGas) ELSE Requested(args.gas)
  BY DEF Reserve, _evm_sweep_gas
<1> DEFINE g == Requested(args.gas)
<1>3. Larger(g, VaultGas) >= g /\ Larger(g, VaultGas) >= VaultGas
  <2>1. g \in Nat
    BY <1>1
  <2> HIDE DEF g
  <2> QED
    BY <1>1, <2>1 DEF Larger
<1> QED
  BY <1>1, <1>2, <1>3

\* A sweep that is shown fits the balance: the amount was sized by a reserve
\* at least as large as the gas of what it became.
LEMMA SweepFits ==
    ASSUME CommandInv, SweepInv, step # "prompt", Sweeping,
           NEW p, NEW fee, Showing(p, fee)
    PROVE  /\ p.kind \in NativeKinds
           /\ fee \in Nat /\ p.value \in Nat /\ p.value + fee <= Balance
<1>1. step \in {"sized", "selected"} /\ step # "start"
  BY DEF Showing, MemoAsked, SendAsked, AddAsked, VaultAsked, PoolAsked, SweepInv
<1>2. /\ amount \in Nat \ {0} /\ amount + rate * Reserve = Balance
      /\ args.command \in {"swap", "send", "add"}
      /\ args.source = "evm"
  BY <1>1 DEF SweepInv, Sweeping
<1>3. Reserve \in Nat /\ rate \in Nat /\ Balance \in Nat
  BY <1>1, ReserveIsNat, SwapAssumption DEF CommandInv
<1>4. fee = FeeOf(p) /\ (MemoAsked(p) \/ SendAsked(p) \/ AddAsked(p) \/ VaultAsked(p))
  <2>1. ~ PoolAsked(p)
    BY <1>1, <1>2 DEF PoolAsked
  <2> QED
    BY <2>1 DEF Showing
<1>5. FeeOf(p) \in Nat
  BY <1>1, FeeIsNat
<1>6. ASSUME NEW g \in Nat, g <= Reserve, p.value = amount, FeeOf(p) = rate * g
      PROVE  fee \in Nat /\ p.value \in Nat /\ p.value + fee <= Balance
  <2>1. amount + rate * g <= Balance
    BY <1>2, <1>3, <1>6, ReserveCovers
  <2> QED
    BY <1>2, <1>4, <1>5, <1>6, <2>1
<1>8. CASE MemoAsked(p)
  <2>1. PICK m, e : p = PlanOf(Carrying(m, e, Them), amount)
    BY <1>8 DEF MemoAsked
  <2>2. p.kind = "eth swap" /\ p.value = amount
    BY <1>2, <2>1 DEF PlanOf, EthPlan, Carrying, Blank
  <2>3. args.command = "swap"
    BY <1>8 DEF MemoAsked
  <2>4. FeeOf(p) = rate * Requested(args.gas)
    BY <2>2, FeePerKind
  <2>5. Requested(args.gas) \in Nat /\ Requested(args.gas) <= Reserve
    BY <1>1, <2>3, SwapReserve, ReserveIsNat
  <2> QED
    BY <1>6, <2>2, <2>4, <2>5 DEF NativeKinds
<1>9. CASE AddAsked(p)
  <2>1. p = PlanOf(ForPool, amount) /\ args.command = "add"
    BY <1>9 DEF AddAsked
  <2>2. p.kind = "eth swap" /\ p.value = amount
    BY <1>2, <2>1 DEF PlanOf, EthPlan, ForPool, Carrying, Blank
  <2>3. FeeOf(p) = rate * Requested(args.gas)
    BY <2>2, FeePerKind
  <2>4. Reserve = Requested(args.gas)
    BY <2>1 DEF Reserve
  <2>5. Requested(args.gas) <= Reserve
    BY <1>3, <2>4
  <2> QED
    BY <1>3, <1>6, <2>2, <2>3, <2>4, <2>5 DEF NativeKinds
<1>10. CASE SendAsked(p)
  <2>1. p = SendPlan /\ args.command = "send"
    BY <1>10 DEF SendAsked
  <2> DEFINE q == PlanOf([Blank EXCEPT !.to = Them], amount)
  <2>2. p.kind = "eth send" /\ p.value = amount
    <3>1. q.value = amount /\ "kind" \in DOMAIN q
      BY <1>2 DEF PlanOf, EthPlan, Blank
    <3>2. Sends[args.source] = "eth send"
      BY <1>2 DEF Sends
    <3> HIDE DEF q
    <3>3. p = [q EXCEPT !.kind = Sends[args.source]]
      BY <2>1 DEF q, SendPlan
    <3>4. p.kind = Sends[args.source] /\ p.value = amount
      BY <3>1, <3>3
    <3> QED
      BY <3>2, <3>4
  <2> HIDE DEF q
  <2>3. FeeOf(p) = rate * SendGas
    BY <2>2, FeePerKind
  <2>4. Reserve = SendGas
    BY <2>1 DEF Reserve
  <2>5. SendGas <= Reserve
    BY <1>3, <2>4
  <2> QED
    BY <1>3, <1>6, <2>2, <2>3, <2>4, <2>5 DEF NativeKinds
<1>11. CASE VaultAsked(p)
  <2>1. step = "selected" /\ args.command = "swap" /\ executor(backend) = "vault-swap"
    BY <1>11 DEF VaultAsked
  <2>2. PICK least : \E e : p = EvmVaultPlan(e, least)
    BY <1>2, <1>11 DEF VaultAsked
  <2>3. PICK e : p = EvmVaultPlan(e, least)
    BY <2>2
  <2>4. p.kind = "evm vault swap" /\ p.value = amount
    BY <1>2, <2>3 DEF EvmVaultPlan, EthPlan, Carried, Carrying, Blank
  <2>5. p.value > 0
    <3>1. amount > 0
      BY <1>2
    <3> QED
      BY <2>4, <3>1
  <2>6. FeeOf(p) = rate * VaultGas
    BY <2>4, <2>5, FeePerKind
  <2>7. args.backend \in {"auto", "chainflip"}
    <3>1. args.backend \in {"auto", backend}
      BY <2>1 DEF SweepInv
    <3>2. args.backend \in Named \cup {"auto"}
      BY <1>1 DEF SweepInv, CommandLines, LiquidityLines, Named, Memos
    <3>3. backend \notin Memos /\ backend # "cow"
      BY <2>1 DEF executor
    <3> QED
      BY <3>1, <3>2, <3>3 DEF Named
  <2>8. VaultGas \in Nat /\ VaultGas <= Reserve
    BY <1>1, <2>1, <2>7, SwapReserve, SwapAssumption
  <2> QED
    BY <1>6, <2>4, <2>6, <2>8 DEF NativeKinds
<1> QED
  BY <1>4, <1>8, <1>9, <1>10, <1>11

\* The fee of a transaction of an account chain is what it was built with,
\* whatever else in it slipped.
LEMMA FeeIsBuilt ==
    ASSUME NEW p, p.kind \in AccountKinds, NEW fee,
           NEW t \in {Right(p, fee)} \cup Slipped(p, fee)
    PROVE  t.fee = fee
<1>1. p.kind \notin UtxoKinds
  BY DEF AccountKinds, UtxoKinds
<1> DEFINE F == FieldsOf(p.kind)
           R == [f \in F \cup {"fee"} |-> IF f = "fee" THEN fee ELSE p[f]]
<1>2. "fee" \notin F
  BY DEF AccountKinds, FieldsOf, EthBuilt, TokenSent, TokenBuilt, VaultBuilt,
         TronBuilt, Trc20Built, MsgSend, MsgDeposit
<1>3. t = R \/ \E f \in F : t = [R EXCEPT ![f] = Slip]
  BY <1>1 DEF Right, Slipped
<1> HIDE DEF F
<1> QED
  BY <1>2, <1>3

\* A plan that moves a native balance moves its value.
LEMMA ValueIsPlanned ==
    ASSUME NEW p, p.kind \in NativeKinds,
           NEW fee
    PROVE  Right(p, fee).value = p.value
<1>1. p.kind \notin UtxoKinds
  BY DEF NativeKinds, UtxoKinds
<1>2. "value" \in FieldsOf(p.kind)
  BY DEF NativeKinds, FieldsOf, EthBuilt, VaultBuilt, TokenSent
<1>3. Right(p, fee)
        = [f \in FieldsOf(p.kind) \cup {"fee"} |-> IF f = "fee" THEN fee ELSE p[f]]
  BY <1>1 DEF Right
<1> QED
  BY <1>2, <1>3

\* The first state sweeps nothing, and every step keeps what a sweep is worth
\* within the balance: sizing sets the reserve aside, the selection narrows
\* down who gets it, the prompt shows what fits, and only that goes out.
LEMMA SweepInvInit == Init => SweepInv
<1> SUFFICES ASSUME Init PROVE SweepInv
  OBVIOUS
<1>1. step = "start" /\ ~ Sent
  BY DEF Init, FrameInit, Sent
<1> QED
  BY <1>1 DEF SweepInv, SweepLeavesGas

\* Every step keeps the gas that was held back tied to the call that will sweep the
\* balance: the sizing of _swap_from_evm sets it, the choice of a backend uses it up.
LEMMA SweepInvNext == PlannedInv /\ SweepInv /\ [Next]_vars => SweepInv'
<1> SUFFICES ASSUME PlannedInv, SweepInv, [Next]_vars PROVE SweepInv'
  OBVIOUS
<1>1. CommandInv /\ CommandInv' /\ PlannedInv'
  BY PlannedInvNext DEF PlannedInv
<1>2. step \in AfterPrompt \/ ~ Sent
  BY DEF PlannedInv
<1>3. CASE step = "start"
  <2>1. /\ \/ step' = "start" /\ UNCHANGED args
           \/ step' = "sizing" /\ args' \in CommandLines \cup LiquidityLines
        /\ UNCHANGED sent
    BY <1>3, FirstStep
  <2> QED
    BY <1>2, <1>3, <2>1 DEF SweepInv, SweepLeavesGas, Sent, AfterPrompt
<1>4. CASE step = "sizing"
  <2>1. args \in CommandLines \cup LiquidityLines
    BY <1>4 DEF SweepInv
  <2>2. /\ UNCHANGED <<args, sent>>
        /\ \/ step' \in {"sizing", "ended"}
           \/ /\ step' \in {"sized", "selected", "home"}
              /\ step' = "selected" => args.command = "send"
              /\ step' = "home" => ~ Sweeping
              /\ Sweeping =>
                     /\ args.command \in {"swap", "send", "add"}
                     /\ amount' \in Nat \ {0} /\ amount' + rate' * Reserve = Balance
    BY <1>1, <1>4, <2>1, SizingSteps
  <2>3. Reserve' = Reserve /\ Sweeping' = Sweeping
    BY <2>2 DEF Reserve, Sweeping
  <2>4. ~ Sent'
    BY <1>2, <1>4, <2>2 DEF Sent, AfterPrompt
  <2> QED
    BY <2>1, <2>2, <2>3, <2>4 DEF SweepInv, SweepLeavesGas
<1>5. CASE step \in {"sized", "selected", "home", "found"} /\ step' # "prompt"
  <2>1. /\ UNCHANGED <<args, amount, rate, sent>>
        /\ \/ UNCHANGED <<step, backend>>
           \/ step' = "ended"
           \/ /\ step = "sized" /\ step' = "selected" /\ args.command = "swap"
              /\ args.backend \in {"auto", backend'}
           \/ step' = "found" /\ args.command = "withdraw"
    BY <1>1, <1>5, EarlySteps
  <2>2. Reserve' = Reserve /\ Sweeping' = Sweeping
    BY <2>1 DEF Reserve, Sweeping
  <2>3. ~ Sent'
    BY <1>2, <1>5, <2>1 DEF Sent, AfterPrompt
  <2>4. args' \in CommandLines \cup LiquidityLines
    BY <1>5, <2>1 DEF SweepInv
  <2>5. args.command = "withdraw" => ~ Sweeping
    <3>1. ASSUME args.command = "withdraw" PROVE ~ args.sweep
      <4>1. args \in LiquidityLines
        BY <1>5, <3>1 DEF SweepInv, CommandLines
      <4> QED
        BY <3>1, <4>1 DEF LiquidityLines
    <3> QED
      BY <3>1 DEF Sweeping
  <2> QED
    BY <2>1, <2>2, <2>3, <2>4, <2>5, <1>5 DEF SweepInv, SweepLeavesGas
<1>6. CASE step \in {"sized", "selected", "home", "found"} /\ step' = "prompt"
  <2>1. PICK p, fee : Showing(p, fee)
    BY <1>1, <1>6, PromptShows
  <2>2. UNCHANGED args /\ ~ Sent'
    BY <1>2, <1>6, <2>1 DEF Showing, Prepare, Sent, AfterPrompt
  <2>3. Sweeping' = Sweeping
    BY <2>2 DEF Sweeping
  <2>4. plan' = p /\ tx' \in {Right(p, fee)} \cup Slipped(p, fee)
    BY <2>1 DEF Showing, Prepare
  <2>5. ASSUME Sweeping
        PROVE  /\ plan'.kind \in NativeKinds
               /\ tx'.fee \in Nat /\ plan'.value \in Nat
               /\ plan'.value + tx'.fee <= Balance
    <3>1. /\ p.kind \in NativeKinds
          /\ fee \in Nat /\ p.value \in Nat /\ p.value + fee <= Balance
      BY <1>1, <1>6, <2>1, <2>5, SweepFits
    <3>2. p.kind \in AccountKinds
      BY <3>1 DEF NativeKinds, AccountKinds
    <3>3. tx'.fee = fee
      BY <2>4, <3>2, FeeIsBuilt
    <3> QED
      BY <2>4, <3>1, <3>3
  <2>6. args' \in CommandLines \cup LiquidityLines
    BY <1>6, <2>2 DEF SweepInv
  <2> QED
    BY <1>6, <2>2, <2>3, <2>5, <2>6 DEF SweepInv, SweepLeavesGas
<1>7. CASE step \in {"prompt"} \cup AfterPrompt
  <2>1. UNCHANGED <<args, amount, rate, backend>>
    BY <1>7, LateSteps
  <2>2. Sweeping' = Sweeping
    BY <2>1 DEF Sweeping
  <2>3. /\ step' \in {"prompt"} \cup AfterPrompt
        /\ step' \in {"prompt", "sending"} =>
               step \in {"prompt", "sending"} /\ UNCHANGED <<plan, tx>>
        /\ \/ UNCHANGED sent
           \/ step = "sending" /\ sent'.tx = tx /\ UNCHANGED <<plan, tx>>
    BY <1>7, LateSteps DEF Settle, Idle, Posted, AfterPrompt
  <2>4. args' \in CommandLines \cup LiquidityLines
    BY <1>7, <2>1 DEF SweepInv, AfterPrompt
  <2>5. SweepLeavesGas'
    <3> SUFFICES ASSUME Sent', Sweeping
                 PROVE  sent'.tx.value + sent'.tx.fee <= Balance
      BY <2>1 DEF SweepLeavesGas, Sweeping
    <3>1. CASE UNCHANGED sent
      BY <3>1 DEF SweepInv, SweepLeavesGas, Sent, Sweeping
    <3>2. CASE step = "sending" /\ sent'.tx = tx /\ UNCHANGED <<plan, tx>>
      <4>1. /\ plan.kind \in NativeKinds
            /\ plan.value + tx.fee <= Balance
        BY <3>2 DEF SweepInv
      <4>2. sent'.tx = tx /\ tx = Right(plan, tx.fee)
        BY <1>1, <3>2 DEF PlannedInv, Good
      <4>3. tx.value = plan.value
        <5>1. Right(plan, tx.fee).value = plan.value
          BY <4>1, ValueIsPlanned
        <5> QED
          BY <4>2, <5>1
      <4>4. sent'.tx.value + sent'.tx.fee = plan.value + tx.fee
        BY <4>2, <4>3
      <4> QED
        BY <4>1, <4>4
    <3> QED
      BY <2>3, <3>1, <3>2
  <2> QED
    BY <1>7, <2>1, <2>2, <2>3, <2>4, <2>5 DEF SweepInv, AfterPrompt
<1> QED
  BY <1>3, <1>4, <1>5, <1>6, <1>7 DEF SweepInv, AfterPrompt

\* A sweep of a native balance leaves the gas of the transaction that makes it,
\* for any balance, gas budgets and rate, and whichever backend an automatic
\* choice falls on (cli._evm_sweep_gas).
THEOREM SweepAlwaysLeavesGas == Spec => []SweepLeavesGas
<1>1. SweepInv => SweepLeavesGas
  BY DEF SweepInv
<1> QED
  BY <1>1, PlannedInvInit, PlannedInvNext, SweepInvInit, SweepInvNext, PTL DEF Spec

-----------------------------------------------------------------------------
\* A vault swap at the prompt was asked for with the floor the user is shown,
\* or the price that buys it.
Vaulted ==
    /\ plan.kind \in VaultSwaps => /\ plan.memo.floor \in Int /\ floor \in Nat
                                   /\ plan.pays = Them
    /\ plan.kind = "utxo vault swap" => args.source = "utxo" /\ plan.floor = floor
    /\ plan.kind = "evm vault swap" =>
           /\ args.source # "utxo" /\ Swapped \in Nat \ {0}
           /\ plan.floor = min_price(floor, Swapped)

\* What the gate has read of a vault swap that is out.
Promised ==
    plan.kind \in VaultSwaps =>
        /\ plan.memo.floor >= plan.floor /\ plan.memo.pays = Them
        /\ SaidOnChain = plan.memo /\ RefundTo \in Ours

FloorInv ==
    /\ amount \in Int
    /\ step \in {"prompt", "sending", "waiting"} => Vaulted
    /\ step = "waiting" => Promised
    /\ step # "ended" => settled = Pending
    /\ FloorIsKept

\* Only a vault swap is of a vault swap's kind.
LEMMA VaultSwapAsked ==
    ASSUME CommandInv, step # "start", NEW p, NEW fee, Showing(p, fee),
           p.kind \in VaultSwaps
    PROVE  VaultAsked(p)
<1>1. ASSUME NEW m, NEW e, NEW d, NEW a
      PROVE  PlanOf(Carrying(m, e, d), a).kind \in MemoSwaps
  BY <1>1 DEF CommandInv, MemoSwaps, PlanOf, Carrying, Blank, UtxoPlan, EthPlan,
     TokenPlan, TronPlan, TronTokenPlan, CosmosPlan, Sources
<1>2. MemoSwaps \cap VaultSwaps = {} /\ SendKinds \cap VaultSwaps = {}
  BY DEF MemoSwaps, SendKinds, VaultSwaps
<1>3. ~ MemoAsked(p)
  BY <1>1, <1>2 DEF MemoAsked
<1>4. ~ AddAsked(p)
  BY <1>1, <1>2 DEF AddAsked, ForPool
<1>5. ~ SendAsked(p)
  BY <1>2, SendIsSane DEF SendAsked, Names
<1>6. ~ PoolAsked(p)
  <2>1. \A v : ProtocolDeposit(v).kind \in MemoSwaps
    BY DEF ProtocolDeposit, CosmosPlan, ForPool, Carrying, Blank, MemoSwaps
  <2>2. EthPlan(ForPool, dust_threshold).kind \in MemoSwaps
    BY DEF EthPlan, ForPool, Carrying, Blank, MemoSwaps
  <2>3. PlanOf(ForPool, dust_threshold).kind \in MemoSwaps
    BY <1>1 DEF ForPool
  <2>4. TriggerPlan.kind \in MemoSwaps
    BY <2>2, <2>3 DEF TriggerPlan
  <2> QED
    BY <1>2, <2>1, <2>4 DEF PoolAsked
<1> QED
  BY <1>3, <1>4, <1>5, <1>6 DEF Showing

\* A broker's answer has the floor asked for, or is off by one.
LEMMA EncodingFloor ==
    ASSUME NEW least \in Nat, NEW e \in Encodings(least)
    PROVE  e.floor \in Int
<1>1. Encoding(least).floor = least /\ "floor" \in DOMAIN Encoding(least)
  BY DEF Encoding
<1> QED
  BY <1>1 DEF Encodings

\* A floor taken off a quote, and the price that buys it, are natural numbers.
LEMMA FloorIsNat ==
    ASSUME NEW egress \in Outs \cup {0}, NEW bps \in Bps
    PROVE  min_output_amount(egress, bps) \in Nat
<1>1. egress \in Nat /\ bps \in Nat /\ Den \in Nat \ {0} /\ Den - bps \in Nat
  BY SwapAssumption
<1> DEFINE n == egress * (Den - bps)
<1>2. n \in Nat
  BY <1>1
<1> HIDE DEF n
<1>3. n \div Den \in Nat
  BY <1>1, <1>2
<1> QED
  BY <1>3 DEF n, min_output_amount

\* min_price of a vault swap is a natural number for every floor and non-zero input.
LEMMA PriceIsNat ==
    ASSUME NEW least \in Nat, NEW input \in Nat \ {0}
    PROVE  min_price(least, input) \in Nat
<1> DEFINE n == (least + Egress) * Scale + input - 1
<1>1. (least + Egress) * Scale \in Nat
  BY SwapAssumption
<1>2. n \in Nat
  BY <1>1
<1> HIDE DEF n
<1>3. n \div input \in Nat
  BY <1>2
<1> QED
  BY <1>3 DEF n, min_price

\* A vault swap that is shown carries the floor of its own quote.
LEMMA VaultedWhenAsked ==
    ASSUME amount \in Int, NEW p, VaultAsked(p), plan' = p,
           UNCHANGED <<args, amount>>
    PROVE  Vaulted'
<1>1. floor' \in Nat
  BY FloorIsNat DEF VaultAsked
<1>2. PICK least : \E e \in Encodings(least) :
        \/ /\ args.source = "utxo" /\ least = floor' /\ p = UtxoVaultPlan(e, least)
        \/ /\ args.source \in {"evm", "erc20"} /\ Swapped > 0
           /\ least = min_price(floor', Swapped) /\ p = EvmVaultPlan(e, least)
  BY DEF VaultAsked
<1>3. PICK e \in Encodings(least) :
        \/ /\ args.source = "utxo" /\ least = floor' /\ p = UtxoVaultPlan(e, least)
        \/ /\ args.source \in {"evm", "erc20"} /\ Swapped > 0
           /\ least = min_price(floor', Swapped) /\ p = EvmVaultPlan(e, least)
  BY <1>2
<1>4. Swapped \in Int /\ Swapped' = Swapped
  BY SwapAssumption DEF Swapped
<1>5. CASE /\ args.source = "utxo" /\ least = floor' /\ p = UtxoVaultPlan(e, least)
  <2>1. /\ p.kind = "utxo vault swap" /\ p.memo = e /\ p.floor = least /\ p.pays = Them
    BY <1>5 DEF UtxoVaultPlan, UtxoPlan, Carried, Carrying, Blank
  <2>2. e.floor \in Int
    BY <1>1, <1>5, EncodingFloor
  <2> QED
    BY <1>1, <1>5, <2>1, <2>2 DEF Vaulted
<1>6. CASE /\ args.source \in {"evm", "erc20"} /\ Swapped > 0
           /\ least = min_price(floor', Swapped) /\ p = EvmVaultPlan(e, least)
  <2>1. /\ p.kind = "evm vault swap" /\ p.memo = e /\ p.floor = least /\ p.pays = Them
    BY <1>6 DEF EvmVaultPlan, EthPlan, TokenPlan, Carried, Carrying, Blank
  <2>2. Swapped \in Nat \ {0}
    BY <1>4, <1>6
  <2>3. e.floor \in Int
    <3>1. least \in Nat
      BY <1>1, <1>6, <2>2, PriceIsNat
    <3> QED
      BY <3>1, EncodingFloor
  <2>4. args.source # "utxo"
    BY <1>6
  <2>5. p.floor = min_price(floor', Swapped')
    BY <1>4, <1>6, <2>1
  <2>6. Swapped' \in Nat \ {0}
    BY <1>4, <2>2
  <2> QED
    BY <1>1, <2>1, <2>3, <2>4, <2>5, <2>6 DEF Vaulted
<1> QED
  BY <1>3, <1>5, <1>6

\* What a Bitcoin vault swap's gate has found: the floor in the payload, one
\* output that carries it, and a change to be refunded to.
LEMMA UtxoVaultRead ==
    ASSUME NEW p, p.kind = "utxo vault swap", NEW at,
           NEW t, t.outs = OutputsOf(p), Gate(t, p, at) = {}
    PROVE  /\ ~ (p.memo.floor < p.floor)
           /\ \E o : Saying(t) = {o} /\ o.memo = p.memo
           /\ \E o \in t.outs : o.n = 3
<1>1. PayloadWrong(p.memo, p) = {} /\ Unrefundable(t, p) = {}
  BY DEF Gate, verify_chainflip_vault_swap
<1>2. ~ (p.memo.floor < p.floor)
  BY <1>1 DEF PayloadWrong, If
<1>3. \E o : Saying(t) = {o} /\ o.memo = p.memo
  <2>1. IsFiniteSet(t.outs)
    BY OutputsAreFew
  <2>2. SaidWrongly(t, p) = {}
    BY DEF Gate, verify_chainflip_vault_swap, verify_btc_swap
  <2> QED
    BY <2>1, <2>2, SaidOnce
<1>4. Others(t, p.to) # {}
  BY <1>1 DEF Unrefundable, If
<1>5. PICK o \in t.outs : o.to # p.to /\ o.memo = NoMemo
  BY <1>4 DEF Others, Paying, Saying
<1>6. o = Output(3, "our change", p.change, NoMemo)
  <2>1. \/ o = Output(1, p.to, p.value, NoMemo)
        \/ o = Output(2, "data", 0, p.memo) /\ p.memo # NoMemo
        \/ o = Output(3, "our change", p.change, NoMemo)
    BY <1>5, OutputsAreFew
  <2>2. Output(1, p.to, p.value, NoMemo).to = p.to
    BY DEF Output
  <2>3. Output(2, "data", 0, p.memo).memo = p.memo
    BY DEF Output
  <2> QED
    BY <1>5, <2>1, <2>2, <2>3
<1>7. o.n = 3
  BY <1>6 DEF Output
<1> QED
  BY <1>2, <1>3, <1>5, <1>7

\* What an EVM vault swap's gate has found: the price in the calldata, which is
\* what goes out, and a refund address of the wallet.
LEMMA EvmVaultRead ==
    ASSUME NEW p, p.kind = "evm vault swap", NEW fee, NEW at,
           NEW t, t = Right(p, fee), Gate(t, p, at) = {}
    PROVE  /\ ~ (p.memo.floor < p.floor)
           /\ t.memo = p.memo /\ p.memo.refund \in Ours
<1>1. /\ _verify_vault_parameters(p.memo, p) = {}
      /\ If("refund", p.refund \notin Ours) = {}
  BY DEF Gate, verify_chainflip_evm_vault_swap
<1>2. ~ (p.memo.floor < p.floor)
  BY <1>1 DEF _verify_vault_parameters, If
<1>3. p.memo.refund = p.refund
  <2>1. Off(p.memo, p, {"refund", "retry"}) = {}
    BY <1>1 DEF _verify_vault_parameters
  <2>2. p.memo["refund"] = p["refund"]
    BY <2>1 DEF Off
  <2> QED
    BY <2>2
<1>4. p.refund \in Ours
  BY <1>1 DEF If
<1>5. t.memo = p.memo
  <2>1. p.kind \notin UtxoKinds /\ "memo" \in FieldsOf(p.kind)
    BY DEF UtxoKinds, FieldsOf, VaultBuilt
  <2>2. t = [f \in FieldsOf(p.kind) \cup {"fee"} |-> IF f = "fee" THEN fee ELSE p[f]]
    BY <2>1 DEF Right
  <2> QED
    BY <2>1, <2>2
<1> QED
  BY <1>2, <1>3, <1>4, <1>5

\* A vault swap that goes out promises what was shown.
LEMMA SentIsPromised ==
    ASSUME PlannedInv, Vaulted, step = "sending",
           UNCHANGED <<args, plan>>, sent'.tx = tx
    PROVE  Promised'
<1>1. PICK fee \in Nat : \E at : /\ Sane(plan)
                                 /\ tx \in {Right(plan, fee)} \cup Slipped(plan, fee)
                                 /\ problems = Gate(tx, plan, at)
  BY DEF PlannedInv, Fits
<1>2. PICK at : /\ Sane(plan)
                /\ tx \in {Right(plan, fee)} \cup Slipped(plan, fee)
                /\ problems = Gate(tx, plan, at)
  BY <1>1
<1>3. Gate(tx, plan, at) = {}
  BY <1>2 DEF PlannedInv
<1>4. tx = Right(plan, tx.fee)
  BY <1>2, <1>3, PassedIsGood DEF Good
<1>5. sent'.tx = tx
  OBVIOUS
<1> SUFFICES ASSUME plan.kind \in VaultSwaps
             PROVE  /\ plan.memo.floor >= plan.floor /\ plan.memo.pays = Them
                    /\ SaidOnChain' = plan.memo /\ RefundTo' \in Ours
  BY DEF Promised
<1>6. /\ plan.memo.floor \in Int /\ floor \in Nat /\ plan.pays = Them
  BY DEF Vaulted
<1>7. plan.memo.pays = Them
  <2>1. Names(plan, "swap")
    BY <1>6 DEF Names
  <2> QED
    BY <1>3, <2>1, GateReadsDestination
<1>8. plan.floor \in Int
  <2>1. CASE plan.kind = "utxo vault swap"
    <3>1. plan.floor = floor
      BY <2>1 DEF Vaulted
    <3>2. floor \in Int
      BY <1>6
    <3> QED
      BY <3>1, <3>2
  <2>2. CASE plan.kind = "evm vault swap"
    <3>1. plan.floor = min_price(floor, Swapped) /\ Swapped \in Nat \ {0}
      BY <2>2 DEF Vaulted
    <3> QED
      BY <1>6, <3>1, PriceIsNat
  <2> QED
    BY <2>1, <2>2 DEF VaultSwaps
<1>9. ASSUME ~ (plan.memo.floor < plan.floor) PROVE plan.memo.floor >= plan.floor
  <2> DEFINE a == plan.memo.floor
             b == plan.floor
  <2>1. a \in Int /\ b \in Int /\ ~ (a < b)
    BY <1>6, <1>8, <1>9
  <2> HIDE DEF a, b
  <2>2. a >= b
    BY <2>1
  <2> QED
    BY <2>2 DEF a, b
<1>10. CASE plan.kind = "utxo vault swap"
  <2>1. /\ ~ (plan.memo.floor < plan.floor)
        /\ \E o : Saying(tx) = {o} /\ o.memo = plan.memo
        /\ \E o \in tx.outs : o.n = 3
    <3>1. tx.outs = OutputsOf(plan)
      <4>1. Right(plan, tx.fee).outs = OutputsOf(plan)
        BY <1>10 DEF Right, UtxoKinds
      <4> QED
        BY <1>4, <4>1
    <3>2. PICK p : p = plan
      OBVIOUS
    <3>3. PICK t : t = tx
      OBVIOUS
    <3>4. p.kind = "utxo vault swap" /\ t.outs = OutputsOf(p) /\ Gate(t, p, at) = {}
      BY <1>3, <1>10, <3>1, <3>2, <3>3
    <3>5. /\ ~ (p.memo.floor < p.floor)
          /\ \E o : Saying(t) = {o} /\ o.memo = p.memo
          /\ \E o \in t.outs : o.n = 3
      BY <3>4, UtxoVaultRead
    <3> QED
      BY <3>2, <3>3, <3>5
  <2>2. args.source = "utxo"
    BY <1>10 DEF Vaulted
  <2>3. SaidOnChain' = (CHOOSE o \in tx.outs : o.memo # NoMemo).memo
    BY <1>5, <2>2 DEF SaidOnChain
  <2>4. PICK o : Saying(tx) = {o} /\ o.memo = plan.memo
    BY <2>1
  <2>5. (CHOOSE q \in tx.outs : q.memo # NoMemo) = o
    <3>1. o \in tx.outs /\ o.memo # NoMemo
      BY <2>4 DEF Saying
    <3>2. ASSUME NEW q \in tx.outs, q.memo # NoMemo PROVE q = o
      BY <2>4, <3>2 DEF Saying
    <3> QED
      BY <3>1, <3>2
  <2>6. SaidOnChain' = plan.memo
    BY <2>3, <2>4, <2>5
  <2>7. RefundTo' = "our change"
    BY <1>5, <2>1, <2>2 DEF RefundTo
  <2> QED
    BY <1>7, <1>9, <2>1, <2>6, <2>7 DEF Ours
<1>11. CASE plan.kind = "evm vault swap"
  <2>1. /\ ~ (plan.memo.floor < plan.floor)
        /\ tx.memo = plan.memo /\ plan.memo.refund \in Ours
    <3>1. PICK p : p = plan
      OBVIOUS
    <3>2. PICK t : t = tx
      OBVIOUS
    <3>3. p.kind = "evm vault swap" /\ t = Right(p, t.fee) /\ Gate(t, p, at) = {}
      BY <1>3, <1>4, <1>11, <3>1, <3>2
    <3>4. /\ ~ (p.memo.floor < p.floor)
          /\ t.memo = p.memo /\ p.memo.refund \in Ours
      BY <3>3, EvmVaultRead
    <3> QED
      BY <3>1, <3>2, <3>4
  <2>2. args.source # "utxo"
    BY <1>11 DEF Vaulted
  <2>3. SaidOnChain' = plan.memo
    BY <1>5, <2>1, <2>2 DEF SaidOnChain
  <2>4. RefundTo' \in Ours
    BY <2>1, <2>2, <2>3 DEF RefundTo
  <2> QED
    BY <1>7, <1>9, <2>1, <2>3, <2>4
<1> QED
  BY <1>10, <1>11 DEF VaultSwaps

\* Whatever the protocol makes of a vault swap that promises what was shown,
\* the floor is kept.
LEMMA SettledAsPromised ==
    ASSUME Vaulted, Promised, Settle
    PROVE  FloorIsKept'
<1>1. plan.kind \in VaultSwaps
  BY DEF Settle, VaultSwaps
<1>2. /\ plan.memo.floor >= plan.floor /\ SaidOnChain.pays = Them
      /\ SaidOnChain.floor = plan.memo.floor /\ RefundTo \in Ours
      /\ plan.memo.floor \in Int /\ floor \in Nat
  BY <1>1 DEF Promised, Vaulted
<1>3. floor' = floor
  BY DEF Settle
<1> DEFINE f == SaidOnChain.floor
           g == plan.floor
<1>4. f >= g /\ f \in Int
  BY <1>2
<1> HIDE DEF f, g
<1>5. CASE plan.kind = "utxo vault swap"
  <2>1. args.source = "utxo" /\ g = floor
    BY <1>5 DEF Vaulted, g
  <2>2. PICK out \in Outs : settled' = IF out >= f THEN [to |-> SaidOnChain.pays, amount |-> out]
                                       ELSE [to |-> RefundTo, amount |-> plan.value]
    BY <2>1 DEF Settle, f
  <2>3. out >= f => out >= floor
    BY <1>2, <1>4, <2>1, SwapAssumption
  <2> QED
    BY <1>2, <1>3, <2>2, <2>3 DEF FloorIsKept
<1>6. CASE plan.kind = "evm vault swap"
  <2>1. args.source # "utxo" /\ g = min_price(floor, Swapped) /\ Swapped \in Nat \ {0}
    BY <1>6 DEF Vaulted, g
  <2>2. PICK p \in Prices :
          settled' = IF p >= f
                     THEN [to |-> SaidOnChain.pays,
                           amount |-> (Swapped * p) \div Scale - Egress]
                     ELSE [to |-> RefundTo, amount |-> amount]
    BY <2>1 DEF Settle, f
  <2>3. ASSUME p >= f PROVE (Swapped * p) \div Scale - Egress >= floor
    <3>1. g \in Nat /\ p \in Nat
      BY <1>2, <2>1, PriceIsNat, SwapAssumption
    <3>2. p >= min_price(floor, Swapped)
      BY <1>4, <2>1, <2>3, <3>1
    <3> QED
      BY <1>2, <2>1, <3>1, <3>2, PriceBuysTheFloor
  <2> DEFINE got == (Swapped * p) \div Scale - Egress
  <2>4. p >= f => got >= floor
    BY <2>3
  <2>5. settled' = IF p >= f THEN [to |-> SaidOnChain.pays, amount |-> got]
                   ELSE [to |-> RefundTo, amount |-> amount]
    BY <2>2
  <2> HIDE DEF got
  <2> QED
    BY <1>2, <1>3, <2>4, <2>5 DEF FloorIsKept
<1> QED
  BY <1>1, <1>5, <1>6 DEF VaultSwaps

\* The first state has promised nothing, and every step keeps the promise: the
\* prompt shows a floor and what was asked for it, what goes out has been read
\* back, and the protocol does what it reads.
LEMMA FloorInvInit == Init => FloorInv
<1> SUFFICES ASSUME Init PROVE FloorInv
  OBVIOUS
<1>1. step = "start" /\ amount = 0 /\ settled = Pending
  BY DEF Init, FrameInit, SwapInit
<1> QED
  BY <1>1 DEF FloorInv, FloorIsKept

\* Every step keeps the floor of a vault swap tied to the price that is encoded for
\* it, and what the protocol pays tied to that price.
LEMMA FloorInvNext == PlannedInv /\ SweepInv /\ FloorInv /\ [Next]_vars => FloorInv'
<1> SUFFICES ASSUME PlannedInv, SweepInv, FloorInv, [Next]_vars PROVE FloorInv'
  OBVIOUS
<1>1. CommandInv
  BY DEF PlannedInv
<1>2. ASSUME settled = Pending, UNCHANGED settled PROVE FloorIsKept'
  BY <1>2 DEF FloorIsKept, Pending
<1>3. CASE step = "start"
  <2>1. step' \in {"start", "sizing"} /\ UNCHANGED <<amount, settled>>
    BY <1>3, FirstStep
  <2> QED
    BY <1>2, <1>3, <2>1 DEF FloorInv
<1>4. CASE step = "sizing"
  <2>1. args \in CommandLines \cup LiquidityLines
    BY <1>4 DEF SweepInv
  <2>2. /\ UNCHANGED settled /\ (amount' = amount \/ amount' \in Int)
        /\ step' \in {"sizing", "ended", "sized", "selected", "home"}
    BY <1>1, <1>4, <2>1, SizingSteps
  <2> QED
    BY <1>2, <1>4, <2>2 DEF FloorInv
<1>5. CASE step \in {"sized", "selected", "home", "found"} /\ step' # "prompt"
  <2>1. /\ UNCHANGED <<amount, settled>>
        /\ step' = step \/ step' \in {"selected", "found", "ended"}
    BY <1>1, <1>5, EarlySteps
  <2> QED
    BY <1>2, <1>5, <2>1 DEF FloorInv
<1>6. CASE step \in {"sized", "selected", "home", "found"} /\ step' = "prompt"
  <2>1. PICK p, fee : Showing(p, fee)
    BY <1>1, <1>6, PromptShows
  <2>2. UNCHANGED <<args, amount, settled>> /\ plan' = p
    BY <2>1 DEF Showing, Prepare
  <2>3. Vaulted'
    <3>1. CASE p.kind \in VaultSwaps
      <4>1. VaultAsked(p)
        BY <1>1, <1>6, <2>1, <3>1, VaultSwapAsked
      <4>2. amount \in Int
        BY DEF FloorInv
      <4> QED
        BY <2>2, <4>1, <4>2, VaultedWhenAsked
    <3>2. CASE p.kind \notin VaultSwaps
      BY <2>2, <3>2 DEF Vaulted, VaultSwaps
    <3> QED
      BY <3>1, <3>2
  <2> QED
    BY <1>2, <1>6, <2>2, <2>3 DEF FloorInv
<1>7. CASE step \in {"prompt"} \cup AfterPrompt
  <2>1. UNCHANGED <<args, amount, floor>>
    BY <1>7, LateSteps
  <2>2. Idle \/ Posted \/ Settle
    BY <1>7, LateSteps
  <2>3. UNCHANGED plan /\ Vaulted => Vaulted'
    BY <2>1 DEF Vaulted, Swapped
  <2>4. CASE Idle
    <3>1. UNCHANGED sent /\ UNCHANGED plan /\ UNCHANGED settled
      BY <2>4 DEF Idle
    <3>2. Promised => Promised'
      BY <2>1, <3>1 DEF Promised, SaidOnChain, RefundTo
    <3>3. FloorIsKept'
      BY <2>1, <3>1 DEF FloorInv, FloorIsKept
    <3> QED
      BY <2>1, <2>3, <2>4, <3>1, <3>2, <3>3 DEF FloorInv, Idle
  <2>5. CASE Posted
    <3>1. Vaulted /\ settled = Pending /\ UNCHANGED <<plan, tx, settled>>
          /\ step = "sending" /\ step' \in AfterPrompt
      BY <2>5 DEF FloorInv, Posted
    <3>2. step' = "waiting" => Promised'
      BY <2>1, <2>5, <3>1, SentIsPromised DEF Posted
    <3> QED
      BY <1>2, <2>1, <2>3, <3>1, <3>2 DEF FloorInv
  <2>6. CASE Settle
    <3>1. step = "waiting" /\ step' = "ended"
      BY <2>6 DEF Settle
    <3>2. FloorIsKept'
      BY <2>6, <3>1, SettledAsPromised DEF FloorInv
    <3> QED
      BY <2>1, <3>1, <3>2 DEF FloorInv
  <2> QED
    BY <2>2, <2>4, <2>5, <2>6
<1> QED
  BY <1>3, <1>4, <1>5, <1>6, <1>7 DEF SweepInv, AfterPrompt

\* A vault swap pays no less than the floor the user was shown, or it is
\* refunded to an address of the wallet, for any amounts, fees, tolerances and
\* market prices, and whatever a broker encodes (chainflip.min_price,
\* verify_chainflip_vault_swap, verify_chainflip_evm_vault_swap).
THEOREM FloorIsAlwaysKept == Spec => []FloorIsKept
<1>1. FloorInv => FloorIsKept
  BY DEF FloorInv
<1> QED
  BY <1>1, PlannedInvInit, PlannedInvNext, SweepInvInit, SweepInvNext,
     FloorInvInit, FloorInvNext, PTL DEF Spec
=============================================================================
