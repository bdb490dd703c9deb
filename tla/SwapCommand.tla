----------------------------- MODULE SwapCommand -----------------------------
(***************************************************************************)
(* `swap' and `send' (cli.cmd_swap, cli.cmd_send and the functions they     *)
(* dispatch to).  A swap is sized, its backend is chosen by a first round   *)
(* of quotes, and it is built on a second quote, or on an encoding that a   *)
(* Chainflip broker returns; from there on it is a DepositCommand.  What    *)
(* the node, the explorer or the broker answers is never trusted: an answer *)
(* here may have any one field wrong.                                       *)
(***************************************************************************)
EXTENDS DepositCommand

CONSTANTS
    Amounts,      \* --amount, or what a node reports as a minimum
    Balance,      \* of the account, or the total of the outputs
    Rates,        \* gas price or fee rate as fetched
    DefaultGas, VaultGas, SendGas, TokenGas,
    GasOptions,   \* --eth-gas; 0 is not given
    Outs,         \* what a quote promises, or the market pays
    Bps, Den,     \* tolerances, in parts of Den
    Ingress, Egress, Scale, Prices,   \* Chainflip: fees, fixed point, market
    PlanTTL       \* VAULT_SWAP_PLAN_TTL

ASSUME SwapAssumption ==
    /\ Amounts \cup Rates \cup GasOptions \cup Outs \cup Prices \subseteq Nat
    /\ {Balance, DefaultGas, VaultGas, SendGas, TokenGas} \subseteq Nat
    /\ {Ingress, Egress, PlanTTL} \subseteq Nat
    /\ Scale \in Nat \ {0} /\ Den \in Nat \ {0} /\ Bps \subseteq 0..(Den - 1)

VARIABLES
    args,      \* the command line
    amount,    \* SwapRequest.amount
    rate,      \* max_fee_per_gas, or the fee rate
    backend,   \* the backend chosen
    floor,     \* the least the user was told a vault swap can pay
    settled    \* what Chainflip did with the deposit

swapVars == <<args, amount, rate, backend, floor, settled>>

Sources == {"utxo", "evm", "erc20", "tron", "trc20", "home"}
Tokens  == {"erc20", "trc20"}
Memos   == {"thorchain", "maya"}
Named   == Memos \cup {"cow", "chainflip"}
Home    == "thorchain"   \* of the native source
Them    == "destination"

CommandLines ==
    {a \in [command : {"swap", "send"}, source : Sources,
            to : {"evm", "btc", "unlisted"}, backend : Named \cup {"auto"},
            sweep : BOOLEAN, gas : GasOptions] :
        /\ a.source # "evm" => a.gas = 0
        /\ a.command = "send" => (a.backend = "auto" /\ a.to = "evm" /\ a.gas = 0)
        /\ a.source = "utxo" => a.to # "btc"}

NoArgs  == [command |-> "none"]
Pending == [to |-> "nobody yet", amount |-> 0]

SwapInit == /\ args = NoArgs /\ amount = 0 /\ rate = 0 /\ backend = "auto"
            /\ floor = 0 /\ settled = Pending

StartSwap(a) ==
    /\ step = "start" /\ a \in CommandLines
    /\ args' = a /\ step' = "sizing"
    /\ UNCHANGED <<now, plan, tx, problems, sent, told, amount, rate, backend,
                   floor, settled>>

-----------------------------------------------------------------------------
\* Sizing, one action per command and chain: the rate is fetched, and a sweep
\* takes all that the reserve at that rate leaves.
Sizing(command, sources) ==
    step = "sizing" /\ args.command = command /\ args.source \in sources

Refuse == Abort /\ UNCHANGED swapVars

Sizes(reserve, next) ==
    \E r \in Rates :
        IF args.sweep /\ Balance <= reserve[r] THEN Refuse
        ELSE /\ rate' = r /\ step' = next
             /\ IF args.sweep THEN amount' = Balance - reserve[r]
                ELSE amount' \in Amounts
             /\ UNCHANGED <<now, plan, tx, problems, sent, told, args, backend,
                            floor, settled>>

Nothing == [r \in Rates |-> 0]
Fee     == [r \in Rates |-> r]
Gas(g)  == [r \in Rates |-> g * r]

Requested(gas) == IF gas = 0 THEN DefaultGas ELSE gas
Larger(a, b) == IF a >= b THEN a ELSE b

\* Faulty: the larger budget is kept only when Chainflip was asked for by name.
GasOfNamed(name, gas) ==
    IF name = "chainflip" THEN Larger(Requested(gas), VaultGas)
    ELSE Requested(gas)

\* A sweep keeps back the gas of the transaction that may move the balance,
\* before it is known which one does.
_evm_sweep_gas(name, gas) ==
    IF name \in {"auto", "chainflip"} THEN Larger(Requested(gas), VaultGas)
    ELSE Requested(gas)

_swap_from_utxo == Sizing("swap", {"utxo"}) /\ Sizes(Fee, "sized")

_swap_from_evm ==
    /\ Sizing("swap", {"evm", "erc20"})
    /\ Sizes(IF args.source = "erc20" THEN Nothing
             ELSE Gas(_evm_sweep_gas(args.backend, args.gas)), "sized")

_swap_from_tron ==
    /\ Sizing("swap", {"tron", "trc20"})
    /\ IF args.sweep /\ args.source = "tron" THEN Refuse ELSE Sizes(Nothing, "sized")

\* RUNE and CACAO go by their own network, whatever the others quote.
_swap_from_cosmos ==
    /\ Sizing("swap", {"home"})
    /\ IF args.sweep \/ args.backend \notin {"auto", Home} THEN Refuse
       ELSE Sizes(Nothing, "home")

_send_utxo == Sizing("send", {"utxo"}) /\ Sizes(Fee, "selected")

_send_evm == /\ Sizing("send", {"evm", "erc20"})
             /\ Sizes(IF args.source = "erc20" THEN Nothing ELSE Gas(SendGas),
                      "selected")

_send_tron ==
    /\ Sizing("send", {"tron", "trc20"})
    /\ IF args.sweep /\ args.source = "tron" THEN Refuse
       ELSE Sizes(Nothing, "selected")

_send_cosmos == /\ Sizing("send", {"home"})
                /\ IF args.sweep THEN Refuse ELSE Sizes(Nothing, "selected")

-----------------------------------------------------------------------------
\* Backend selection.
executor(b) == CASE b \in Memos -> "memo-deposit"
                 [] b = "cow"   -> "signed-order"
                 [] OTHER       -> "vault-swap"

Executors == CASE args.source = "utxo" -> {"memo-deposit", "vault-swap"}
               [] args.source \in {"evm", "erc20"} ->
                      {"memo-deposit", "vault-swap", "signed-order"}
               [] OTHER -> {"memo-deposit"}

\* CoW sells tokens for what the same chain holds; Chainflip has its own list.
CowServes       == args.source = "erc20" /\ args.to = "evm"
ChainflipServes == args.source # "home" /\ args.to # "unlisted"
serves(b) == CASE b \in Memos -> TRUE
               [] b = "cow"   -> CowServes
               [] OTHER       -> ChainflipServes

can_settle_vault_swap == CASE args.source = "utxo" -> args.to = "evm"
                           [] OTHER -> args.source \in {"evm", "erc20"}

_can_execute(b) ==
    /\ executor(b) \in Executors
    /\ b = "chainflip" => serves(b) /\ can_settle_vault_swap

Sized == step = "sized" /\ args.command = "swap"

SelectNamed ==
    /\ Sized /\ args.backend # "auto"
    /\ _can_execute(args.backend) /\ serves(args.backend)
    /\ backend' = args.backend /\ step' = "selected"
    /\ UNCHANGED <<now, plan, tx, problems, sent, told, args, amount, rate,
                   floor, settled>>

\* What every backend that serves the pair would pay; 0: it would not quote.
gather_quotes == [{b \in Named : serves(b)} -> Outs \cup {0}]

best_quote(quotes, among) ==
    {b \in among : quotes[b] > 0 /\ \A c \in among : quotes[c] <= quotes[b]}

\* The best of what can be executed, however much better the rest was.
SelectBest ==
    /\ Sized /\ args.backend = "auto"
    /\ \E quotes \in gather_quotes :
         backend' \in best_quote(quotes, {b \in DOMAIN quotes : _can_execute(b)})
    /\ step' = "selected"
    /\ UNCHANGED <<now, plan, tx, problems, sent, told, args, amount, rate,
                   floor, settled>>

\* Refused, or, asked for any, none quoted.
SelectRefused ==
    /\ Sized
    /\ \/ args.backend = "auto"
       \/ ~ _can_execute(args.backend)
       \/ ~ serves(args.backend)
    /\ Abort /\ UNCHANGED swapVars

-----------------------------------------------------------------------------
\* Plans.  One record for every kind of deposit, of which each kind has a part.
Blank == [kind |-> "none", to |-> "vault", value |-> 0, memo |-> NoMemo,
          expiry |-> NoExpiry, destination |-> Nobody, chain |-> "chain",
          contract |-> "none", router |-> "none", spender |-> "none",
          allowance |-> 0, tokens |-> 0, type |-> "type",
          from |-> "our account", denom |-> "coin", change |-> 0,
          known |-> {"vault"}, asset |-> "none", pays |-> Them, floor |-> 0,
          refund |-> "our account", retry |-> "retry"]

Carrying(memo, expiry, destination) ==
    [Blank EXCEPT !.memo = memo, !.expiry = expiry, !.destination = destination]

\* The deposit d of a units, as the source's adapter plans it.
UtxoPlan(d, a) == [d EXCEPT !.kind = "utxo swap", !.value = a,
                            !.change = Balance - a - rate]
EthPlan(d, a) == [d EXCEPT !.kind = "eth swap", !.value = a]
TokenPlan(d, a) == [d EXCEPT !.kind = "erc20 swap", !.contract = "token",
                             !.tokens = a, !.router = "router",
                             !.spender = "router", !.allowance = a]
TronPlan(d, a) == [d EXCEPT !.kind = "tron swap", !.value = a]
TronTokenPlan(d, a) == [d EXCEPT !.kind = "trc20 swap", !.contract = "token",
                                 !.tokens = a]
CosmosPlan(d, a) == [d EXCEPT !.kind = "cosmos deposit", !.value = a]

PlanOf(d, a) == CASE args.source = "utxo"  -> UtxoPlan(d, a)
                  [] args.source = "evm"   -> EthPlan(d, a)
                  [] args.source = "erc20" -> TokenPlan(d, a)
                  [] args.source = "tron"  -> TronPlan(d, a)
                  [] args.source = "trc20" -> TronTokenPlan(d, a)
                  [] args.source = "home"  -> CosmosPlan(d, a)

Sends == [utxo |-> "utxo send", evm |-> "eth send", erc20 |-> "erc20 send",
          tron |-> "tron send", trc20 |-> "trc20 send", home |-> "cosmos send"]

\* A send pays its recipient where a deposit pays the vault.
SendPlan == [PlanOf([Blank EXCEPT !.to = Them], amount)
                EXCEPT !.kind = Sends[args.source]]

\* The gas of what is built, or what a UTXO spend is charged.
FeeOf(p) == rate * CASE p.kind \in {"utxo swap", "utxo send", "utxo vault swap"} -> 1
                     [] p.kind = "eth swap" -> Requested(args.gas)
                     [] p.kind = "eth send" -> SendGas
                     [] p.kind = "evm vault swap" /\ p.value > 0 -> VaultGas
                     [] OTHER -> TokenGas

\* InsufficientFunds, where it is the wallet that adds up.
PrepareFunded(p) == IF p.change < 0 THEN Abort ELSE Prepare(p, FeeOf(p))

\* What a node may quote the second time.
Quotes == {[tradable |-> TRUE, error |-> FALSE, minimum |-> 0, vault |-> TRUE,
            memo |-> m, expiry |-> e] :
              m \in {Text(Them), Text(Slip), NoMemo,
                     [Text(Them) EXCEPT !.fits = FALSE]},
              e \in 0..MaxTime}
BadQuotes(q) == {[q EXCEPT !.tradable = FALSE], [q EXCEPT !.error = TRUE],
                 [q EXCEPT !.vault = FALSE]}
                \cup {[q EXCEPT !.minimum = m] : m \in Amounts}

QuoteRefused(q) ==
    \/ args.source # "home" /\ ~ q.tradable
    \/ q.error
    \/ amount < q.minimum
    \/ q.memo = NoMemo
    \/ args.source # "home" /\ ~ q.vault

prepare_swap ==
    /\ \/ step = "home"
       \/ step = "selected" /\ args.command = "swap" /\ executor(backend) = "memo-deposit"
    /\ \E q \in Quotes : \E p \in {q} \cup BadQuotes(q) :
        IF QuoteRefused(p) THEN Abort
        ELSE PrepareFunded(PlanOf(Carrying(p.memo, p.expiry, Them), amount))
    /\ UNCHANGED swapVars

PrepareSend ==
    /\ step = "selected" /\ args.command = "send"
    /\ PrepareFunded(SendPlan) /\ UNCHANGED swapVars

\* The order of a CoW swap is CowSwap's.
_swap_via_cow ==
    /\ step = "selected" /\ args.command = "swap"
    /\ executor(backend) = "signed-order"
    /\ End("handed to cow") /\ UNCHANGED sent
    /\ UNCHANGED swapVars

-----------------------------------------------------------------------------
\* Chainflip vault swaps.
min_output_amount(egress, bps) == (egress * (Den - bps)) \div Den

\* Faulty: the price is rounded down.
RoundedDown(least, input) == ((least + Egress) * Scale) \div input

\* The least price that buys the floor after the egress fee, rounded up.
min_price(least, input) == ((least + Egress) * Scale + input - 1) \div input

Swapped == amount - Ingress

\* The encoding as asked for, and with any one part of it different.
Encoding(least) ==
    [kind |-> "payload", vault |-> "vault", readable |-> TRUE, pays |-> Them,
     asset |-> args.to, floor |-> least, skim |-> FALSE, extras |-> FALSE,
     refund |-> "our account", retry |-> "retry",
     contract |-> IF args.source = "erc20" THEN "token" ELSE "none",
     tokens |-> IF args.source = "erc20" THEN amount ELSE 0]
Encodings(least) ==
    LET e == Encoding(least)
    IN  {e, [e EXCEPT !.readable = FALSE], [e EXCEPT !.skim = TRUE],
         [e EXCEPT !.extras = TRUE], [e EXCEPT !.floor = @ + 1]}
        \cup {[e EXCEPT !.floor = @ - 1] : x \in {y \in {least} : y > 0}}
        \cup {[e EXCEPT ![f] = Slip] : f \in {"vault", "pays", "asset", "refund",
                                              "retry", "contract", "tokens"}}

\* What the command itself refuses before anything is built.  The version,
\* the DCA and the oracle fields ("extras") are left to the gate.
PaysAsAsked(e, least) ==
    e.readable /\ e.pays = Them /\ e.asset = args.to /\ e.floor >= least /\ ~ e.skim

_check_evm_parameters(e) == \A f \in {"refund", "retry"} : e[f] = Encoding(0)[f]
_check_evm_call(e) == /\ \A f \in {"contract", "tokens"} : e[f] = Encoding(0)[f]
                      /\ _check_evm_parameters(e)

EncodingRefused(e, least) ==
    \/ e.vault # "vault" \/ ~ PaysAsAsked(e, least)
    \/ args.source # "utxo" /\ ~ _check_evm_call(e)

\* A deposit that carries the encoding and expires by the wallet's own clock.
Carried(e, least) == [Carrying(e, now + PlanTTL, Nobody)
                         EXCEPT !.asset = args.to, !.floor = least]

UtxoVaultPlan(e, least) ==
    [UtxoPlan(Carried(e, least), amount) EXCEPT !.kind = "utxo vault swap"]
EvmVaultPlan(e, least) ==
    IF args.source = "evm"
    THEN [EthPlan(Carried(e, least), amount) EXCEPT !.kind = "evm vault swap"]
    ELSE [TokenPlan(Carried(e, least), amount) EXCEPT !.kind = "evm vault swap",
                                                      !.spender = "vault"]
VaultPlan(e, least) == IF args.source = "utxo" THEN UtxoVaultPlan(e, least)
                       ELSE EvmVaultPlan(e, least)

\* The encoding a broker returns for a floor, refused or built on.
Encoded(least) ==
    \E e \in Encodings(least) :
        IF EncodingRefused(e, least) THEN Abort
        ELSE PrepareFunded(VaultPlan(e, least))

OnVault(sources) ==
    /\ step = "selected" /\ args.command = "swap" /\ args.source \in sources
    /\ executor(backend) = "vault-swap"

\* A second quote (0: none came), the floor it gives, and the encoding.
_swap_via_chainflip ==
    /\ OnVault({"utxo"})
    /\ \E egress \in Outs \cup {0}, bps \in Bps :
         \E out \in {min_output_amount(egress, bps)} :
            /\ floor' = out
            /\ IF args.sweep \/ egress = 0 THEN Abort ELSE Encoded(out)
    /\ UNCHANGED <<args, amount, rate, backend, settled>>

\* Whether a floor can be worked out from a quote: its fees name the coins they
\* are charged in, none is of a kind unheard of, and something is left to swap.
_native_fee_legs(named, known) == named /\ known /\ Swapped > 0

\* The quote has to be for this very deposit.
_swap_via_chainflip_evm ==
    /\ OnVault({"evm", "erc20"})
    /\ \E egress \in Outs \cup {0}, bps \in Bps, deposit \in {amount, amount + 1},
          named, known \in BOOLEAN :
         \E out \in {min_output_amount(egress, bps)} :
            /\ floor' = out
            /\ IF egress = 0 \/ deposit # amount \/ ~ _native_fee_legs(named, known)
               THEN Abort ELSE Encoded(min_price(out, Swapped))
    /\ UNCHANGED <<args, amount, rate, backend, settled>>

\* The protocol keeps the promise the deposit carries, to the letter: it pays
\* at the market's price, or refunds below what the deposit names.
SaidOnChain == IF args.source = "utxo"
               THEN (CHOOSE o \in sent.tx.outs : o.memo # NoMemo).memo
               ELSE sent.tx.memo
RefundTo == IF args.source # "utxo" THEN SaidOnChain.refund
            ELSE IF \E o \in sent.tx.outs : o.n = 3 THEN "our change" ELSE "lost"

Settle ==
    /\ step = "waiting" /\ plan.kind \in {"utxo vault swap", "evm vault swap"}
    /\ \/ /\ args.source = "utxo"
          /\ \E out \in Outs :
               settled' = IF out >= SaidOnChain.floor
                          THEN [to |-> SaidOnChain.pays, amount |-> out]
                          ELSE [to |-> RefundTo, amount |-> plan.value]
       \/ /\ args.source # "utxo"
          /\ \E p \in Prices :
               settled' = IF p >= SaidOnChain.floor
                          THEN [to |-> SaidOnChain.pays,
                                amount |-> (Swapped * p) \div Scale - Egress]
                          ELSE [to |-> RefundTo, amount |-> amount]
    /\ step' = "ended"
    /\ UNCHANGED <<now, plan, tx, problems, sent, told, args, amount, rate,
                   backend, floor>>
=============================================================================
