--------------------------- MODULE DepositCommand ---------------------------
(***************************************************************************)
(* What every command that moves money shares (cli._confirm_and_execute,    *)
(* swap.execute_swap and the build_and_verify methods): a plan is built     *)
(* into a transaction, the gate reads it back, the user is asked, the       *)
(* plan's expiry is compared with the clock once more, and the transaction  *)
(* is signed and handed over, a token deposit as an approval and the        *)
(* deposit behind it.  The clock runs on all the while.                     *)
(***************************************************************************)
EXTENDS VerifyGate

CONSTANTS
    MaxTime,   \* the clock stops here
    Slip       \* a value no plan ever asks for

NoExpiry == MaxTime + 1    \* the plan of a plain send carries none
Ours     == {"our change", "our account"}

ASSUME CommandAssumption ==
    MaxTime \in Nat /\ MaxTime > 0 /\ Slip \notin Ours

VARIABLES
    now,        \* the clock
    step,       \* where the command is
    plan,       \* Prepared.plan, with the kind of the deposit
    tx,         \* Prepared.built: the transaction, read back
    problems,   \* Prepared.problems
    sent,       \* what reached the network, and as how many transactions
    told        \* how the command ended, as the user read it

frameVars == <<now, step, plan, tx, problems, sent, told>>

NoPlan == [kind |-> "none"]
NoTx   == [fee |-> 0]
Unsent == [tx |-> NoTx, count |-> 0]

UtxoKinds  == {"utxo swap", "utxo send", "utxo vault swap"}

FrameInit ==
    /\ now = 0 /\ step = "start"
    /\ plan = NoPlan /\ tx = NoTx /\ problems = {}
    /\ sent = Unsent /\ told = "nothing"

-----------------------------------------------------------------------------
\* The builders.  The outputs of a UTXO transaction: the payment, the memo
\* unless there is none to carry, and the change if some is left.
Output(n, to, value, memo) == [n |-> n, to |-> to, value |-> value,
                               memo |-> memo]
OutputsOf(p) ==
    {Output(1, p.to, p.value, NoMemo)}
    \cup {o \in {Output(2, "data", 0, p.memo)} : p.memo # NoMemo}
    \cup {o \in {Output(3, "our change", p.change, NoMemo)} : p.change > 0}

\* The fields each account chain's builder fills in.
EthBuilt   == {"to", "value", "memo", "chain"}
TokenSent  == {"contract", "value", "to", "tokens", "chain"}
TokenBuilt == TokenSent \cup {"router", "spender", "allowance", "memo", "expiry"}
VaultBuilt == TokenSent \cup {"memo", "spender", "allowance"}
TronBuilt  == {"type", "to", "value", "memo"}
Trc20Built == TronBuilt \cup {"contract", "tokens"}
MsgSend    == {"type", "from", "to", "denom", "value", "memo"}
MsgDeposit == {"type", "denom", "value", "memo", "from"}

FieldsOf(kind) == CASE kind \in {"eth swap", "eth send"}     -> EthBuilt
                    [] kind = "erc20 send"                   -> TokenSent
                    [] kind = "erc20 swap"                   -> TokenBuilt
                    [] kind = "evm vault swap"               -> VaultBuilt
                    [] kind \in {"tron swap", "tron send"}   -> TronBuilt
                    [] kind \in {"trc20 swap", "trc20 send"} -> Trc20Built
                    [] kind = "cosmos send"                  -> MsgSend
                    [] kind = "cosmos deposit"               -> MsgDeposit

\* The transaction the plan calls for.
Right(p, fee) ==
    IF p.kind \in UtxoKinds THEN [outs |-> OutputsOf(p), fee |-> fee]
    ELSE [f \in FieldsOf(p.kind) \cup {"fee"} |-> IF f = "fee" THEN fee ELSE p[f]]

\* What the gate is there for: a builder, or the library under it, that gets
\* one thing wrong.
Slipped(p, fee) ==
    IF p.kind \in UtxoKinds
    THEN {[outs |-> OutputsOf(p) \cup {o}, fee |-> fee] :
             o \in {Output(4, p.to, p.value, NoMemo),
                    Output(4, "data", 0, Text(Slip)),
                    Output(4, Slip, 1, NoMemo)}}
         \cup {[outs |-> OutputsOf(p) \ {o}, fee |-> fee] :
                  o \in {q \in OutputsOf(p) : q.to # "our change"}}
         \cup {[outs |-> {[o EXCEPT !.to = IF o.n = 3 THEN Slip ELSE @]
                             : o \in OutputsOf(p)}, fee |-> fee]}
    ELSE {[Right(p, fee) EXCEPT ![f] = Slip] : f \in FieldsOf(p.kind)}

\* The gate each builder calls on what it built.
Gate(t, p, at) ==
    CASE p.kind = "utxo swap"       -> verify_btc_swap(t, p, Ours, at)
      [] p.kind = "utxo send"       -> verify_btc_send(t, p, Ours)
      [] p.kind = "utxo vault swap" -> verify_chainflip_vault_swap(t, p, Ours, at)
      [] p.kind = "eth swap"        -> verify_eth_swap(t, p, at)
      [] p.kind = "eth send"        -> verify_eth_send(t, p)
      [] p.kind = "erc20 send"      -> verify_eth_token_send(t, p)
      [] p.kind = "erc20 swap"      -> verify_eth_token_swap(t, p, at)
      [] p.kind = "evm vault swap"  -> verify_chainflip_evm_vault_swap(t, p, Ours, at)
      [] p.kind = "tron swap"       -> verify_tron_swap(t, p, at)
      [] p.kind = "tron send"       -> verify_tron_send(t, p)
      [] p.kind = "trc20 swap"      -> verify_tron_token_swap(t, p, at)
      [] p.kind = "trc20 send"      -> verify_tron_token_send(t, p)
      [] p.kind = "cosmos send"     -> verify_cosmos_send(t, p)
      [] p.kind = "cosmos deposit"  -> verify_cosmos_deposit(t, p, at)

\* Built and verified: the plan, the transaction and what is wrong with it.
Prepare(p, fee) ==
    \E t \in {Right(p, fee)} \cup Slipped(p, fee) :
        /\ plan' = p /\ tx' = t /\ problems' = Gate(t, p, now)
        /\ step' = "prompt"
        /\ UNCHANGED <<now, sent, told>>

\* The command gives up before there is anything to sign.
Abort ==
    /\ step' = "ended" /\ told' = "refused"
    /\ UNCHANGED <<now, plan, tx, problems, sent>>

-----------------------------------------------------------------------------
End(how) == step' = "ended" /\ told' = how /\ UNCHANGED <<now, plan, tx, problems>>

Unsafe  == step = "prompt" /\ problems # {} /\ End("unsafe") /\ UNCHANGED sent
NotSent == step = "prompt" /\ problems = {} /\ End("not sent") /\ UNCHANGED sent

\* The quote is compared with the clock after the prompt, not only before it.
Fresh(p) == now < p.expiry

Expired == /\ step = "prompt" /\ problems = {} /\ ~ Fresh(plan)
           /\ End("expired") /\ UNCHANGED sent

\* The user said yes in time: what follows is signed and sent, however long that
\* takes.
Confirm == /\ step = "prompt" /\ problems = {} /\ Fresh(plan)
           /\ step' = "sending"
           /\ UNCHANGED <<now, plan, tx, problems, sent, told>>

\* One who may spend tokens is approved by a transaction of its own.
Transactions(p) == IF p.spender = "none" THEN 1 ELSE 2

\* The next of them is handed to a node; the last one that is accepted is the
\* deposit.  An error ends the command, and may come back although the
\* transaction got through.
Post(next, how) ==
    /\ step = "sending"
    /\ \E more \in {[tx |-> tx, count |-> sent.count + 1]} :
         \/ /\ sent' = more
            /\ IF more.count < Transactions(plan) THEN UNCHANGED <<step, told>>
               ELSE step' = next /\ told' = how
            /\ UNCHANGED <<now, plan, tx, problems>>
         \/ /\ sent' \in {sent, more}
            /\ End("failed")

Tick == /\ now < MaxTime /\ step \notin {"ended", "waiting"}
        /\ now' = now + 1
        /\ UNCHANGED <<step, plan, tx, problems, sent, told>>

-----------------------------------------------------------------------------
Sent == sent # Unsent

\* Whatever goes out is what its plan says, to the last field, at a fee below
\* the cap where the chain's fee is the wallet's to choose: the gate decodes
\* the transaction rather than trusting what built it (verify.py).
Capped == UtxoKinds \cup {"eth swap", "eth send", "erc20 send", "erc20 swap",
                          "evm vault swap"}
SentAsPlanned ==
    Sent => /\ sent.tx = Right(plan, sent.tx.fee)
            /\ plan.kind \in Capped => sent.tx.fee \in 0..MaxFee
=============================================================================
