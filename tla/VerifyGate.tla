----------------------------- MODULE VerifyGate -----------------------------
(***************************************************************************)
(* The verify gate (verify.py and the ERC-20 and Vault gates of             *)
(* chains/eth.py): one verifier per kind of deposit, each taking the        *)
(* transaction as it reads back and the plan it was built for, and          *)
(* returning the problems found; none means that it may be signed.          *)
(*                                                                         *)
(* A transaction is a function from the names of the fields that decide     *)
(* what it does to their values, and a plan names the same fields.  A UTXO  *)
(* transaction is its outputs and its fee.                                  *)
(***************************************************************************)
EXTENDS Integers, FiniteSets

CONSTANTS
    MaxFee,       \* --max-fee, ETH_MAX_FEE_WEI
    PayloadDust   \* P2WPKH.dust, what a vault swap's change must reach

ASSUME GateAssumption == MaxFee \in Nat /\ PayloadDust \in Nat

\* What a deposit says: nothing, a text memo naming who is paid, or the
\* binary payload of a Chainflip vault swap.
NoMemo       == [kind |-> "none"]
Text(to)     == [kind |-> "text", pays |-> to, fits |-> TRUE]
Nobody       == "nobody"   \* the destination of what is not a swap

If(problem, holds) == IF holds THEN {problem} ELSE {}
Off(tx, plan, fields) == {f \in fields : tx[f] # plan[f]}

\* Faulty: any memo will do.
AnyMemo(destination, memo) == TRUE

\* A swap's memo names the destination; liquidity has none to name.
memo_pays_destination(destination, memo) ==
    destination = Nobody \/ (memo.kind = "text" /\ memo.pays = destination)

Late(plan, now) == If("expired", now >= plan.expiry)
Unpaid(plan)    == If("destination",
                      ~ memo_pays_destination(plan.destination, plan.memo))
Dear(tx)        == If("fee", tx.fee > MaxFee)

-----------------------------------------------------------------------------
\* UTXO chains.  An output is [n, to, value, memo]; n tells equal ones apart.
Paying(tx, a)    == {o \in tx.outs : o.to = a}
Saying(tx)       == {o \in tx.outs : o.memo # NoMemo}
Others(tx, a)    == tx.outs \ (Paying(tx, a) \cup Saying(tx))

PaidWrongly(tx, plan) ==
    If("payee", Cardinality(Paying(tx, plan.to)) # 1
                \/ \E o \in Paying(tx, plan.to) : o.value # plan.value)
Foreign(tx, plan, owned) ==
    If("change", \E o \in Others(tx, plan.to) : o.to \notin owned)
FeeWrong(tx) == If("fee", tx.fee < 0 \/ tx.fee > MaxFee)

SaidWrongly(tx, plan) ==
    If("memo", Cardinality(Saying(tx)) # 1
               \/ \E o \in Saying(tx) : o.memo # plan.memo)
TooLong(tx) == If("memo length", \E o \in Saying(tx) :
                                    o.memo.kind = "text" /\ ~ o.memo.fits)

verify_btc_swap(tx, plan, owned, now) ==
    Late(plan, now) \cup PaidWrongly(tx, plan) \cup SaidWrongly(tx, plan)
    \cup TooLong(tx) \cup Foreign(tx, plan, owned) \cup Unpaid(plan)
    \cup FeeWrong(tx)

verify_btc_send(tx, plan, owned) ==
    PaidWrongly(tx, plan) \cup If("memo", Saying(tx) # {})
    \cup Foreign(tx, plan, owned) \cup FeeWrong(tx)

-----------------------------------------------------------------------------
\* Account chains.
verify_eth_swap(tx, plan, now) ==
    Late(plan, now) \cup Off(tx, plan, {"to", "value", "memo", "chain"})
    \cup Unpaid(plan) \cup Dear(tx)

verify_eth_send(tx, plan) ==
    Off(tx, plan, {"to", "value", "memo", "chain"}) \cup Dear(tx)

verify_eth_token_send(tx, plan) ==
    Off(tx, plan, {"contract", "value", "to", "tokens", "chain"})
    \cup Dear(tx)

\* Faulty: the allowance granted is not compared.
AnyAllowance(tx, plan, now) ==
    Late(plan, now)
    \cup Off(tx, plan, {"contract", "router", "value", "chain", "spender",
                        "to", "tokens", "memo", "expiry"})
    \cup Unpaid(plan) \cup Dear(tx)

\* The approve and the router deposit, read back from their calldata.
verify_eth_token_swap(tx, plan, now) ==
    Late(plan, now)
    \cup Off(tx, plan, {"contract", "router", "value", "chain", "spender",
                        "allowance", "to", "tokens", "memo", "expiry"})
    \cup Unpaid(plan) \cup Dear(tx)

verify_tron_swap(tx, plan, now) ==
    Late(plan, now) \cup Off(tx, plan, {"type", "to", "value", "memo"})
    \cup Unpaid(plan)

verify_tron_token_swap(tx, plan, now) ==
    Late(plan, now)
    \cup Off(tx, plan, {"type", "contract", "to", "tokens", "value", "memo"})
    \cup Unpaid(plan)

verify_tron_send(tx, plan) == Off(tx, plan, {"type", "to", "value", "memo"})

verify_tron_token_send(tx, plan) ==
    Off(tx, plan, {"type", "contract", "to", "tokens", "value", "memo"})

verify_cosmos_send(tx, plan) ==
    Off(tx, plan, {"type", "from", "to", "denom", "value", "memo"})

verify_cosmos_deposit(tx, plan, now) ==
    Late(plan, now) \cup Off(tx, plan, {"type", "denom", "value", "memo", "from"})
    \cup Unpaid(plan)

-----------------------------------------------------------------------------
\* Chainflip: the payload and the call carry the destination, so there is no
\* memo to name it; they are decoded, and what they say is compared with the
\* request.  A layout the decoders do not know is a problem of its own.
decode_vault_swap_payload(payload) == If("layout", ~ payload.readable)
decode_evm_vault_call(payload)     == If("layout", ~ payload.readable)

PayloadWrong(payload, plan) ==
    decode_vault_swap_payload(payload)
    \cup Off(payload, plan, {"asset", "pays"})
    \cup If("floor", payload.floor < plan.floor)
    \cup If("skim", payload.skim)
    \cup If("extras", payload.extras)

_verify_vault_parameters(payload, plan) ==
    Off(payload, plan, {"refund", "retry"})
    \cup If("floor", payload.floor < plan.floor)
    \cup If("skim", payload.skim)
    \cup If("extras", payload.extras)

\* The approve before a token's call; a native call has none, so nothing is
\* allowed to anyone.
_verify_vault_approve(tx, plan) ==
    Off(tx, plan, {"spender", "allowance"})

\* Faulty: a transaction without change is accepted.
NoChangeNeeded(tx, plan) ==
    If("refund", \E o \in Others(tx, plan.to) : o.value < PayloadDust)

\* A vault swap is refunded to its change, which has to exist and be spendable.
Unrefundable(tx, plan) ==
    If("refund", Others(tx, plan.to) = {}
                 \/ \E o \in Others(tx, plan.to) : o.value < PayloadDust)

verify_chainflip_vault_swap(tx, plan, owned, now) ==
    verify_btc_swap(tx, plan, owned, now)
    \cup If("vault", plan.to \notin plan.known)
    \cup Unrefundable(tx, plan)
    \cup PayloadWrong(plan.memo, plan)

\* Native sources move the value of the transaction, tokens the call's amount
\* behind an exact approve; never both.
verify_chainflip_evm_vault_swap(tx, plan, owned, now) ==
    Late(plan, now)
    \cup If("vault", plan.to \notin plan.known)
    \cup Off(tx, plan, {"to", "value", "chain", "memo", "contract", "tokens"})
    \cup If("refund", plan.refund \notin owned)
    \cup _verify_vault_approve(tx, plan)
    \cup decode_evm_vault_call(plan.memo)
    \cup Off(plan.memo, plan, {"asset", "pays", "contract", "tokens"})
    \cup _verify_vault_parameters(plan.memo, plan)
    \cup Dear(tx)
=============================================================================
