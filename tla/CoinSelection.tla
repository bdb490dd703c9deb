---------------------------- MODULE CoinSelection ---------------------------
(***************************************************************************)
(* How a UTXO spend is funded: cli._spendable_utxos collects the wallet's   *)
(* outputs, BtcAdapter.cpfp_deficits prices the mempool transactions that   *)
(* created the unconfirmed ones, and coins._select takes inputs one at a    *)
(* time until the amount, the fee and (if worth keeping) the change are     *)
(* covered; a sweep (coins.sweep_amount) spends everything instead.         *)
(*                                                                         *)
(* Two fee models share the one greedy loop: virtual bytes at a rate (BTC,  *)
(* DASH) and ZIP-317 logical actions (ZEC).                                 *)
(***************************************************************************)
EXTENDS Integers, FiniteSets, FiniteSetsExt

CONSTANTS
    Coins,       \* the wallet's outputs
    Txs,         \* the transactions that created them
    TxOf,        \* [Coins -> Txs]
    Values,      \* what an output may be worth
    ParentFee,   \* [Txs -> Nat]: what a mempool parent pays
    ParentSize,  \* the size of a parent, in virtual bytes
    Sends,       \* the amounts a user may ask for
    Dust,        \* an output below this is not worth keeping
    Overhead, InputSize, OutputSize,  \* virtual bytes
    MemoSize,    \* virtual bytes of this spend's OP_RETURN output
    MaxMemoSize, \* ... and of the largest one, which a sweep assumes
    RateNum, RateDen,  \* the fee rate, as a fraction
    Models,      \* the fee models: "vbytes" or, by logical actions, "zip317"
    Marginal, Grace, MemoActions  \* ZIP-317's parameters

ASSUME CoinAssumption ==
    /\ IsFiniteSet(Coins)
    /\ TxOf \in [Coins -> Txs]
    /\ Values \subseteq Nat
    /\ ParentFee \in [Txs -> Nat]
    /\ ParentSize \in Nat
    /\ Sends \subseteq Nat \ {0}
    /\ Dust \in Nat \ {0}
    /\ Overhead \in Nat /\ InputSize \in Nat /\ OutputSize \in Nat
    /\ MemoSize \in Nat /\ MaxMemoSize \in Nat /\ MemoSize <= MaxMemoSize
    /\ RateNum \in Nat /\ RateDen \in Nat \ {0}
    /\ Models \subseteq {"vbytes", "zip317"}
    /\ Marginal \in Nat /\ Grace \in Nat /\ MemoActions \in Nat

VARIABLES
    model,    \* the fee model of the wallet's chain
    value,    \* what each output is worth
    mempool,  \* the creating transactions that are not mined (at the scan)
    allow,    \* --allow-unconfirmed
    send,     \* the amount to pay; a sweep works it out
    sweep,    \* the amount is "max"
    stage,    \* where the command is
    deficit,  \* what lifting each parent to the rate costs
    rest,     \* the candidate inputs not taken yet
    chosen,   \* the inputs taken
    total,    \* their value
    owed,     \* their parents' deficits, each parent once
    fee, change

intent == <<model, value, mempool, allow, sweep>>
vars   == <<intent, send, stage, deficit, rest, chosen, total, owed, fee, change>>

Stages == {"scan", "price", "choosing", "sweeping",
           "selected", "insufficient", "aborted", "nothing"}

TypeOK ==
    /\ model \in Models
    /\ value \in [Coins -> Nat]
    /\ mempool \subseteq Txs
    /\ allow \in BOOLEAN /\ sweep \in BOOLEAN
    /\ send \in Nat
    /\ stage \in Stages
    /\ deficit \in [Txs -> Nat]
    /\ rest \subseteq Coins /\ chosen \subseteq Coins
    /\ total \in Nat /\ owed \in Nat
    /\ fee \in Nat /\ change \in Nat

-----------------------------------------------------------------------------
\* Division rounding up, and the larger of two numbers.
CeilDiv(a, b) == (a + b - 1) \div b
Larger(a, b)  == IF a >= b THEN a ELSE b

\* estimate_vsize and zip317_fee: n inputs, k plain outputs, and the memo's.
VSize(n, k, memo) == Overhead + n * InputSize + k * OutputSize + memo
ActionFee(n, k)   == Marginal * Larger(Grace, Larger(n, k + MemoActions))
BaseFee(n, k, memo) ==
    IF model = "zip317" THEN ActionFee(n, k)
    ELSE CeilDiv(VSize(n, k, memo) * RateNum, RateDen)

\* A faulty cpfp_deficit that the properties reject: a well-fee'd parent
\* refunds the child.
RefundsTheChild(t) == CeilDiv(ParentSize * RateNum, RateDen) - ParentFee[t]

\* cpfp_deficit: a parent that already pays the rate needs no help.
Deficit(t) == Larger(0, CeilDiv(ParentSize * RateNum, RateDen) - ParentFee[t])

\* The unconfirmed candidates' parents.
Parents(S) == {TxOf[c] : c \in S} \cap mempool

\* A faulty surcharge: no input pays for its parent.
ChargedNever(c) == 0

\* cpfp_surcharge: what taking c adds; a parent is counted once.
Surcharge(c) == IF TxOf[c] \in Parents(chosen) THEN 0 ELSE deficit[TxOf[c]]

\* What n outputs cost with the inputs taken so far.
FeeFor(S, surcharge, k) == BaseFee(Cardinality(S), k, MemoSize) + surcharge

\* Faulty order: the largest coin first, confirmed or not.
LargestFirst(c) == \A d \in rest : value[c] >= value[d]

\* sorted by (confirmed, value), reversed: confirmed first, then the largest.
ComesFirst(c) ==
    \A d \in rest :
        IF TxOf[c] \in mempool
        THEN TxOf[d] \in mempool /\ value[c] >= value[d]
        ELSE TxOf[d] \in mempool \/ value[c] >= value[d]

Init ==
    /\ model \in Models
    /\ value \in [Coins -> Values]
    /\ mempool \in SUBSET Txs
    /\ allow \in IF model = "zip317" THEN {FALSE} ELSE BOOLEAN
    /\ \/ send \in Sends /\ sweep = FALSE
       \/ send = 0 /\ sweep = TRUE
    /\ stage = "scan"
    /\ deficit = [t \in Txs |-> 0]
    /\ rest = {} /\ chosen = {}
    /\ total = 0 /\ owed = 0 /\ fee = 0 /\ change = 0

-----------------------------------------------------------------------------
\* The wallet's outputs: confirmed only, unless the user opted in.
Scan ==
    /\ stage = "scan"
    /\ rest' = {c \in Coins : allow \/ TxOf[c] \notin mempool}
    /\ stage' = IF rest' = {} THEN "nothing" ELSE "price"
    /\ UNCHANGED <<intent, send, deficit, chosen, total, owed, fee, change>>

\* One look-up per mempool parent.  A parent mined meanwhile owes nothing; one
\* the chain has never seen ends the command.
Price ==
    /\ stage = "price"
    /\ \/ /\ \E mined \in SUBSET Parents(rest) :
                 deficit' = [t \in Txs |-> IF t \in Parents(rest) \ mined
                                           THEN Deficit(t) ELSE 0]
          /\ stage' = IF sweep THEN "sweeping" ELSE "choosing"
       \/ /\ Parents(rest) # {}
          /\ stage' = "aborted"
          /\ UNCHANGED deficit
    /\ UNCHANGED <<intent, send, rest, chosen, total, owed, fee, change>>

Select(f, left) ==
    /\ stage' = "selected"
    /\ fee' = f
    /\ change' = left

\* Faulty variants of the tail of the loop: the change-less shape tried first;
\* the dropped change not folded into the fee.
ChangelessFirst(S, sum, surcharge) ==
    IF sum >= send + FeeFor(S, surcharge, 1)
    THEN Select(sum - send, 0)
    ELSE UNCHANGED <<stage, fee, change>>
DustLost(S, sum, surcharge) ==
    LET left == sum - send - FeeFor(S, surcharge, 2) IN
    IF left >= Dust THEN Select(FeeFor(S, surcharge, 2), left)
    ELSE IF sum >= send + FeeFor(S, surcharge, 1)
    THEN Select(FeeFor(S, surcharge, 1), 0)
    ELSE UNCHANGED <<stage, fee, change>>

\* Is it enough: with change worth keeping, else without change (any remainder
\* is fee), else go on.
Settle(S, sum, surcharge) ==
    LET left == sum - send - FeeFor(S, surcharge, 2) IN
    IF left >= Dust THEN Select(FeeFor(S, surcharge, 2), left)
    ELSE IF sum >= send + FeeFor(S, surcharge, 1)
    THEN Select(sum - send, 0)
    ELSE UNCHANGED <<stage, fee, change>>

\* One turn of coins._select's loop, or of a sweep's sum over every input.
Take(c) ==
    /\ stage \in {"choosing", "sweeping"}
    /\ c \in rest
    /\ ComesFirst(c)
    /\ rest' = rest \ {c}
    /\ chosen' = chosen \cup {c}
    /\ total' = total + value[c]
    /\ owed' = owed + Surcharge(c)
    /\ IF sweep THEN UNCHANGED <<stage, fee, change>>
                ELSE Settle(chosen', total', owed')
    /\ UNCHANGED <<intent, send, deficit>>

\* The loop ran out of inputs: InsufficientFunds.
RunOut ==
    /\ stage = "choosing"
    /\ rest = {}
    /\ stage' = "insufficient"
    /\ UNCHANGED <<intent, send, deficit, rest, chosen, total, owed, fee, change>>

\* A sweep: one output, the fee for the largest memo; the fee that is paid is
\* what is left over the output.
Sweep ==
    LET amount == total - BaseFee(Cardinality(chosen), 1, MaxMemoSize) - owed
    IN  /\ stage = "sweeping"
        /\ rest = {}
        /\ IF amount < Dust
           THEN /\ stage' = "insufficient"
                /\ UNCHANGED <<send, fee, change>>
           ELSE /\ send' = amount
                /\ Select(total - amount, 0)
        /\ UNCHANGED <<intent, deficit, rest, chosen, total, owed>>

Next == Scan \/ Price \/ (\E c \in Coins : Take(c)) \/ RunOut \/ Sweep

Spec == Init /\ [][Next]_vars

-----------------------------------------------------------------------------
Spent(S)  == MapThenSumSet(LAMBDA c : value[c], S)

\* What leaves the wallet is what the user was shown: the inputs' value is the
\* amount, the fee and the change, to the last unit.
NothingLost == stage = "selected" => total = send + fee + change

\* The fee is never below what the transaction's own shape costs, and never
\* above it by more than a change output that was not worth keeping: exact with
\* change, and without it short of the price of a change output plus dust.
FeeBounded ==
    stage = "selected" /\ ~sweep =>
        IF change > 0
        THEN change >= Dust /\ fee = FeeFor(chosen, owed, 2)
        ELSE /\ fee >= FeeFor(chosen, owed, 1)
             /\ fee < FeeFor(chosen, owed, 2) + Dust

\* Can S, all of it mined, pay for the spend by itself?
Affords(S) == Spent(S) >= send + BaseFee(Cardinality(S), 1, MemoSize)
Mined      == {c \in Coins : TxOf[c] \notin mempool}

\* An unconfirmed output is only ever spent when the confirmed ones cannot pay,
\* in whatever combination; and the greedy loop never refuses a spend that some
\* combination of them could pay for (so --allow-unconfirmed never turns a
\* spend that works into one that does not).
RiskOnlyWhenNeeded ==
    LET risky == stage = "selected" /\ Parents(chosen) # {}
    IN  ~sweep /\ (stage = "insufficient" \/ risky)
            => \A S \in SUBSET Mined : ~Affords(S)

\* The package of the spend and the mempool parents that were short of the rate
\* reaches the rate, so a miner who wants the spend takes the parents too.
PackageReachesRate ==
    LET short == {t \in Parents(chosen) : deficit[t] > 0}
        paid  == fee + MapThenSumSet(LAMBDA t : ParentFee[t], short)
        size  == VSize(Cardinality(chosen), IF change > 0 THEN 2 ELSE 1, MemoSize)
                     + Cardinality(short) * ParentSize
    IN  stage = "selected" /\ model = "vbytes" => paid * RateDen >= size * RateNum
=============================================================================
