------------------------------- MODULE FeeBump ------------------------------
(***************************************************************************)
(* `swapsack bump`: a stuck BTC transaction is replaced by one with the     *)
(* same inputs, payee, amount and memo, whose change output pays a higher   *)
(* fee (cli.cmd_bump, chains/rbf, UtxoTxBuilder.build_and_verify_           *)
(* replacement).  The command reads the transaction, plans, prices its      *)
(* unconfirmed parent, plans again, passes the gate and waits for the user; *)
(* meanwhile the mempool moves.                                             *)
(*                                                                         *)
(* Rates are counted in units of 1/Den sat per virtual byte: what a user    *)
(* can type.                                                                *)
(***************************************************************************)
EXTENDS Integers, FiniteSets, Functions

CONSTANTS
    Shapes,      \* the transactions a user may ask to bump (see ShapeOK)
    Rates,       \* the rates asked for, in units
    Den,         \* units per sat/vB
    Overshoot,   \* sizes and rates whose product a float makes too large
    Sizes,       \* the sizes a signed replacement may come out at
    Estimate,    \* estimate_vsize: signatures at their longest
    ParentSize, ParentFees,
    ChildFee,    \* what a child spending the change pays
    Relay,       \* BIP125's increment, in sats per vB
    Dust,
    MaxFee,      \* --max-fee
    MaxBumps     \* the number of replacements and refusals explored

\* A shape says what plan_replacement looks at besides the amounts: whether
\* the transaction signals RBF, whether the inputs are all ours, which outputs
\* are, on which branch, and what became of its memo.  The change of a
\* transaction this wallet built goes to the first address of that branch.
Outputs == {"change", "payee", "other"}
ShapeOK(s) ==
    /\ s.signals \in BOOLEAN /\ s.ourInputs \in BOOLEAN
    /\ s.owned \subseteq DOMAIN s.val /\ s.internal \subseteq s.owned
    /\ "change" \in DOMAIN s.val => "change" \in s.internal
    /\ s.memo \in {"none", "text", "unreadable", "two"}
    /\ s.fee \in Nat /\ s.size \in Sizes
    /\ DOMAIN s.val \subseteq Outputs /\ s.val \in [DOMAIN s.val -> Nat]

\* A float product can land just above the whole number it should be, and is then
\* rounded up to the next one: 150 vB at 2.22 sat/vB come to 334 sats.
ASSUME BumpAssumption ==
    /\ \A s \in Shapes : ShapeOK(s)
    /\ Rates \subseteq Nat \ {0}
    /\ \A p \in Overshoot : p[1] \in Nat /\ p[2] \in Nat /\ (p[1] * p[2]) % Den = 0
    /\ Den \in Nat \ {0} /\ Relay \in Nat \ {0} /\ Dust \in Nat \ {0}
    /\ Sizes \subseteq Nat \ {0} /\ Estimate \in Nat /\ \A s \in Sizes : s <= Estimate
    /\ ParentSize \in Nat \ {0} /\ ParentFees \subseteq Nat
    /\ ChildFee \in Nat /\ MaxFee \in Nat /\ MaxBumps \in Nat

VARIABLES
    shape,      \* what the user asks to bump, as it was first broadcast
    pool,       \* the member of its family in the mempool, or NoTx
    mined,      \* the member that was mined, or NoTx
    parent,     \* the transaction that created its input: [at, fee]
    child,      \* a transaction of the user spends its change
    step,       \* where the command is
    tx,         \* what fetch_tx returned
    asked,      \* the rate of this run
    extra,      \* the surcharge for the parent
    plan,       \* the planned replacement
    suggested,  \* the rate the last refusal suggested, if it suggested one
    followed,   \* (history) whose rate this run uses, see Fetch
    overtaken,  \* (history) the mempool moved since fetch_tx
    bumps       \* (history) runs started

bumpVars == <<shape, pool, mined, parent, child, step, tx, asked, extra, plan,
              suggested, followed, overtaken, bumps>>
ledger   == <<pool, mined, parent, child>>

NoTx == [fee |-> 0, size |-> 0, val |-> <<>>, memo |-> "none"]

CeilDiv(a, b) == (a + b - 1) \div b
Larger(a, b)  == IF a >= b THEN a ELSE b

\* math.ceil(vsize * fee_rate)
CeilProduct(size, r) ==
    CeilDiv(size * r, Den) + IF <<size, r>> \in Overshoot THEN 1 ELSE 0

Original(s) == [fee |-> s.fee, size |-> s.size, val |-> s.val, memo |-> s.memo]
Paid(t)     == t.fee + SumFunction(t.val)  \* what its inputs are worth

BumpInit ==
    /\ shape \in Shapes
    /\ pool = Original(shape) /\ mined = NoTx
    /\ parent \in [at : {"pool", "mined"}, fee : ParentFees]
    /\ child = FALSE
    /\ step = "idle" /\ tx = NoTx /\ asked = 0 /\ extra = 0 /\ plan = NoTx
    /\ suggested = {} /\ followed = "own" /\ overtaken = FALSE /\ bumps = 0

-----------------------------------------------------------------------------
\* The user runs the command with a rate: their own, or the one the last refusal
\* suggested, while nothing moved since; that refusal came before the parent was
\* priced ("blind") or after ("informed").  The parser refuses a rate of 0, and a
\* transaction the chain has never seen, or a mined one, ends the command.
Fetch(r) ==
    /\ step \in {"idle", "refused", "short", "rejected", "posted"}
    /\ bumps < MaxBumps
    /\ bumps' = bumps + 1
    /\ asked' = r
    /\ followed' = IF r \notin suggested THEN "own"
                   ELSE IF extra > 0 THEN "informed" ELSE "blind"
    /\ overtaken' = FALSE
    /\ extra' = 0 /\ plan' = NoTx /\ suggested' = {}
    /\ IF r = 0 \/ pool = NoTx
       THEN step' = "refused" /\ tx' = NoTx
       ELSE step' = "fetched" /\ tx' = pool
    /\ UNCHANGED <<shape, ledger>>

\* Faulty: several outputs pay us and the first of them is taken.
FirstOfOurs == IF "payee" \in shape.owned THEN {"payee"} ELSE shape.owned

\* _change_index: our one output, or the one of ours on the change branch.
Change ==
    IF Cardinality(shape.owned) = 1 THEN shape.owned ELSE shape.internal

\* The refusals that no rate can cure.
Irreplaceable ==
    \/ ~ shape.signals
    \/ ~ shape.ourInputs
    \/ Cardinality(Change) # 1
    \/ shape.memo \in {"unreadable", "two"}
    \/ Cardinality(DOMAIN tx.val \ Change) # 1

\* Faulty floor: the relay fee is worked out from the original's size.
FloorOfOriginal(t) == t.fee + Relay * t.size

\* BIP125's floor, from an upper bound on the replacement's size.
Floor(t) == t.fee + Relay * Larger(t.size, Estimate)

\* replacement_fee
FeeAt(t, r, x) == Larger(CeilProduct(t.size, r) + x, Floor(t))

\* The change, and the largest fee it can pay.
ChangeOf(t) == t.val[CHOOSE o \in Change : TRUE]
Ceiling(t)  == t.fee + ChangeOf(t) - Dust

\* Faulty: the surcharge is forgotten when the best rate is worked out.
BestWithout(t, x) == IF Floor(t) > Ceiling(t) THEN {}
                     ELSE {(Ceiling(t) * Den) \div t.size}

\* _too_little_change: the best rate that fits, rounded down, if need be to 0;
\* none when the surcharge or the relay floor alone exceeds what the change can
\* pay.
BestRate(t, x) ==
    IF x > Ceiling(t) \/ Floor(t) > Ceiling(t) THEN {}
    ELSE {((Ceiling(t) - x) * Den) \div t.size}

\* The original's outputs, the change reduced by what the fee grows.
Rebuilt(t, r, x) ==
    [t EXCEPT !.fee = FeeAt(t, r, x),
              !.val = [o \in DOMAIN t.val |->
                         IF o \in Change THEN t.val[o] - (FeeAt(t, r, x) - t.fee)
                         ELSE t.val[o]]]

\* The change left covers the bump and stays above dust.
Affordable(t, r, x) == ChangeOf(t) - (FeeAt(t, r, x) - t.fee) >= Dust

\* plan_replacement, before and after the surcharge is known.
Plan(from, to) ==
    /\ step = from
    /\ \/ /\ Irreplaceable
          /\ step' = "refused"
          /\ UNCHANGED <<plan, suggested>>
       \/ /\ ~ Irreplaceable /\ ~ Affordable(tx, asked, extra)
          /\ step' = "short"
          /\ suggested' = BestRate(tx, extra)
          /\ UNCHANGED plan
       \/ /\ ~ Irreplaceable /\ Affordable(tx, asked, extra)
          /\ step' = to
          /\ plan' = Rebuilt(tx, asked, extra)
          /\ UNCHANGED suggested
    /\ UNCHANGED <<shape, ledger, tx, asked, extra, followed, overtaken, bumps>>

PlanFirst == Plan("fetched", "planned")

\* cpfp_deficit: what lifting the parent to the rate costs.
Deficit(r) == Larger(0, CeilProduct(ParentSize, r) - parent.fee)

\* _bump_cpfp_surcharge: the inputs are priced like a fresh spend's; a parent
\* the explorer does not return refuses the bump.
Price ==
    /\ step = "planned"
    /\ \/ /\ extra' = IF parent.at = "mined" THEN 0 ELSE Deficit(asked)
          /\ step' = IF extra' = 0 THEN "prompt" ELSE "priced"
       \/ /\ parent.at = "pool"
          /\ extra' = 0 /\ step' = "refused"
    /\ UNCHANGED <<shape, ledger, tx, asked, plan, suggested, followed,
                   overtaken, bumps>>

PlanAgain == Plan("priced", "prompt")

\* The gate: the fee is within --max-fee and is what inputs less outputs leave.
GatePasses ==
    /\ plan.fee <= MaxFee
    /\ Paid(Original(shape)) = Paid(plan)

\* The gate refuses, or the user does.
Stop ==
    /\ step = "prompt"
    /\ step' = "refused"
    /\ UNCHANGED <<shape, ledger, tx, asked, extra, plan, suggested, followed,
                   overtaken, bumps>>

\* What a node asks of a replacement of this family, in absolute fees: more
\* than everything it evicts, by its own size's worth of relay fee.
Evicted == pool.fee + IF child THEN ChildFee ELSE 0
Admitted(t) ==
    /\ mined = NoTx
    /\ pool # NoTx => t.fee >= Evicted + Relay * t.size

\* Signed, at one of the sizes its signatures may give it, and broadcast.
Post ==
    /\ step = "prompt" /\ GatePasses
    /\ \E z \in Sizes :
          LET t == [plan EXCEPT !.size = z]
          IN  /\ plan' = t
              /\ IF Admitted(t)
                 THEN pool' = t /\ child' = FALSE /\ step' = "posted"
                 ELSE step' = "rejected" /\ UNCHANGED <<pool, child>>
    /\ UNCHANGED <<shape, mined, parent, tx, asked, extra, suggested, followed,
                   overtaken, bumps>>

BumpStep ==
    \/ \E r \in Rates \cup suggested : Fetch(r)
    \/ PlanFirst \/ Price \/ PlanAgain \/ Stop \/ Post

-----------------------------------------------------------------------------
\* The mempool: the parent or the transaction is mined, the transaction drops
\* out, or the user spends its change meanwhile.
MineParent ==
    /\ parent.at = "pool"
    /\ parent' = [parent EXCEPT !.at = "mined"]
    /\ UNCHANGED <<pool, mined, child>>

MineIt ==
    /\ pool # NoTx /\ parent.at = "mined"
    /\ mined' = pool /\ pool' = NoTx /\ child' = FALSE
    /\ UNCHANGED parent

DropIt ==
    /\ pool # NoTx
    /\ pool' = NoTx /\ child' = FALSE
    /\ UNCHANGED <<mined, parent>>

SpendChange ==
    /\ pool # NoTx /\ "change" \in DOMAIN pool.val /\ ~ child
    /\ child' = TRUE
    /\ UNCHANGED <<pool, mined, parent>>

Moves ==
    /\ MineParent \/ MineIt \/ DropIt \/ SpendChange
    /\ overtaken' = TRUE
    /\ followed' = "own" /\ suggested' = {}
    /\ UNCHANGED <<shape, step, tx, asked, extra, plan, bumps>>

BumpNext == BumpStep \/ Moves

-----------------------------------------------------------------------------
\* Every replacement that reaches the mempool, however many bumps follow each
\* other, still pays what the first transaction paid, to the same outputs and
\* with the same memo: each satoshi of the higher fee left the wallet's own
\* change, which stays above dust (plan_replacement, and the reconciliation in
\* build_and_verify_replacement).
OnlyTheChangePays ==
    \A t \in {pool, mined} \ {NoTx, Original(shape)} :
        /\ DOMAIN t.val = DOMAIN shape.val /\ t.memo = shape.memo
        /\ \A o \in DOMAIN t.val \ {"change"} : t.val[o] = shape.val[o]
        /\ Paid(t) = Paid(Original(shape))
        /\ t.fee > shape.fee /\ t.val["change"] >= Dust

\* A node refuses a bump only because something overtook it since the
\* transaction was read, or because the user has spent its change: the planned
\* fee is enough for whatever size the signatures give it (replacement_fee).
RefusedOnlyIfOvertaken == step = "rejected" => overtaken \/ child

\* What holds of "re-running with it plans instead of refusing again", as the
\* docstring of _too_little_change has it of the rate that a refusal suggests.  A
\* run with it, nothing having moved, is refused for want of change again only for
\* the parent's surcharge, if it was suggested before the parent was priced
\* (cmd_bump plans first), or because its float product overshot.  One that was
\* suggested after allows for the surcharge: a lower rate leaves no larger a
\* deficit.
InformedRatePlans ==
    step = "short" /\ followed # "own" =>
        \/ <<tx.size, asked>> \in Overshoot
        \/ followed = "blind" /\ extra > 0
=============================================================================
