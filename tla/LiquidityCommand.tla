-------------------------- MODULE LiquidityCommand --------------------------
(***************************************************************************)
(* The one-transaction liquidity commands: `add' from the asset side, `add  *)
(* --protocol-only', `withdraw' from whichever side the position lives on,  *)
(* and `pool-add' and `pool-withdraw' of CACAO Pool and RUNEPool.  Each     *)
(* looks the network up, so as not to send what would be refused at the     *)
(* cost of the fee, and each deposit is answered by the network as it is    *)
(* when the deposit arrives.  The clock is also the height of the chain.    *)
(***************************************************************************)
EXTENDS SwapCommand

CONSTANTS
    MaxMoves,   \* how often the network changes during a command
    Holding,    \* RUNE or CACAO in the account
    Dust,       \* the inbound's dust_threshold, by source: what triggers a
                \* withdrawal, and the least deposit that is observed
    Trigger,    \* WITHDRAW_TRIGGER_AMOUNT, of the protocol side
    Addresses,  \* the wallet's own on a UTXO chain, which have outputs to spend
    LpTTL,      \* 3600 s
    Maturity,   \* the network's constant; a mimir may override it
    MaxPolls    \* _POOL_WITHDRAW_POLLS

LiquiditySources == {"utxo", "evm", "erc20", "tron"}

ASSUME LiquidityAssumption ==
    /\ {MaxMoves, Holding, Trigger, LpTTL, Maturity, MaxPolls} \subseteq Nat
    /\ Dust \in [LiquiditySources -> Nat]
    /\ "none" \notin Addresses

VARIABLES
    world,     \* the network: its switches, and what it has on file for us
    moves,     \* changes so far that were not this command's doing
    looked,    \* moves when the command looked
    heights,   \* the height then
    side,      \* the side a withdrawal is sent from
    payer,     \* the address of the first input of an asset-side deposit
    before,    \* pool units before a pool withdrawal
    polls,     \* times the position was asked for afterwards
    outcome,   \* what became of the deposit
    heard      \* a poll was answered after that

liquidityVars == <<world, moves, looked, heights, side, payer, before, polls,
                   outcome, heard>>

Unset == MaxTime + 2   \* no mimir of that name

\* Where a deposit of that source can come from, and a position of its asset
\* side be filed: an account has one address.
Senders(source) == IF source = "utxo" THEN Addresses ELSE {"our account"}

\* An uneventful network: only one thing at a time is otherwise.  The position of
\* the asset side is known by the address it is filed under.
Plain == [tradable |-> TRUE, paused |-> FALSE, status |-> "Available",
          protocol |-> "none", asset |-> "none", enabled |-> TRUE, halt |-> 0,
          mimir |-> Unset, units |-> 0, last |-> 0]

Changed(w, source) ==
    {[w EXCEPT !.tradable = ~ @], [w EXCEPT !.paused = ~ @],
     [w EXCEPT !.status = IF @ = "Staged" THEN "Available" ELSE "Staged"],
     [w EXCEPT !.enabled = ~ @],
     [w EXCEPT !.mimir = IF @ = 0 THEN Unset ELSE 0],
     [w EXCEPT !.units = 2, !.last = now]}
    \cup {[w EXCEPT !.protocol = p] : p \in {"none", "pending", "only", "symmetric"}}
    \cup {[w EXCEPT !.asset = a] : a \in {"none"} \cup Senders(source)}
    \cup {[w EXCEPT !.halt = h] : h \in 0..MaxTime}

LiquidityCommands == {"add", "add protocol", "withdraw", "pool add", "pool withdraw"}
LiquidityLines ==
    {a \in [command : LiquidityCommands, source : LiquiditySources,
            backend : {"thorchain"}, sweep : BOOLEAN, gas : {0},
            pooled : BOOLEAN] :
        /\ a.source = "tron" => a.pooled
        /\ a.command \in {"withdraw", "pool withdraw"} => ~ a.sweep
        /\ a.command \in {"pool add", "pool withdraw"} => a.source = "tron"}

Found(source) ==
    {Plain} \cup Changed(Plain, source)
         \cup UNION {{[Plain EXCEPT !.units = 2, !.mimir = m, !.halt = h] :
                         h \in 0..MaxTime} : m \in {0, Unset}}

LiquidityInit ==
    /\ world = Plain
    /\ moves = 0 /\ looked = 0 /\ heights = 0 /\ side = "none" /\ payer = "none" /\ before = 0
    /\ polls = 0 /\ outcome = "none" /\ heard = FALSE

StartLiquidity(a) ==
    /\ step = "start" /\ a \in LiquidityLines
    /\ args' = a /\ step' = "sizing" /\ world' \in Found(a.source)
    /\ UNCHANGED <<now, plan, tx, problems, sent, told, amount, rate, backend,
                   floor, settled, moves, looked, heights, side, payer, before,
                   polls, outcome, heard>>

Move == /\ step \notin {"start", "ended"} /\ args.command \in LiquidityCommands
        /\ moves < MaxMoves /\ moves' = moves + 1
        /\ world' \in Changed(world, args.source) \ {world}
        /\ UNCHANGED <<frameVars, swapVars, looked, heights, side, payer, before,
                       polls, outcome, heard>>

-----------------------------------------------------------------------------
Reading  == looked' = moves /\ heights' = now
Answered == UNCHANGED <<side, before, polls, outcome, heard>>
Adding   == args.command = "add"

\* A chain without pools on this backend, or an amount that has to be named.
_lp_backend_refused == ~ args.pooled
NeedsAmount == \/ args.command \in {"add protocol", "pool add"}
               \/ (Adding /\ args.source = "tron")

\* Sizing.  A withdrawal and a pool withdrawal have no amount of their own.
_liquidity ==
    /\ step = "sizing" /\ args.command \in LiquidityCommands
    /\ IF _lp_backend_refused \/ (args.sweep /\ NeedsAmount) THEN Refuse
       ELSE Sizes(CASE args.source = "evm"  -> Gas(Requested(args.gas))
                    [] args.source = "utxo" -> Fee
                    [] OTHER                -> Nothing, "sized")
    /\ UNCHANGED liquidityVars

\* The gate has no destination to look for in a liquidity memo.
ForPool == Carrying(Text("pool"), now + LpTTL, Nobody)

\* Tokens are withdrawn by a deposit of the chain's coin.
dust_threshold == Dust[args.source]
TriggerPlan == IF args.source = "erc20" THEN EthPlan(ForPool, dust_threshold)
               ELSE PlanOf(ForPool, dust_threshold)
ProtocolDeposit(v) == CosmosPlan(ForPool, v)

\* The network's own switches, and the balance of the account it is paid from.
_require_tradable       == world.tradable
lp_deposit_pause_reason == world.paused
_require_protocol_balance(v) == Holding >= v

prepare_liquidity ==
    IF \/ ~ _require_tradable
       \/ Adding /\ lp_deposit_pause_reason
    THEN Abort
    ELSE PrepareFunded(IF Adding THEN PlanOf(ForPool, amount) ELSE TriggerPlan)

\* The asset side, to add, or to withdraw what the protocol side has not.  The
\* outputs that pay are any that the scan finds, the first input any of theirs.
FromAsset(sources) ==
    /\ \/ step = "sized" /\ Adding /\ Reading
       \/ step = "found" /\ side = "asset" /\ UNCHANGED <<looked, heights>>
    /\ args.source \in sources
    /\ payer' \in Senders(args.source)
    /\ UNCHANGED <<swapVars, world, moves>> /\ Answered

_liquidity_utxo == FromAsset({"utxo"}) /\ prepare_liquidity
_liquidity_tron == FromAsset({"tron"}) /\ prepare_liquidity

\* A token is added through the router, if the network names one.
_liquidity_evm ==
    /\ FromAsset({"evm", "erc20"})
    /\ \E router \in BOOLEAN :
        IF Adding /\ args.source = "erc20" /\ ~ router THEN Abort
        ELSE prepare_liquidity

prepare_protocol_only_liquidity ==
    IF \/ lp_deposit_pause_reason \/ world.protocol = "pending"
       \/ world.status # "Available" \/ ~ _require_protocol_balance(amount)
    THEN Abort ELSE Prepare(ProtocolDeposit(amount), 0)

_liquidity_protocol_only ==
    /\ step = "sized" /\ args.command = "add protocol"
    /\ Reading /\ prepare_protocol_only_liquidity
    /\ UNCHANGED <<swapVars, world, moves, payer>> /\ Answered

\* Faulty: a lookup that fails means that there is no position on that side.
GuessesAsset == \E found \in {"none", world.protocol} :
                   /\ side' = IF found = "none" THEN "asset" ELSE "protocol"
                   /\ step' = "found"
                   /\ UNCHANGED <<now, plan, tx, problems, sent, told>>

\* Which side the position lives on is asked of the network, or nothing is sent.
_protocol_side_position ==
    \/ /\ side' = IF world.protocol = "none" THEN "asset" ELSE "protocol"
       /\ step' = "found"
       /\ UNCHANGED <<now, plan, tx, problems, sent, told>>
    \/ Abort /\ UNCHANGED side

cmd_withdraw_liquidity ==
    /\ step = "sized" /\ args.command = "withdraw"
    /\ Reading /\ _protocol_side_position
    /\ UNCHANGED <<swapVars, world, moves, payer, before, polls, outcome, heard>>

_withdraw_from_protocol_side ==
    /\ step = "found" /\ side = "protocol"
    /\ Prepare(ProtocolDeposit(Trigger), 0)
    /\ UNCHANGED <<swapVars, liquidityVars>>

-----------------------------------------------------------------------------
\* CACAO Pool and RUNEPool.
Halted(w, height) == w.halt > 0 /\ height >= w.halt
MaturityOf(w) == IF w.mimir = Unset THEN Maturity ELSE w.mimir
_require_protocol_pool(w, height) == w.enabled /\ ~ Halted(w, height)

\* Faulty: withdrawn one block early.
OneBlockEarly(w, height) == w.last + MaturityOf(w) - height - 1

\* Blocks left until the last deposit has matured.
Left(w, height) == w.last + MaturityOf(w) - height

prepare_pool_deposit ==
    IF ~ _require_protocol_pool(world, now) \/ ~ _require_protocol_balance(amount)
    THEN Abort ELSE Prepare(ProtocolDeposit(amount), 0)

cmd_pool_add ==
    /\ step = "sized" /\ args.command = "pool add" /\ Reading
    /\ prepare_pool_deposit
    /\ UNCHANGED <<swapVars, world, moves, payer>> /\ Answered

prepare_pool_withdraw(known) ==
    IF \/ ~ _require_protocol_pool(world, now)
       \/ world.units = 0 \/ ~ known \/ Left(world, now) > 0
    THEN Abort ELSE Prepare(ProtocolDeposit(0), 0)

\* The maturity is in a mimir, in the constants, or unknown: then nothing goes.
cmd_pool_withdraw ==
    /\ step = "sized" /\ args.command = "pool withdraw" /\ Reading
    /\ before' = world.units
    /\ \E known \in BOOLEAN : prepare_pool_withdraw(known)
    /\ UNCHANGED <<swapVars, world, moves, side, payer, polls, outcome, heard>>

\* What the network does with a deposit it sees: one below the inbound's dust
\* threshold it never does.  A withdrawal from the asset side is of the position
\* filed under the first input's address.
Observed == ~ (Adding /\ amount < dust_threshold)
Takes(w) ==
    CASE args.command = "add" -> /\ w.tradable /\ ~ w.paused
                                 /\ w.status = "Available"
      [] args.command = "add protocol" -> /\ ~ w.paused /\ w.status = "Available"
                                          /\ w.protocol # "pending"
      [] args.command = "withdraw" -> IF side = "protocol" THEN w.protocol # "none"
                                      ELSE w.asset = payer
      [] args.command = "pool add" -> _require_protocol_pool(w, now)
      [] args.command = "pool withdraw" ->
             /\ w.enabled /\ ~ Halted(w, now)
             /\ w.units > 0 /\ w.last + MaturityOf(w) <= now

Arrive ==
    /\ step = "waiting" /\ args.command \in LiquidityCommands /\ outcome = "none"
    /\ outcome' = IF ~ Observed THEN "unobserved"
                  ELSE IF Takes(world) THEN "taken" ELSE "refused"
    /\ world' = IF args.command = "pool withdraw" /\ Takes(world)
                THEN [world EXCEPT !.units = @ - 1] ELSE world
    /\ step' = IF args.command = "pool withdraw" THEN step ELSE "ended"
    /\ UNCHANGED <<now, plan, tx, problems, sent, told, swapVars, moves, looked,
                   heights, side, payer, before, polls, heard>>

-----------------------------------------------------------------------------
Awaiting == step = "waiting" /\ args.command = "pool withdraw"

\* Faulty: no answer means no units.
SilenceIsZero(answered) == IF answered THEN world.units ELSE 0

\* The units a poll saw; a poll that failed saw what it saw before.
UnitsSeen(answered) == IF answered THEN world.units ELSE before

_await_pool_withdraw ==
    /\ Awaiting /\ polls < MaxPolls /\ polls' = polls + 1
    /\ \E answered \in BOOLEAN :
        /\ heard' = (heard \/ (answered /\ outcome = "taken"))
        /\ IF UnitsSeen(answered) < before
           THEN step' = "ended" /\ told' = "withdrawn"
           ELSE UNCHANGED <<step, told>>
    /\ UNCHANGED <<now, plan, tx, problems, sent, swapVars, world, moves, looked,
                   heights, side, payer, before, outcome>>

PollsOver ==
    /\ Awaiting /\ polls = MaxPolls
    /\ End("unchanged")
    /\ UNCHANGED <<sent, swapVars, liquidityVars>>

-----------------------------------------------------------------------------
SinceLooked == moves > looked \/ world.halt \in (heights + 1)..now

\* A deposit is lost, or refused at the cost of its fee, only because the network
\* has changed since the command looked: paused, halted, staged, paired, or locked
\* by another deposit (swap.prepare_liquidity, prepare_protocol_only_liquidity,
\* prepare_pool_deposit and prepare_pool_withdraw).  Of an add from the asset side
\* two things are not asked beforehand: whether the pool is staged, and whether
\* the amount is one the inbound observes.
TakenUnlessChanged ==
    (outcome \in {"refused", "unobserved"} /\ args.command # "withdraw") =>
        \/ SinceLooked
        \/ args.command = "add" /\ world.status = "Staged"
        \/ args.command = "add" /\ amount < dust_threshold

\* A withdrawal is sent from the side the position lives on: one that matches
\* nothing means that the position moved meanwhile, or that there was none
\* (cli.cmd_withdraw_liquidity, cli._protocol_side_position); or, on a UTXO
\* chain, that it was paid from another address than the position is filed under.
TriggerFindsPosition ==
    (outcome = "refused" /\ args.command = "withdraw") =>
        \/ SinceLooked
        \/ world.protocol = "none" /\ world.asset = "none"
        \/ world.protocol = "none" /\ args.source = "utxo" /\ world.asset # payer

\* "withdrawn" is only said when the units have dropped, and the warning that
\* the network most likely refused is not given after it took the withdrawal
\* and a poll saw that, unless another deposit hid it
\* (cli._await_pool_withdraw).
PoolReportIsTrue ==
    /\ told = "withdrawn" => world.units < before
    /\ (told = "unchanged" /\ heard) => moves > looked
=============================================================================
