# swapsack in TLA+

`swapsack` is a command-line hot wallet that holds, sends and swaps coins of a
dozen chains, and provides liquidity, through THORChain, Maya Protocol,
Chainflip and CoW Protocol. There is no daemon: one command is one process
that reads remote state, builds transactions, checks them with a verify gate,
prompts, and broadcasts. What makes it hard is everything around that process:
answers that never come, clocks and quotes that run out during a prompt, a
second run of the same command, a second terminal, mempools that replace and
drop, a list of transactions that moves while it is being read.

These modules model that. Source paths are relative to `src/src/swapsack/`;
`PROJECT.json` maps every definition to the lines it stands for.

## Inventory

| Part | Code | State it keeps | Operations | Hard behaviour | What makes it correct |
|---|---|---|---|---|---|
| EVM swap run | `cli.py` `_swap_from_evm`, `_confirm_and_execute`; `swap.py` `prepare_swap`, `execute_swap`; `chains/eth.py` | nonce, quote and its expiry, signed transactions; on chain: nonce, allowance | prepare, gate, prompt, expiry check, one POST per transaction | unanswered POST, refusal after the approve, another terminal, Ctrl-C, running again | an intent is paid once; the report is true; a deposit finds its allowance unless an unpaid approval kept it from being set; no nonce gap |
| Symmetric add | `cli.py` `_liquidity_symmetric`, `_confirm_and_execute_symmetric`; `swap.py` `prepare_`/`execute_symmetric_liquidity` | two built legs, expiry; on chain: account sequence, pending legs of the protocol | prepare both, gate both, prompt, protocol leg, asset leg | two POSTs on two chains, no atomicity, refund window, re-run | protocol leg first; legs of one run pair; half-adds are told |
| CoW swap | `cow.py`; `cli.py` `_swap_via_cow`; `chains/eth.py` approvals | allowance, order with `validTo`, receipt | reset/approve, wait for receipt, submit | wait times out while approval is pending, shared allowance, late reset | orders out are funded; advised re-run needs no approval |
| Coin selection | `chains/coins.py`, `chains/btc.py` `cpfp_deficits` | outputs, targets, rate | select (two fee rules), sweep, CPFP surcharge | rounding and dust boundaries, shared unconfirmed parents | nothing lost; fee bounded; confirmed outputs first; package rate |
| HTTP client | `net.py` | a pin shared by scan threads | GET over endpoints in laps, backoff | races on the pin, throttled and dead hosts | a healthy host is found; bounded; evenly asked |
| History and outputs | `chains/history.py`, `chains/btc.py`, `chains/dash.py` | pages read so far, cursor, first total | page walk per address, assembly | the list moves, the host fails or repeats itself, the cap | complete or marked truncated; no spent output vouched for |
| Keystore | `keystore.py`, `cli.py` `cmd_init`, `cmd_add_*` | the encrypted file, a copy of it per run | init, load, add, save | two processes, crash in a save, v1 to v2 | no entry lost but in a race; old or new file, never half |
| Address scan | `chains/scan.py` | used addresses per branch | probe windows up to a gap | addresses used mid-scan, second read | every address within the gap is found |
| UTXO spends | `cli.py` `_spendable_utxos`, `cmd_send`, `cmd_swap` | outputs read, inputs chosen | scan, second read, select, broadcast | outputs arrive and leave between two reads | money that was there is offered |
| Bumps | `chains/rbf.py`, `cli.py` `cmd_bump` | original, replacement plan | plan, price the parent, plan again, gate, broadcast | original mined, children evicted | replacement admitted; recipients unchanged; a suggested rate plans |
| Backend choice | `backends.py`, `thorchain.py`, `cli.py` `_select_backend` | ranked quotes | size, quote all, refuse, choose, quote again | stale choice, halts, gas kept back before the backend is known | what is sent pays the destination and can be paid for |
| Positions, CACAO Pool, RUNEPool | `liquidity.py`, `swap.py`, `cli.py` | position and switches as reported | add, withdraw, await | switches that change, maturity, wrong side, polls that fail | refused or lost only if the network changed, with two exceptions; withdrawn where the position lives; the report is true |
| Chainflip | `chainflip.py` | encoding of a vault swap, floor | quote, encode, check, deposit, settle, status | a broker that encodes something else, two flat fees and three roundings | no less than the floor, or a refund to the wallet |
| Verify gate | `verify.py` | none | compare transaction and plan | fields not compared | nothing unplanned is signed |
| Other chains | `chains/cosmos*.py`, `tron.py`, `cardano*.py`, `zcash*.py`, `avax.py`, `bsc.py`, `gated.py`, `utxo.py` | as their chain | build, sign, broadcast | sequence, own expirations | as the EVM or UTXO run |
| Formats | `addresses.py`, `bech32.py`, `chains/p2pkh.py` | none | encode, decode | | (not modelled) |
| Prices, report | `pricefeed.py`, `report.py` | none | fetch, render | | (not modelled) |

The parts call one another within one process: `cli` asks the backends for a
quote through `net`, an adapter scans addresses (threads, `net`), lists
outputs, selects coins or reads nonce and allowance, `swap` builds and gates,
`cli` prompts and executes. They share the pin of a client between threads,
the account's nonce, allowance and outputs between processes, and the keystore
file between processes.

## Modules

| Module | What it is |
|---|---|
| `EvmSwapRun` | the run of an EVM memo-deposit swap, its terminals, the mempool and the chain |
| `EvmSwapRun_proofs` | an intent is paid once, reports are honest, no nonce gap, deposits are covered |
| `TwoLegAdd` | abstract: what a symmetric add promises |
| `SymmetricAdd` | the symmetric add with its two networks and the protocol |
| `SymmetricAdd_proofs` | it implements `TwoLegAdd`, its reports are true, its legs go out in order and pair |
| `CoinSelection` | the greedy selection, both fee rules, sweeps, the CPFP surcharge |
| `CoinSelection_proofs` | types, conservation, the bounds of the fee, the package rate, confirmed outputs first |
| `SetSums` | lemmas: what `MapThenSumSet` gives for a set that grows, shrinks or is exchanged |
| `CowSwap` | the CoW swap with its approval, its re-runs and the solvers |
| `HttpFailover` | the failover client, its shared pin, laps and backoff |
| `TxHistory` | the page walks and the inference of spends |
| `Services_proofs` | of `CowSwap`, that orders are funded and no approval is sent twice; of `HttpFailover`, its four safety properties; of `TxHistory`, that listings are complete and unspent outputs unspent |
| `Keystore` | the key file under overlapping commands, failures, kills and power losses |
| `Keystore_proofs` | the file is whole, nothing is lost but in a race, passphrases are kept |
| `AddressScan` | the gap-limit scan of an account, window by window and worker by worker |
| `UtxoSpend` (extends it) | a spend: scan, second read, selection, prompt, broadcast, on a moving chain |
| `FeeBump` | `bump`: both plans, the parent's surcharge, the gate, the node's rules |
| `UtxoCommands` | the two side by side, as the commands of a UTXO chain |
| `UtxoCommands_proofs` | what a scan finds and a spend is offered, and that bumps are admitted, paid for, and plan at an informed suggestion |
| `VerifyGate` | the verifiers of deposits and sends, field by field |
| `DepositCommand` (extends it) | what every deposit shares: build, gate, prompt, expiry check, one POST per transaction |
| `SwapCommand` (extends it) | `swap` and `send`: sizing, backend choice, second quote, vault swaps |
| `LiquidityCommand` (extends it) | one-transaction liquidity and the protocol pools |
| `DepositCommands` (extends it) | the next-state relation over all of these, and what holds across them |
| `DepositCommands_proofs` | the gate is exact, what is sent is as planned, to the destination; sweeps, floors, positions |
| `MC*` | instances for TLC; a passing run per component, and a run per divergence |

Each component module also holds a few *faulty variants*, named as such and
placed before the definition they vary. They are never part of a next-state
relation; replacing the definition by its variant makes a property fail, which
is how a reader can see that the property depends on that code.

### EvmSwapRun

A run is `unused`, `quoting` (the nonce was read: `Start`, at `get_nonce`),
`prompt` (quoted, built and gated: `Prepare`), `sending` (the expiry was checked
once more: `Confirm`) or `ended` with the report the user read. `Post` is one
turn of the loop of `EthAdapter.broadcast`: answered, refused (an RPC error, so
`BroadcastError`, and the rest is never posted), or unanswered. An unanswered
transaction is `inflight`, and may be taken in later (`Deliver`) or never.
`Kill` is Ctrl-C or a dead process. `pool`, `chain`, `allowance` and `Mine` are the
node, with replacement by nonce; the node is modelled as able to take a
replacement at any price. `Executes` says what the chain reverts: a deposit that is
late or that the allowance does not cover, and, for a token that insists on a
reset (`Resets`: USDT), an approve while an allowance stands. `_build_token_deposit`
always signs one approve and one deposit; only the CoW path resets first.

- `evm_swap`: two terminals, three runs in all, re-run after any report that
  promises that no deposit is live (`Definite`). Two terminals let reads of one
  nonce overlap and transactions replace one another. Amounts 1 and 2 let an
  allowance left by a refused deposit be too small or too large for the next
  run; three runs let two such leftovers meet. The token is one that resets, the
  harder case: a refused or late deposit leaves an approval standing, the next
  run's approve is reverted over it, and that run's deposit is covered only if it
  asks for no more than what was left (`docs/TODO.md:763-765` keeps this as an open
  point). `DepositIsCovered` says that this is the only way: a deposit that fails
  in time follows its own reverted approve, and before that an executed approval
  which its own run never paid from. So a plain token's deposit (`Resets = FALSE`, for which
  the theorem below stands) is always covered.
- `DepositIsCovered` is about a user of one terminal (`Alone`): two runs at once
  share one allowance, and the second replacement may take from the first what
  it approved. `PaidOnce` is about the runs of one
  terminal, which share an intent; that a transaction reported as broadcast is mined is not claimed at
  all, since another terminal may replace it.

Proved: for any number of terminals, runs, amounts and times, and a user who
runs again only after a `Definite` report (`CarefulUser`), `PaidOnce`
(`IntentPaidOnce`). It is not inductive: what carries it is `PayInv`, that every
deposit known to the network belongs to a run whose report is *not* definite
(`DepositsAreTold`), that a later run of a terminal starts only after a definite
report of every earlier one (`StartedInOrder`), and that the chain only has what the mempool accepted
(`FromTheMempool`). `EvmAssumption` is all it assumes of the constants. Whether
the user is careful is a hypothesis on purpose, since the code cannot enforce
it: an unanswered POST is not a definite report, and the program says so.

Whatever the user does, `HonestReport` (`ReportIsAlwaysHonest`) and `NoNonceGap`
(`NoNonceIsSkipped`) hold too. Their invariant is `RunInv`: what is in flight, in a
mempool or mined is what its run signed (`Signed`) and has posted (`Posted`), and
every nonce below one that a run has had accepted is known to the network
(`Gapless`). That no run reads a nonce above what all runs have used (`Bounded`)
is why the bound on nonces in the instance is none on the runs. `DepositIsCovered`
(`DepositAlwaysCovered`) is for a user who never runs again after an unanswered POST
(`WaitsForNews`), for one terminal, as the property says, and for either kind of
token: `AllowInv` adds that the approve of a run that has posted its deposit is in place with nothing of another amount ahead of it (`Approved`), and
that the last transaction mined, if an executed approve, is what the allowance is (`Standing`).

### TwoLegAdd and SymmetricAdd

`TwoLegAdd` has two legs and an outcome: the protocol leg goes first, the asset
leg only after it, and one of nothing, partial or both is told. `SymmetricAdd` is
the code: `Prepare` (both legs built and gated, with one expiry), `Answer` (the
prompt), `PostProtocol`, `PostAsset`, `Interrupt`; `MayRerun` is what the report of
a partial add tells the user to wait for, a rule for the user that the code
does not enforce. The environment executes legs in account-sequence order,
reverts expired token deposits, files an unpaired leg, pairs legs and refunds.

- `sym_add`: POSTs may go unanswered and the user may interrupt; `lossy` records that
  either has happened. Until it has, every run implements `TwoLegAdd` under the
  refinement mapping in `SymmetricAdd` (`Add`), and legs pair only within a run
  (`OwnLegsPair`). At any time, the asset leg only goes out after an acknowledged
  protocol leg (`AssetLegNeverFirst`). The bounds let a retry run into an expiry, a
  refund, and too few funds.
- `sym_failure`: what `lossy` costs (see *Divergences*).

Proved, with no hypothesis: `AddIsTwoLegAdd` (until something is lost, every step of
any number of runs maps to a step or a stutter of `TwoLegAdd`). The invariant is `SoFar`: something was lost, or the stage of each
run determines the states its legs can be in (`LegsInv`). `AssetLegNeverFirst`
(`AssetLegFollows`) holds whatever is lost, by the weaker `OrderInv`. `OwnLegsPair`
(`LegsOfOneRunPair`) needs, besides `LegsInv`, that what the protocol has filed is a
leg of a run that has not paired yet (`Filed`), and that at most one run has a leg
under way (`OneAtATime`), which is what the advice in the reports is for.

### CoinSelection

State: the wallet's outputs with values, parents and confirmations, the target,
and the selection under construction. `Scan` and `Price` stand for the listing and
`cpfp_deficits`; `Take`, `Settle` and `RunOut` are the greedy loop of `_select`, `Sweep` is
`sweep_amount`. The fee rule is virtual bytes at a rational rate, or ZIP-317.
Values, rates and sizes are small so that every boundary (exact fit, dust,
shared unconfirmed parent with too low a fee) happens: four outputs with
values 1, 3, 4, 7 in three transactions, five amounts to send.

`NothingLost` (inputs are recipients, change and fee), `FeeBounded` (never under
the rule's fee; over it by less than a change output and dust),
`RiskOnlyWhenNeeded` (unconfirmed only when the confirmed do not suffice),
`PackageReachesRate` (a child pays its parents' missing fee once). The run goes
through both fee rules (`model`).

Proved for every wallet, rate and target: `TypeCorrect`, `SpendIsAccounted`,
`SpendIsFairlyPriced`, `PackageAlwaysReachesRate` and `RiskOnlyWhenItMust`. The running
totals of the loop are sums over the set taken so far (`SumInv`, with the lemmas of
`SetSums`); the loop takes the largest confirmed outputs, so that no set of as many
could have paid (`GreedyInv`: an exchange argument, `TotalExchange`). The code's
floating-point fee rate is a rational here.

### CowSwap

`Start` and `Prepare` (allowance read, approvals built: reset first when
some smaller allowance is left), `AnswerPrompt` (prompt and `validTo`),
`PostApprove`, `Poll` (`wait_for_receipt`), `Submit`, `Kill`; the chain mines approvals
in nonce order (`MineApproval`), solvers settle open orders.

- `cow_swap`: three runs, each after any report that promises that no order is in
  the book. The run after a timed-out approval that has confirmed needs no
  approval (`RerunNeedsNoApproval`); the wait ends (`WaitEnds`), by `Tick` and `Poll`
  being fair: the loop polls on a clock, and nothing is assumed of the chain.
  An order that is about to be submitted or is open is funded (`OrderIsFunded`),
  unless the command was run again after an approval that was not answered
  (`Careful`): its late delivery resets the allowance under the new order.
- `cow_expiry`: a divergence.

`OrderIsFunded` is not claimed for two different amounts either: the allowance
check ignores what is committed to open orders, so a late reset can unfund
one. `docs/TODO.md:763-765` keeps the same reset question open for memo deposits.

Proved for any number of runs, order life, wait, old allowance and either kind of
token: `OrderIsFunded` (`OrderStaysFunded`) and the action property
`RerunNeedsNoApproval` (`NoSecondApproval`), of a user who asks for the same amount
each time and never again while an order may be in the book (`SameSwap`, the
setting of `cow_swap`). Two invariants carry them. `CowInv`, whatever was not
answered: runs go one by one, what is pending is a step of some run's plan with
no hole in the nonces before it, no later run has an earlier nonce, a receipt's
nonce is used up, and so what the last approval made sufficient stays so until
its order is filled or another run approves (`Approved`). `CalmInv`, while every
approval that was posted was answered: whatever is pending or yet to be approved
meets an allowance that is short, and only the last run has an amount pending
(`Funded`), so that nothing pending can take an order's allowance away. The
second one fails as soon as an approval is not answered, which is why
`Careful` is in `OrderIsFunded`.

### HttpFailover

`Begin` (the order starts at the pin as it is), `Answer`, `Stall`, `Throttle` (one
endpoint of a lap), `EndLap`, `Wake`, `Pin` (the last write wins). Endpoints are healthy,
dead or flaky for good. `http_failover`: two workers and two endpoints, two
requests each, so that pins are moved under a request; the default two retries;
`Retry-After` below and above the cap. `ReadEnds` needs only that a thread keeps
running.

Proved for any number of endpoints, threads and retries: `AskedEvenly`
(`AlwaysAskedEvenly`), `OneHealthyIsEnough` (`OneHealthySuffices`), `PauseIsGranted`
(`PauseAlwaysGranted`) and the action property `DeadHostLeftBehind`
(`DeadHostsLeftBehind`). One invariant does: `FailoverInv`, that a request has asked
exactly the endpoints of its rotation that it has passed in this lap once more
than the others, and that one that gives up has met no healthy endpoint. The
rotation being a permutation (`Rotation`) is what makes it independent of the pin.

### TxHistory

One walk per address: `BeginWalk` (a worker of `wallet_history`'s pool), `FetchPage`
(`collect_pages` turned once, with `DashAdapter`'s comparison of totals and
restart), `Throttled`, `Unreachable` (next endpoint from the first page, or the
listing fails). `known` is what touched the address when its walk began and
has not been dropped since: what a complete listing must have. The explorer
lists the mempool before the blocks, newest first; blocks are not undone, and
all endpoints of an explorer have one view.

- `tx_history`: two addresses and four transactions, among them an output that the
  listing of one address shows and only that of the other sees spent, and a
  limit that cuts the longer history. Three explorers: an Esplora whose mempool
  drops transactions; a Blockbook with two endpoints, whose pair of counts is
  compared over two attempts and whose mempool drops nothing (a drop and an
  arrival between two pages keep both counts, so with drops the hole of
  `hist_offset` exists); and an Insight that may answer any page with its first
  one, for which only the end of the walk is claimed (`WalkEnds`: the worker keeps
  asking, and each request comes back). Such a walk is *not* marked truncated.
- `hist_offset` (Insight): the divergence below.

Pages of one transaction are the hardest case for positions: every
transaction is at a boundary. Insight's own `spentTxId` is left out, which only
makes `UnspentIsTrue` harder.

Proved for any addresses and transactions, page size, limit, number of endpoints
and attempts: `CompleteOrSaidSo` (`ListingIsComplete`) and `UnspentIsTrue`
(`UnspentWasUnspent`), at explorers that have no hole (`NoHole`): each is paged by
transaction, or by page number with a mempool that drops nothing, or is one for
which nothing is claimed (`stubborn`). `hist_offset` shows what happens without
it. The invariant is `HistoryInv`, one condition per address: a walk by
transaction has read all that it must find but what is behind its cursor; one by
page number has either seen totals that no longer fit the list, or has read
exactly the list up to its cursor. Between two pages the list may grow at its
head, lose mempool entries and move others into blocks.

### Keystore

`file` is what the path names and `copy` what each run holds in memory. A run is a
command, `init`, `init --force`, `add` or one that only reads; its stages are those
at which it can be interrupted: `CheckPath` (`cmd_init` looks, then asks for a
passphrase twice), `Load`, `AddEntry` (typing the secret), the steps of
`_atomic_write` (`Write` makes a temporary file `partial`, then `written`, then
`synced`; `Replace` renames it), `WriteFails`, `Kill`. Nothing locks the file, so runs
interleave at each of these. `older` holds what a `PowerLoss` may bring back: the
rename is not synced by the code, so an older whole file may come back, and a
file that had not been synced would come back in part. `Flush` ends that.

- `keystore`: three runs that may overlap, two labels, and every first file (none,
  empty, one entry with or without a passphrase, of either version). Three runs
  let an entry be lost, brought back by a power loss or a slow run, and lost
  again. The runs are interchangeable, hence the symmetry.
- `LostOnlyInARace` says exactly how far the code goes: the two known ways to lose
  an entry are `init --force`, and a run that looked at the file before the entry
  came. That the second one exists is a property of an unlocked file; that
  there is no third is what is checked.

Proved for any number of runs, labels and first files: `FileIsWhole`
(`AlwaysWhole`), `PassphraseKept` (`PassphrasesStay`) and `LostOnlyInARace`
(`NothingLostButInARace`). Each needs to know what the copies in memory hold:
`WholeInv` that they have one entry a label; `PassInv` that what they hold kept its
passphrase; `RaceInv` that an entry of the file which a run about to save does not
hold came after that run had looked. Encryption is one bit: the file opens
under the passphrase that was typed, or `Load` fails.

### AddressScan, UtxoSpend and UtxoCommands

`AddressScan` is `scan_account`: `Probe(k)` for each address of a window, by a pool
that starts them in order and keeps `Workers` out, `CloseWindow` with the gap
arithmetic. `info` is what an explorer would answer *now*. `UtxoSpend` puts it
into `_spendable_utxos`: `ScanDone` picks the addresses whose probe saw money,
`Read` asks each of them for its outputs, then `Select` (any choice of what was
offered: `CoinSelection` is about which), `Decline` or `Broadcast`. `Move` is the
chain: outputs arrive, are mined or evicted, or are spent by another wallet of
the seed. ZEC's index knows no mempool (`chain = "mined"`).

- `utxo_wallet`, first half: five addresses on each of two branches, windows of two,
  two workers, a gap limit of three, so that a window border falls inside a gap
  and a hit can come in either position; three outputs, two of them at the
  address behind the gap, so that one can pin the address while the other
  moves; three moves, enough to receive, spend and mine during one command.
- `UsedIsFound` and `OwnMoneyIsOffered` are about what was mined before the command
  began: no scan of a moving chain can promise what arrived behind it.

Proved for any number of addresses, outputs and workers, any window and gap, and
whatever the chain does: `UsedAlwaysFound` and `OwnMoneyAlwaysOffered`. Neither
property says anything before the scan is over; `ScanInv` does: every address
below the window that had been used is found (`Kept`) unless it lies behind a
full gap, the `gap` addresses below the window were not used (`GapIsEmpty`), what
a worker brought back of a used address shows it used (`Probed`), and mined money
nobody has touched is at an address still to be read or has been offered
(`Reading`).

### FeeBump

`Fetch`, `PlanFirst`, `Price`, `PlanAgain`, `Stop` and `Post` are `cmd_bump`; `Moves` is the
mempool, in which the parent or the transaction is mined, the transaction
drops out, or the user spends its change meanwhile. `Shapes` are the transactions a user
may ask for: every refusal of `plan_replacement` has one. `Admitted` is the node:
absolute fees, more than all it evicts by its own relay fee. Sizes are those
the signatures may come out at, of which the plan knows only an upper bound.

- `utxo_wallet`, second half: rates in half units, so that a rate rounded down is
  another rate; parents that paid nothing or enough; changes from dust upwards;
  four bumps in a row, so that a suggestion can be followed, refused again and
  followed once more, or a replacement be replaced.
- `InformedRatePlans` is what holds of the docstring of `_too_little_change`, that a run
  with the suggested rate plans: it is refused again only in two cases. In one the first plan
  suggested a rate without the parent's surcharge; in the other the float product
  of size and rate overshoots (`Overshoot` names the sizes and rates for which it
  does). TLC finds either refusal when its exception is taken out; both contradict
  the docstring (see *Divergences*). A rate that was suggested after the
  parent was priced may ask for a smaller surcharge than it allows for, never a
  larger one. A suggestion that rounds down to 0.00 is printed and cannot be
  followed: the parser refuses it (`Fetch`).
- `RefusedOnlyIfOvertaken` has an exception for the user's own child: a bump evicts
  a transaction that spends the change and does not pay for it. Bitcoin Core's
  rule that a replacement also needs a higher *rate* than what it replaces is left
  out: fees are compared absolutely.

Proved for any transactions, rates, sizes and parents that `BumpAssumption` allows:
`RefusedOnlyWhenOvertaken` and `InformedRateAlwaysPlans`, both by `BumpInv`. It says
that the plan is of what was fetched, and pays for the surcharge and for any size the
signatures may get (`PlanIsEnough`), and that a rate suggested once the surcharge
is known is one that plans, now and after the next fetch (`Suggesting`).
`OnlyTheChangeEverPays` is by `FamilyInv` (every member of a family is the original
or replaces it at the expense of its change) under one hypothesis, `WalletBuilt`: a
transaction without change has at most one output besides its memo. The
builders of this wallet pay one recipient; a foreign transaction with two outputs
of which one is ours is taken by the code to have that one as its change, and then
the property, which names the change output, does not speak of it.

### VerifyGate, DepositCommand, SwapCommand, LiquidityCommand, DepositCommands

These five are one state machine, split by what they are about. It is one run
of one command; what several runs do to one another is `EvmSwapRun`'s,
`SymmetricAdd`'s and `CowSwap`'s subject.

A *transaction* is a function from the names of the fields that decide what it
does to their values, and a *plan* has the same fields and more; UTXO transactions
are their outputs and fee. `VerifyGate` has the verifiers, each over exactly the
fields that it compares in the code; what a vault swap's
payload may ask for and no plan does is one bit (`extras`). `DepositCommand` builds (`Prepare`), and the
builder may get any one field, or any one output, wrong (`Slipped`): the gate is
there because it is not trusted. Then `Unsafe`, `NotSent`, `Expired` or `Confirm`, the one
check of the clock, and after it a `Post` for each transaction: two for a token
deposit, which is behind its approval. A `Post` may fail although the transaction
got through. The clock runs between `Confirm` and every `Post`, since nothing in the code
bounds how late a POST goes out; so no property says that what is sent is sent
before its expiry, and what a late token deposit costs is in `EvmSwapRun`.

`SwapCommand` has an action for each function that sizes a source
(`_swap_from_utxo`, `_swap_from_evm`, ..., `_send_cosmos`), the choice of a backend
(`SelectNamed`, `SelectBest`, `SelectRefused`), the second quote (`prepare_swap`), and the
vault swaps, from the floor over the encoding a broker returns to what the
protocol does with it (`Settle`). Quotes and encodings have any one field wrong.
`LiquidityCommand` has an action for each liquidity function of `cli.py`, the
network's switches and our position (`world`) that may change before the
deposit arrives (`Move`, `Arrive`), and the polls after a pool withdrawal. The network
files the position of an asset side under the address that paid (`payer`): an
account has one, a UTXO wallet pays from any of its outputs, and the first input's
address is the sender (`docs/cardano.md:105-108`). A deposit it does not observe
(`Observed`: an add below the inbound's `dust_threshold`) is lost.

- `deposits`: all command lines over six kinds of source, four backends and no
  choice, with and without sweep; two amounts, one of which cannot be paid for
  along with a fee; two rates; a clock of two ticks, which brings a quote to its
  expiry before, during and after the prompt and between two POSTs; prices around the
  floor; an amount below and one above the UTXO dust threshold; two addresses
  that may have paid; one
  change of the network during a command, which is all that one deposit can be
  overtaken by; two polls, either of which may fail.
- `SentAsPlanned` and `PaysTheDestination` are about everything that goes out.
  Whether a plan is right is the second one's: it looks at what the memo, the
  payload or the recipient says, against the command line. The *limit* in a
  THORChain or Maya memo (the least to pay) is not compared by the gate, so it
  is not part of it.
- `SweepLeavesGas`: the gas kept back when a balance is swept covers the call that
  sweeps it, although the backend, and with it the call, is only chosen
  afterwards. `FloorIsKept`: a vault swap pays the floor or refunds to the wallet,
  through a price that is rounded up and two flat fees, taken as the quote
  states them.
- `TakenUnlessChanged`, `TriggerFindsPosition` and `PoolReportIsTrue` are about deposits a
  network refuses at the cost of a fee, or never sees, and about what is said of
  them. The first has two exceptions, both of the asset side: an add to a staged
  pool, since `prepare_protocol_only_liquidity` asks for the pool's status
  (`swap.py:628`) and `prepare_liquidity` (`swap.py:357-381`) does not, and an add below
  the dust threshold, which `prepare_liquidity` uses for the trigger only
  (`docs/TODO.md:594-601`). The second has one: on a UTXO chain the trigger
  matches nothing if its first input is of another address than the position's, because
  `_liquidity_utxo` spends whatever the scan finds (`cli.py:3159`). The third excuses
  one more false warning: a fresh deposit while a partial withdrawal is awaited
  hides it.

Proved for any clock, amounts, fees, prices and networks: `AccountGateIsExact`
(an account-chain transaction that passes is the planned one in every field but
the fee), `UtxoGateIsStrict`, `PriceBuysTheFloor` (the arithmetic under
`FloorIsKept`), and of the whole machine `AlwaysAsPlanned`,
`DestinationIsPaid`, `SweepAlwaysLeavesGas`, `FloorIsAlwaysKept`, `AlwaysTakenUnlessChanged`,
`TriggerAlwaysFinds` and `PoolReportAlwaysTrue`. The invariant of the first two is
`PlannedInv`: from the prompt on the plan is a sane one that names the destination,
the transaction is that plan's or a slipped one, and `problems` is
what its gate says of the two; what is out passed. Every one of the machine's
actions is first shown to be quiet, preparing or sending (`EveryStep`), so that
the invariants need three cases and not thirty. `SweepInv` relates the amount of a
sweep to the gas kept back for the dearest call that may follow, and bounds by it
what any backend's call costs at the prompt. `FloorInv` carries the floor from
the plan through the encoded price to what the protocol is bound to pay.
`LiquidityInv` says what a command that has decided to deposit has looked at, that
it is still so if nothing moved since, and that an asset-side deposit is paid from one of
the wallet's addresses. `CommandAssumption`,
`SwapAssumption` and `GateAssumption` are what they rest on.

## Divergences

| Run | What the code does | What is said |
|---|---|---|
| `sym_failure` | an unanswered protocol leg may execute | "nothing was sent"; "leaves nothing live" |
| `cow_expiry` | the order may expire during the approval wait | "checked again right before submission" |
| `hist_offset` | the item count stays while the list is reordered | "it moves exactly when the list does" |

Two more have no run of their own, as `InformedRatePlans` names them as its
exceptions. The docstring of `_too_little_change` says of the rate it suggests that
"re-running with it plans instead of refusing again" (`chains/rbf.py:196-198`). But
`cmd_bump` plans once before it prices the parent (`cli.py:1882`), and a refusal of that
plan suggests a rate without the surcharge, which the next run is refused for
(once: its second plan's suggestion allows for it). And
`math.ceil(vsize * fee_rate)` (`chains/rbf.py:113`) can exceed the true product: of 150 vB and
333 sats the suggestion is 2.22, and 150 * 2.22 rounds up to 334, so that the run with it is
refused with the identical number, every time.

The first has siblings that need no run of their own: an unanswered *asset* POST is
told as "did NOT go out" (`cli.py:3725`), Ctrl-C during it leaves a half-add
without the PARTIAL ADD report, and the symmetric path does not compare its
expiry with the clock after the prompt. After an unanswered approval, a token
that refuses to change a non-zero allowance makes a re-run say "allowance not
set" (`cli.py:2739`) while it is set. `RateLimited` is raised when one endpoint of
several throttled and the others only timed out (`net.py:305`), where its
docstring says that every one of them throttled.

`DashAdapter.address_txs` also says that an arrival makes the walk skip; it
makes it repeat, and it is a reordering or a drop that makes it skip.

## Deadlock

Every run has `CHECK_DEADLOCK FALSE`: each models commands that end and chains
that fall quiet, so a state without a successor is the normal end.

## What the code does that no property says

Met while modelling, and neither a contradiction of a document nor covered by a
property:

- A sweep that is routed to Chainflip from a UTXO chain is aborted
  (`_swap_via_chainflip`), though another backend could have executed it: the
  choice does not look at `--sweep`.
- A backend named on the command line is not asked for a quote before it is
  chosen; the second quote is then the first.
- The fees of TRC-20 and of Cosmos transactions are not capped by the gate (`Capped`
  names the kinds for which they are).
- A wallet that has both an asset-side and a protocol-side position can only
  reach the second one with `withdraw`: the first is looked at only if the second
  does not exist.
- Nothing bounds the time between the check of the expiry and the POSTs behind it.
- A memo deposit of USDT after one that was not paid is reverted at its approve; an
  add below the dust threshold is lost; an add or a trigger on a UTXO chain may be paid from
  another address than the position's. A staged pool, a child of a bumped
  transaction and a hidden withdrawal are like these: described above, with
  the properties that except them.
- A shared parent is charged once (`Surcharge`), but no property would notice a
  second charge: `PackageReachesRate` is a lower bound. Nor does one say that a second
  read of outputs asks the host the scan asked.

## Proofs

Theorems are in `*_proofs` modules, each over the component module itself and
under the component's named assumptions on its constants, which TLC evaluates
in the component's run. TLC also finds the invariants of the last column true on
the component's instance, with the addresses of `GapIsEmpty` bounded; all but
`PlannedInv`, whose quantifiers over fees and times it cannot enumerate.

| Theorem | Property | Carried by |
|---|---|---|
| `IntentPaidOnce` | `PaidOnce` of a careful user | `PayInv` |
| `ReportIsAlwaysHonest`, `NoNonceIsSkipped` | `HonestReport`, `NoNonceGap` | `RunInv` |
| `DepositAlwaysCovered` | `DepositIsCovered` of a user who waits for news (`WaitsForNews`) | `AllowInv` |
| `AddIsTwoLegAdd` | the refinement of `TwoLegAdd` | `SoFar` |
| `AssetLegFollows` | `AssetLegNeverFirst` | `OrderInv` |
| `LegsOfOneRunPair` | `OwnLegsPair` | `PairInv` |
| `TypeCorrect`, `SpendIsAccounted`, `SpendIsFairlyPriced` | `TypeOK`, `NothingLost`, `FeeBounded` | `IInv` |
| `PackageAlwaysReachesRate` | `PackageReachesRate` | `SumInv` |
| `RiskOnlyWhenItMust` | `RiskOnlyWhenNeeded` | `GreedyInv` |
| `AlwaysAskedEvenly`, `OneHealthySuffices`, `PauseAlwaysGranted`, `DeadHostsLeftBehind` | `AskedEvenly`, `OneHealthyIsEnough`, `PauseIsGranted`, `DeadHostLeftBehind` | `FailoverInv` |
| `ListingIsComplete`, `UnspentWasUnspent` | `CompleteOrSaidSo`, `UnspentIsTrue` of explorers without a hole (`NoHole`) | `HistoryInv` |
| `NoSecondApproval` | `RerunNeedsNoApproval` of a user who repeats one swap (`SameSwap`) | `CowInv` |
| `OrderStaysFunded` | `OrderIsFunded` of the same | `CowInv`, `CalmInv` |
| `AlwaysWhole` | `FileIsWhole` | `WholeInv` |
| `PassphrasesStay` | `PassphraseKept` | `PassInv` |
| `NothingLostButInARace` | `LostOnlyInARace` | `RaceInv` |
| `UsedAlwaysFound`, `OwnMoneyAlwaysOffered` | `UsedIsFound`, `OwnMoneyIsOffered` | `ScanInv` |
| `RefusedOnlyWhenOvertaken`, `InformedRateAlwaysPlans` | `RefusedOnlyIfOvertaken`, `InformedRatePlans` | `BumpInv` |
| `OnlyTheChangeEverPays` | `OnlyTheChangePays` of what the wallet built (`WalletBuilt`) | `FamilyInv` |
| `AccountGateIsExact`, `UtxoGateIsStrict`, `PriceBuysTheFloor` | (of the operators) | |
| `AlwaysAsPlanned`, `DestinationIsPaid` | `SentAsPlanned`, `PaysTheDestination` | `PlannedInv` |
| `SweepAlwaysLeavesGas` | `SweepLeavesGas` | `SweepInv` |
| `FloorIsAlwaysKept` | `FloorIsKept` | `FloorInv` |
| `AlwaysTakenUnlessChanged`, `TriggerAlwaysFinds`, `PoolReportAlwaysTrue` | `TakenUnlessChanged`, `TriggerFindsPosition`, `PoolReportIsTrue` | `LiquidityInv` |

Seven of the theorems have a hypothesis that the code does not enforce: the one of a
careful user, the one of a user who waits for news, `OnlyTheChangeEverPays`, the two
of `SameSwap` and the two of `NoHole`. What fails
without it is said under its component. The rest assume only what the modules assume of their
constants.

Sums over sets are `MapThenSumSet`, which the community modules define by recursion
over a choice of elements. `SetSums` proves what the components need of it without
an induction rule: that a sum does not depend on the order of choice, since a
smallest set for which it did would have a smaller one inside it.

Model-checked only: liveness (`WaitEnds`, `ReadEnds`, `WalkEnds`), which needs
fairness and is beyond the prover. Every safety property of the passing runs is
stated by a theorem. What a recursive definition computes for every input would
need induction over data, which the provers do not do here.

Fairness is stated for `CowSwap` (`Tick` and `Poll`), `HttpFailover` and `TxHistory` (a thread
that can take its next step takes it); nothing is assumed of users, of nodes or
of the network. The other specifications have safety properties only.

## Plan

Modelled so far, in order of what loses money first: EVM run, symmetric add,
coin selection, CoW, failover, history; keystore, scan, spends, bumps; the gate,
swaps, sends and liquidity. Left:

1. `EvmSwapRun` over `DepositCommands`: the first has the terminals and the mempool,
   the second the plans; composed they would show that what is retried was also
   planned for.
2. Account-based broadcasts with sequences and expirations of their own: Cosmos
   account sequences, Tron's expiration and fee limit.

## Not modelled

Cardano (its selection with minimum outputs, CBOR and keys) and Zcash's
transaction format are transformations of one transaction's bytes; ZIP-317 is in
`CoinSelection`. The EVM side chains and the gated chains are parameters of the
Ethereum adapter and refusals. Of the verify gate, the EIP-712 check of a CoW
order and the gate of an approval alone are left out, and byte layouts are one
bit that says whether they can be decoded. Chainflip's status query, the Dash
hosts' fallback order, and the clients of backends left open by the selection
are left out as well. A quote's streaming interval travels in the memo and is
not told apart from it.

Address formats and checksums, price feed and report layout, serialisation and
key derivation (functions over byte strings) and argument parsing are not
planned either.
