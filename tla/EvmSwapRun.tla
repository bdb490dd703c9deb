----------------------------- MODULE EvmSwapRun -----------------------------
(***************************************************************************)
(* A memo-deposit swap from an EVM account, from the command line to the   *)
(* chain: cli._swap_from_evm reads the account's nonce, swap.prepare_swap   *)
(* quotes, builds and gates, cli._confirm_and_execute prompts and checks    *)
(* the quote's expiry, and EthAdapter.broadcast posts the signed            *)
(* transactions in order, one unretried POST each.  The user may run the    *)
(* command again, and several terminals may spend from the same account.    *)
(*                                                                         *)
(* The node's mempool and the chain are the environment: transactions      *)
(* execute in nonce order, an ERC-20 deposit (router.depositWithExpiry)     *)
(* reverts unless the standing allowance covers it and it is not expired,   *)
(* and some tokens (USDT) revert an approve that replaces an allowance: the *)
(* deposit path, unlike the CoW one, never sets the allowance to 0 first.   *)
(***************************************************************************)
EXTENDS Integers, Sequences, FiniteSets

CONSTANTS
    Terminals,  \* the command lines spending from the one account
    MaxRuns,    \* bound: how often the command is run, on all terminals
    Amounts,    \* the amounts a user may ask for
    Token,      \* TRUE: ERC-20 source (approve + deposit), FALSE: native
    Resets,     \* TRUE: the token's approve reverts while an allowance stands
    QuoteLife,  \* how long a quote is valid
    MaxTime,    \* bound on the clock
    Rerun       \* the reports after which the user runs the command again

\* The reports that promise that no deposit of the run is live: everything the
\* command tells before it posts (aborted, gate failed, dry run, declined,
\* expired), and the node's own refusal.
NothingPosted == {"refused"}
Definite      == NothingPosted \cup {"rejected"}
Reports       == Definite \cup {"unknown", "sent"}

ASSUME EvmAssumption ==
    /\ MaxRuns \in Nat
    /\ QuoteLife \in Nat
    /\ MaxTime \in Nat
    /\ Amounts \subseteq Nat \ {0}
    /\ Token \in BOOLEAN
    /\ Resets \in BOOLEAN
    /\ Rerun \subseteq Reports

VARIABLES
    now,        \* the wall clock
    run,        \* the command's state, per run
    pool,       \* the transactions pending in the node's mempool
    chain,      \* the mined transactions, in nonce order
    allowance,  \* what the router may pull of the token
    inflight,   \* posted transactions the client gave up on, not yet delivered
    accepted    \* every transaction a node ever took into its mempool

vars == <<now, run, pool, chain, allowance, inflight, accepted>>

RunId == Terminals \X (1..MaxRuns)
Stage == {"unused", "quoting", "prompt", "sending", "ended"}

Tx == [run: RunId, kind: {"approve", "deposit"}, amt: Nat, exp: Nat, nonce: Nat]

-----------------------------------------------------------------------------
\* EthAdapter.get_nonce: the "pending" count, mined plus gapless mempool.
PendingNonce ==
    LET Free(n) == n >= Len(chain) /\ \A t \in pool : t.nonce # n
    IN  CHOOSE n \in Len(chain)..(Len(chain) + 2 * MaxRuns * MaxRuns + 2) :
            /\ Free(n)
            /\ \A m \in Len(chain)..(n - 1) : ~Free(m)

\* A token source signs approve and deposit, a native one the deposit alone.
LastStep == IF Token THEN 2 ELSE 1

\* A faulty TxOf that the properties reject: the deposit signed with the nonce
\* before its approve's.
NoncesSwapped(r, step) ==
    [run |-> r, kind |-> IF step = LastStep THEN "deposit" ELSE "approve",
     amt |-> run[r].amt, exp |-> run[r].exp, nonce |-> run[r].nonce + LastStep - step]

\* The signed transaction of a run's step, in broadcast order.
TxOf(r, step) ==
    [run   |-> r,
     kind  |-> IF step = LastStep THEN "deposit" ELSE "approve",
     amt   |-> run[r].amt,
     exp   |-> run[r].exp,
     nonce |-> run[r].nonce + step - 1]

\* The run ends and the user reads its report.
End(r, told) ==
    run' = [run EXCEPT ![r].stage = "ended", ![r].told = told]

Init ==
    /\ now = 0
    /\ run = [r \in RunId |-> [stage |-> "unused", told |-> "nothing",
                               nonce |-> 0, amt |-> 0, exp |-> 0, step |-> 1]]
    /\ pool = {}
    /\ chain = << >>
    /\ allowance = 0
    /\ inflight = {}
    /\ accepted = {}

-----------------------------------------------------------------------------
\* The command starts: the nonce is read before anything is quoted.
Start(r) ==
    /\ run[r].stage = "unused"
    /\ Cardinality({s \in RunId : run[s].stage # "unused"}) < MaxRuns
    /\ \A k \in 1..(r[2] - 1) :
           /\ run[<<r[1], k>>].stage = "ended"
           /\ run[<<r[1], k>>].told \in Rerun
    /\ \E a \in Amounts :
           run' = [run EXCEPT ![r].stage = "quoting", ![r].amt = a,
                              ![r].nonce = PendingNonce]
    /\ UNCHANGED <<now, pool, chain, allowance, inflight, accepted>>

\* prepare_swap refused: halted chain, quote error, below the minimum, no
\* memo or no vault.
PrepareAborts(r) ==
    /\ run[r].stage = "quoting"
    /\ End(r, "refused")
    /\ UNCHANGED <<now, pool, chain, allowance, inflight, accepted>>

\* prepare_swap quoted, built and gated; a gate problem or a missing
\* --confirm ends the run, otherwise the prompt opens.
Prepare(r) ==
    /\ run[r].stage = "quoting"
    /\ \/ End(r, "refused")
       \/ run' = [run EXCEPT ![r].stage = "prompt", ![r].exp = now + QuoteLife]
    /\ UNCHANGED <<now, pool, chain, allowance, inflight, accepted>>

\* The user types something other than yes.
Decline(r) ==
    /\ run[r].stage = "prompt"
    /\ End(r, "refused")
    /\ UNCHANGED <<now, pool, chain, allowance, inflight, accepted>>

\* yes (or --yes): the expiry is checked again, once, before signing.
Confirm(r) ==
    /\ run[r].stage = "prompt"
    /\ IF now >= run[r].exp
       THEN End(r, "refused")
       ELSE run' = [run EXCEPT ![r].stage = "sending"]
    /\ UNCHANGED <<now, pool, chain, allowance, inflight, accepted>>

\* The node takes a transaction into its mempool: its nonce is not mined yet,
\* and the slot is free or it outbids the transaction holding it.
TakesIn(tx) ==
    /\ tx.nonce >= Len(chain)
    /\ pool' = {t \in pool : t.nonce # tx.nonce} \cup {tx}
    /\ accepted' = accepted \cup {tx}

\* Faulty outcomes of a POST: a refusal reported as if nothing had been posted;
\* a silent POST repeated like a GET; a silent approve followed by the deposit.
RefusalHidden(r) ==
    /\ run[r].stage = "sending"
    /\ End(r, "refused")
    /\ UNCHANGED <<now, pool, chain, allowance, inflight, accepted>>
PostsAgain(r) ==
    /\ run[r].stage = "sending"
    /\ inflight' = inflight \cup {TxOf(r, run[r].step)}
    /\ UNCHANGED <<now, run, pool, chain, allowance, accepted>>
GoesOnUnanswered(r) ==
    /\ run[r].stage = "sending"
    /\ IF run[r].step = LastStep
       THEN End(r, "unknown")
       ELSE run' = [run EXCEPT ![r].step = @ + 1]
    /\ inflight' = inflight \cup {TxOf(r, run[r].step)}
    /\ UNCHANGED <<now, pool, chain, allowance, accepted>>

\* A POST that is answered: on to the next transaction, or done.
PostAcked(r) ==
    /\ run[r].stage = "sending"
    /\ TakesIn(TxOf(r, run[r].step))
    /\ IF run[r].step = LastStep
       THEN End(r, "sent")
       ELSE run' = [run EXCEPT ![r].step = @ + 1]
    /\ UNCHANGED <<now, chain, allowance, inflight>>

\* The node refuses: an RPC error body, wrapped as BroadcastError.  The
\* remaining transactions are never posted.
PostRejected(r) ==
    /\ run[r].stage = "sending"
    /\ End(r, "rejected")
    /\ UNCHANGED <<now, pool, chain, allowance, inflight, accepted>>

\* A POST times out or answers with an HTTP error, and is not repeated; or the
\* process dies during it.  The transaction is lost, or still under way, and
\* then the node takes it in later or never (Deliver).
PostUnanswered(r) ==
    /\ run[r].stage = "sending"
    /\ End(r, "unknown")
    /\ inflight' = inflight \cup {TxOf(r, run[r].step)}
    /\ UNCHANGED <<now, pool, chain, allowance, accepted>>

\* A transaction nobody waits for any more reaches the node.
Deliver ==
    \E t \in inflight :
        /\ TakesIn(t)
        /\ inflight' = inflight \ {t}
        /\ UNCHANGED <<now, run, chain, allowance>>

\* The process dies before it posts (or between two posts).
Kill(r) ==
    /\ run[r].stage \in {"quoting", "prompt", "sending"}
    /\ End(r, "unknown")
    /\ UNCHANGED <<now, pool, chain, allowance, inflight, accepted>>

\* Whether the chain executes a transaction or reverts it; it is mined
\* either way.
Executes(t) ==
    IF t.kind = "approve"
    THEN ~ (Resets /\ allowance > 0)
    ELSE ~ Token \/ (allowance >= t.amt /\ now < t.exp)

\* The chain executes the pending transaction with the account's next nonce.
Mine ==
    \E t \in pool :
        /\ t.nonce = Len(chain)
        /\ pool' = pool \ {t}
        /\ chain' = Append(chain, [tx |-> t, ok |-> Executes(t)])
        /\ allowance' = IF ~ (Token /\ Executes(t)) THEN allowance
                        ELSE IF t.kind = "approve" THEN t.amt
                        ELSE allowance - t.amt
        /\ UNCHANGED <<now, run, inflight, accepted>>

Tick ==
    /\ now < MaxTime
    /\ now' = now + 1
    /\ UNCHANGED <<run, pool, chain, allowance, inflight, accepted>>

Post(r) == PostAcked(r) \/ PostRejected(r) \/ PostUnanswered(r)

Next ==
    \/ \E r \in RunId :
           \/ Start(r) \/ PrepareAborts(r) \/ Prepare(r)
           \/ Decline(r) \/ Confirm(r) \/ Post(r) \/ Kill(r)
    \/ Deliver
    \/ Mine
    \/ Tick

Spec == Init /\ [][Next]_vars

-----------------------------------------------------------------------------
Paid == {chain[i].tx.run : i \in {j \in DOMAIN chain :
                                      chain[j].ok /\ chain[j].tx.kind = "deposit"}}

\* One intent is paid at most once: a user who runs the command again only
\* after a report that promises nothing is live never pays twice, however
\* the runs, the mempool and other terminals interleave.  (execute_swap
\* posts nothing before the gate, the prompt and the expiry check passed,
\* broadcast posts the deposit last and stops at the first failure.)
PaidOnce == \A r, s \in Paid : r[1] = s[1] => r = s

\* What the command tells is what the chain can still do: a run that ended
\* before posting has no transaction anywhere, a run the node refused has no
\* deposit anywhere, and a run reported as broadcast has had every one of its
\* transactions accepted.
HonestReport ==
    \A r \in RunId : run[r].stage = "ended" =>
        /\ run[r].told \in NothingPosted =>
               \A t \in accepted : t.run # r
        /\ run[r].told = "rejected" =>
               \A t \in accepted : t.run = r => t.kind # "deposit"
        /\ run[r].told = "sent" =>
               \A step \in 1..LastStep : TxOf(r, step) \in accepted

\* The nonces in the mempool have no gap: nothing a run had accepted can be
\* stuck behind a transaction that was never sent (get_nonce reads the
\* pending count, the approve takes it, the deposit the one after).
NoNonceGap ==
    \A t \in pool : \A n \in Len(chain)..t.nonce : \E u \in pool : u.nonce = n

\* Only one terminal has run the command.
Alone == \A r, s \in RunId :
             run[r].stage # "unused" /\ run[s].stage # "unused" => r[1] = s[1]

\* An approval that was executed and that its own run never drew on.
LeftApproved(j) ==
    chain[j].ok /\ chain[j].tx.kind = "approve" /\ chain[j].tx.run \notin Paid

\* One terminal: a deposit that fails before its expiry is of a token whose
\* approve cannot replace an allowance; its own approve, mined just before it,
\* was reverted, and that over an approval that an unpaid run had left behind.
\* So a plain token's deposit is always covered, whatever earlier runs left
\* approved, and repeated swaps that succeed leave nothing that could revert
\* the next one.  (_build_token_deposit approves exactly what it deposits, and
\* never resets an allowance first.)
DepositIsCovered ==
    Alone => \A i \in DOMAIN chain :
        chain[i].tx.kind = "deposit" /\ ~chain[i].ok =>
            \/ now >= chain[i].tx.exp
            \/ /\ Resets /\ \E j \in 1..(i - 2) : LeftApproved(j)
               /\ chain[i - 1].tx.run = chain[i].tx.run /\ ~chain[i - 1].ok

=============================================================================
