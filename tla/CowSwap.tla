------------------------------ MODULE CowSwap -------------------------------
(***************************************************************************)
(* A swap through the CoW order book (cli._swap_via_cow): quote, gate,      *)
(* prompt, fund the vault relayer's allowance with zero, one or two approve *)
(* transactions, wait for the last of them to mine, then sign and submit an *)
(* order that solvers may settle until it expires.                          *)
(*                                                                         *)
(* One user runs the command for one swap, again and again as the reports   *)
(* advise.  The environment: the account's mempool and chain, which executes *)
(* transactions in nonce order; a token whose approve may insist on a reset *)
(* to zero (USDT); the order book, which checks expiry and allowance when   *)
(* an order is placed and when it is settled.                               *)
(***************************************************************************)
EXTENDS Integers, Sequences

CONSTANTS
    MaxRuns,    \* bound: how often the command is run
    Amounts,    \* what a run may ask for
    Leftovers,  \* what earlier swaps may have left approved
    OrderLife,  \* how long a quoted order is valid
    WaitLimit,  \* how long the approval is waited for (120 s in the code)
    MaxTime,    \* bound on the clock
    Resets,     \* TRUE: approve reverts unless it starts from or goes to zero
    Rerun       \* the reports after which the user runs the command again

\* Reports that promise that the run has no order in the book.
NoOrder == {"aborted", "gate", "dryrun", "declined", "expired", "rejected",
            "unknown", "timeout", "reverted"}
Reports == NoOrder \cup {"submitted", "submitfailed", "killed"}

ASSUME CowAssumption ==
    /\ MaxRuns \in Nat
    /\ Amounts \subseteq Nat \ {0}
    /\ Leftovers \subseteq Nat
    /\ OrderLife \in Nat
    /\ WaitLimit \in Nat
    /\ MaxTime \in Nat
    /\ Resets \in BOOLEAN
    /\ Rerun \subseteq Reports

VARIABLES
    now,        \* the wall clock
    run,        \* the command's state, per run
    pool,       \* pending approve transactions
    inflight,   \* posted without an answer, not delivered yet
    mined,      \* how many of the account's transactions are mined
    receipt,    \* per run and approve, the receipt's status
    allowance,  \* what the vault relayer may pull
    orders      \* the order book: at most one order per run

chain   == <<pool, inflight, mined, receipt, allowance>>
cowVars == <<now, run, chain, orders>>

Runs  == 1..MaxRuns
Stage == {"unused", "quoting", "prompt", "approving", "waiting",
          "submitting", "ended"}
Tx    == [run: Runs, step: 1..2, amt: Nat, nonce: Nat]

CowInit ==
    /\ now = 0
    /\ run = [r \in Runs |-> [stage |-> "unused", told |-> "nothing", amt |-> 0,
                              exp |-> 0, nonce |-> 0, plan |-> << >>, step |-> 1,
                              deadline |-> 0]]
    /\ pool = {} /\ inflight = {}
    /\ mined = 0
    /\ receipt = [s \in Runs \X (1..2) |-> "none"]
    /\ allowance \in Leftovers
    /\ orders = [r \in Runs |-> "none"]

-----------------------------------------------------------------------------
\* EthAdapter.get_nonce: the pending count.
PendingNonce ==
    LET Free(n) == n >= mined /\ \A t \in pool : t.nonce # n
    IN  CHOOSE n \in mined..(mined + 2 * MaxRuns) :
            /\ Free(n)
            /\ \A m \in mined..(n - 1) : ~Free(m)

\* A faulty variant that the properties reject: an allowance that just covers
\* the amount is approved again.
ApprovesAnyway(amount, current) ==
    IF current > amount THEN << >>
    ELSE IF current > 0 THEN <<0, amount>>
    ELSE <<amount>>

\* build_and_verify_approvals: what to approve, given the mined allowance.
Approvals(amount, current) ==
    IF current >= amount THEN << >>
    ELSE IF current > 0 THEN <<0, amount>>
    ELSE <<amount>>

End(r, told) == run' = [run EXCEPT ![r].stage = "ended", ![r].told = told]

\* What was printed tells the user when to run the command again: at once, or
\* after TIMED OUT once the approval has confirmed.
MayRerun(q) ==
    /\ run[q].stage = "ended"
    /\ run[q].told \in Rerun
    /\ run[q].told = "timeout" => receipt[<<q, Len(run[q].plan)>>] # "none"

Start(r) ==
    /\ run[r].stage = "unused"
    /\ \A q \in 1..(r - 1) : MayRerun(q)
    /\ \E a \in Amounts :
           run' = [run EXCEPT ![r].stage = "quoting", ![r].amt = a,
                              ![r].nonce = PendingNonce]
    /\ UNCHANGED <<now, chain, orders>>

\* Quote, order, allowance, approvals and the gate; the order's expiry is the
\* quote's.
Prepare(r) ==
    /\ run[r].stage = "quoting"
    /\ \/ \E told \in {"aborted", "gate", "dryrun"} : End(r, told)
       \/ run' = [run EXCEPT ![r].stage = "prompt",
                             ![r].exp = now + OrderLife,
                             ![r].plan = Approvals(run[r].amt, allowance)]
    /\ UNCHANGED <<now, chain, orders>>

\* The prompt, and the one check of the order's expiry.
AnswerPrompt(r) ==
    /\ run[r].stage = "prompt"
    /\ \/ End(r, "declined")
       \/ IF now >= run[r].exp
          THEN End(r, "expired")
          ELSE run' = [run EXCEPT ![r].stage = IF run[r].plan = << >>
                                               THEN "submitting" ELSE "approving"]
    /\ UNCHANGED <<now, chain, orders>>

ApproveTx(r) == [run |-> r, step |-> run[r].step, amt |-> run[r].plan[run[r].step],
                 nonce |-> run[r].nonce + run[r].step - 1]

TakesIn(tx) ==
    /\ tx.nonce >= mined
    /\ pool' = {t \in pool : t.nonce # tx.nonce} \cup {tx}

\* One approve is posted: taken, refused (BroadcastError), or not answered (the
\* network error reaches main).
PostApprove(r) ==
    /\ run[r].stage = "approving"
    /\ \/ /\ TakesIn(ApproveTx(r))
          /\ run' = IF run[r].step = Len(run[r].plan)
                    THEN [run EXCEPT ![r].stage = "waiting",
                                     ![r].deadline = now + WaitLimit]
                    ELSE [run EXCEPT ![r].step = @ + 1]
          /\ UNCHANGED inflight
       \/ /\ End(r, "rejected")
          /\ UNCHANGED <<pool, inflight>>
       \/ /\ End(r, "unknown")
          /\ inflight' = inflight \cup {ApproveTx(r)}
          /\ UNCHANGED pool
    /\ UNCHANGED <<now, mined, receipt, allowance, orders>>

\* A faulty wait_for_receipt that has no deadline.
WaitsForever(r) ==
    LET status == receipt[<<r, Len(run[r].plan)>>] IN
    /\ run[r].stage = "waiting"
    /\ \/ /\ status = "ok"
          /\ run' = [run EXCEPT ![r].stage = "submitting"]
       \/ /\ status = "reverted"
          /\ End(r, "reverted")
    /\ UNCHANGED <<now, chain, orders>>

\* A faulty wait_for_receipt caller: a missing receipt is taken for success.
NoReceiptIsFine(r) ==
    LET status == receipt[<<r, Len(run[r].plan)>>] IN
    /\ run[r].stage = "waiting"
    /\ \/ /\ status = "reverted"
          /\ End(r, "reverted")
       \/ /\ status = "ok" \/ now >= run[r].deadline
          /\ run' = [run EXCEPT ![r].stage = "submitting"]
    /\ UNCHANGED <<now, chain, orders>>

\* One poll of wait_for_receipt; a failing poll counts as pending.
Poll(r) ==
    LET status == receipt[<<r, Len(run[r].plan)>>] IN
    /\ run[r].stage = "waiting"
    /\ \/ /\ status = "ok"
          /\ run' = [run EXCEPT ![r].stage = "submitting"]
       \/ /\ status = "reverted"
          /\ End(r, "reverted")
       \/ /\ now >= run[r].deadline
          /\ End(r, "timeout")
    /\ UNCHANGED <<now, chain, orders>>

\* submit_order: the book takes the order, or the client sees a failure, which
\* is no answer when the order was taken all the same.
Submit(r) ==
    /\ run[r].stage = "submitting"
    /\ \/ /\ now < run[r].exp /\ allowance >= run[r].amt
          /\ orders' = [orders EXCEPT ![r] = "open"]
          /\ \E told \in {"submitted", "submitfailed"} : End(r, told)
       \/ /\ End(r, "submitfailed")
          /\ UNCHANGED orders
    /\ UNCHANGED <<now, chain>>

\* The process dies.
Kill(r) ==
    /\ run[r].stage \notin {"unused", "ended"}
    /\ End(r, "killed")
    /\ UNCHANGED <<now, chain, orders>>

-----------------------------------------------------------------------------
\* The account's chain, the order book and the clock.
Deliver ==
    \E t \in inflight :
        /\ TakesIn(t)
        /\ inflight' = inflight \ {t}
        /\ UNCHANGED <<now, run, mined, receipt, allowance, orders>>

MineApproval ==
    \E t \in pool :
        LET reverts == Resets /\ t.amt > 0 /\ allowance > 0
        IN  /\ t.nonce = mined
            /\ mined' = mined + 1
            /\ pool' = pool \ {t}
            /\ receipt' = [receipt EXCEPT ![<<t.run, t.step>>] =
                               IF reverts THEN "reverted" ELSE "ok"]
            /\ allowance' = IF reverts THEN allowance ELSE t.amt
            /\ UNCHANGED <<now, run, inflight, orders>>

Settle(r) ==
    /\ orders[r] = "open"
    /\ now < run[r].exp
    /\ allowance >= run[r].amt
    /\ orders' = [orders EXCEPT ![r] = "filled"]
    /\ allowance' = allowance - run[r].amt
    /\ UNCHANGED <<now, run, pool, inflight, mined, receipt>>

\* The clock; past its bound it only runs while an approval is waited for.
Tick ==
    /\ \/ now < MaxTime
       \/ \E r \in Runs : run[r].stage = "waiting" /\ now < run[r].deadline
    /\ now' = now + 1
    /\ UNCHANGED <<run, chain, orders>>

CowNext ==
    \/ \E r \in Runs :
           \/ Start(r) \/ Prepare(r) \/ AnswerPrompt(r) \/ PostApprove(r)
           \/ Poll(r) \/ Submit(r) \/ Kill(r) \/ Settle(r)
    \/ Deliver
    \/ MineApproval
    \/ Tick

CowSpec == CowInit /\ [][CowNext]_cowVars

\* Time passes, and the wait's loop keeps polling; nothing is assumed of the
\* chain, which may never mine the approval.
FairCowSpec == CowSpec /\ WF_cowVars(Tick) /\ \A r \in Runs : WF_cowVars(Poll(r))

-----------------------------------------------------------------------------
\* Nobody ran the command again after an approval that was not answered.
Careful == \A r \in Runs \ {1} : run[r].stage # "unused" => run[r - 1].told # "unknown"

\* An order that is about to be submitted, or is open, can be settled: its
\* approval was waited for, and no approval of an earlier run, still pending or
\* delivered late, takes the allowance away again.
OrderIsFunded ==
    Careful =>
        \A r \in Runs :
            run[r].stage = "submitting" \/ orders[r] = "open" => allowance >= run[r].amt

\* "once it confirms, re-run the same command: the allowance will already be in
\* place, so no new approval is sent" (the TIMED OUT message).
RerunNeedsNoApproval ==
    [][\A r \in Runs \ {1} :
           LET prepared  == run[r].stage = "quoting" /\ run'[r].stage = "prompt"
               last      == <<r - 1, Len(run[r - 1].plan)>>
               confirmed == run[r - 1].told = "timeout" /\ receipt[last] = "ok"
           IN  prepared /\ confirmed => run'[r].plan = << >>]_cowVars

\* The wait for an approval ends whatever the node does: "a node that never
\* recovers simply runs out the deadline" (wait_for_receipt).
WaitEnds == \A r \in Runs : run[r].stage = "waiting" ~> run[r].stage # "waiting"

\* The order's expiry is "checked again right before submission" (CowOrderPlan):
\* the book never sees an order that has already expired.
SubmitsFresh ==
    [][\A r \in Runs :
           run[r].stage = "submitting" /\ run'[r].told \in {"submitted", "submitfailed"}
               => now < run[r].exp]_cowVars
=============================================================================
