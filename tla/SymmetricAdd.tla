---------------------------- MODULE SymmetricAdd ----------------------------
(***************************************************************************)
(* add-liquidity --symmetric: swap.prepare_symmetric_liquidity builds and  *)
(* gates both legs, cli._confirm_and_execute_symmetric prompts, and         *)
(* swap.execute_symmetric_liquidity broadcasts the protocol leg (a native   *)
(* MsgDeposit of RUNE/CACAO) and then the asset leg (an EVM deposit to the  *)
(* inbound vault).  One user runs the command again when its report says it *)
(* is safe to.                                                             *)
(*                                                                         *)
(* The environment: a cosmos mempool that executes one transaction per      *)
(* account sequence, an EVM chain whose router reverts an expired token     *)
(* deposit, and the protocol that files an unpaired leg as pending, pairs   *)
(* it with what is pending on the other side, or refunds it.               *)
(***************************************************************************)
EXTENDS Naturals, FiniteSets

CONSTANTS
    MaxRuns,      \* bound: how often the command is run
    Rune,         \* RUNE/CACAO in the wallet, in protocol-leg amounts
    Token,        \* TRUE: the asset leg is an ERC-20 router deposit
    DepositLife,  \* how long a built leg is valid (3600 s in the code)
    MaxTime       \* bound on the clock

ASSUME SymAssumption ==
    /\ MaxRuns \in Nat
    /\ Rune \in Nat
    /\ DepositLife \in Nat
    /\ MaxTime \in Nat
    /\ Token \in BOOLEAN

Runs == 1..MaxRuns

VARIABLES
    now,       \* the wall clock
    run,       \* the command's state, per run
    lossy,     \* TRUE once a POST went unanswered or a run was interrupted
    protocol,  \* where each run's protocol leg is
    asset,     \* where each run's asset leg is
    sequence,  \* the protocol account's committed sequence
    rune,      \* the protocol account's balance
    pending,   \* unpaired legs the protocol has filed, per side
    pairs,     \* the adds that were completed: which legs made a position
    refunded   \* the runs whose pending legs were refunded

net  == <<sequence, rune, pending, pairs, refunded>>
vars == <<now, run, lossy, protocol, asset, net>>

Stage == {"unused", "prompt", "protocol", "asset", "ended"}
\* "lost" and "failed" legs can never take effect; an "unheard" one was posted
\* without an answer and may still reach its node.
LegState == {"unsent", "unheard", "taken", "executed", "failed", "lost"}

\* Reports before anything is posted; "failed" is BROADCAST FAILED (nothing
\* was sent); "silent" is no report at all.
Refusals == {"aborted", "gate", "dryrun", "declined"}
Reports  == Refusals \cup {"failed", "partial", "both", "silent", "nothing"}

Init ==
    /\ now = 0
    /\ run = [r \in Runs |-> [stage |-> "unused", told |-> "nothing",
                              exp |-> 0, seq |-> 0]]
    /\ lossy = FALSE
    /\ protocol = [r \in Runs |-> "unsent"]
    /\ asset = [r \in Runs |-> "unsent"]
    /\ sequence = 0
    /\ rune = Rune
    /\ pending = [p |-> {}, a |-> {}]
    /\ pairs = {}
    /\ refunded = {}

-----------------------------------------------------------------------------
\* Faulty variants that the properties reject: a retry right after a PARTIAL
\* ADD.
RerunsAtOnce(r) ==
    /\ run[r].stage = "ended"
    /\ run[r].told \in Refusals \cup {"failed", "partial"}

\* The command's own advice: run again at will when nothing was sent, but
\* after a PARTIAL ADD only once the unpaired leg has been refunded.
MayRerun(r) ==
    /\ run[r].stage = "ended"
    /\ \/ run[r].told \in Refusals \cup {"failed"}
       \/ run[r].told = "partial" /\ r \in refunded

End(r, told) == run' = [run EXCEPT ![r].stage = "ended", ![r].told = told]

\* Checks, then both legs built and gated: a pause, a halt, a missing vault
\* or too little RUNE aborts; the committed sequence and the legs' expiry are
\* fixed here.
Prepare(r) ==
    /\ run[r].stage = "unused"
    /\ \A q \in 1..(r - 1) : MayRerun(q)
    /\ \/ \E told \in {"aborted", "gate", "dryrun"} : End(r, told)
       \/ /\ rune >= 1
          /\ run' = [run EXCEPT ![r].stage = "prompt", ![r].seq = sequence,
                                ![r].exp = now + DepositLife]
    /\ UNCHANGED <<lossy, now, protocol, asset, net>>

\* The prompt; unlike a single-leg deposit no expiry is checked after it.
Answer(r) ==
    /\ run[r].stage = "prompt"
    /\ \/ End(r, "declined")
       \/ run' = [run EXCEPT ![r].stage = "protocol"]
    /\ UNCHANGED <<lossy, now, protocol, asset, net>>

\* Faulty variants of the two POSTs: the asset leg sent although the first POST
\* was not answered; the PARTIAL report swallowed by the BroadcastError arm.
GoesOnUnanswered(r) ==
    /\ run[r].stage = "protocol"
    /\ protocol' = [protocol EXCEPT ![r] = "unheard"]
    /\ run' = [run EXCEPT ![r].stage = "asset"]
    /\ UNCHANGED <<lossy, now, asset, net>>
PartialToldAsFailed(r) ==
    /\ run[r].stage = "asset"
    /\ asset' = [asset EXCEPT ![r] = "failed"]
    /\ End(r, "failed")
    /\ UNCHANGED <<lossy, now, protocol, net>>

\* The first POST.  A node's refusal, and a silent POST alike, are reported as
\* BROADCAST FAILED (nothing was sent); any failure ends the command.
PostProtocol(r) ==
    /\ run[r].stage = "protocol"
    /\ \/ /\ protocol' = [protocol EXCEPT ![r] = "taken"]
          /\ run' = [run EXCEPT ![r].stage = "asset"]
          /\ UNCHANGED lossy
       \/ /\ protocol' = [protocol EXCEPT ![r] = "failed"]
          /\ End(r, "failed")
          /\ UNCHANGED lossy
       \/ /\ protocol' = [protocol EXCEPT ![r] = "unheard"]
          /\ End(r, "failed")
          /\ lossy' = TRUE
    /\ UNCHANGED <<now, asset, net>>

\* The second POST.  Any exception becomes a PARTIAL ADD report.
PostAsset(r) ==
    /\ run[r].stage = "asset"
    /\ \/ /\ asset' = [asset EXCEPT ![r] = "taken"]
          /\ End(r, "both")
          /\ UNCHANGED lossy
       \/ /\ asset' = [asset EXCEPT ![r] = "failed"]
          /\ End(r, "partial")
          /\ UNCHANGED lossy
       \/ /\ asset' = [asset EXCEPT ![r] = "unheard"]
          /\ End(r, "partial")
          /\ lossy' = TRUE
    /\ UNCHANGED <<now, protocol, net>>

\* The user interrupts the command, or it dies: no exception handler runs.
Interrupt(r) ==
    /\ run[r].stage \in {"prompt", "protocol", "asset"}
    /\ End(r, "silent")
    /\ lossy' = TRUE
    /\ UNCHANGED <<now, protocol, asset, net>>

-----------------------------------------------------------------------------
\* The networks.  An unanswered leg is lost, or taken after all.
Arrive(r) ==
    /\ \/ /\ protocol[r] = "unheard"
          /\ \E s \in {"taken", "lost"} : protocol' = [protocol EXCEPT ![r] = s]
          /\ UNCHANGED asset
       \/ /\ asset[r] = "unheard"
          /\ \E s \in {"taken", "lost"} : asset' = [asset EXCEPT ![r] = s]
          /\ UNCHANGED protocol
    /\ UNCHANGED <<lossy, now, run, net>>

\* A leg is filed on its side, or paired with what is pending on the other.
File(side, r) ==
    LET filed == [pending EXCEPT ![side] = @ \cup {r}]
    IN  IF filed.p # {} /\ filed.a # {}
        THEN /\ pairs' = pairs \cup {filed}
             /\ pending' = [p |-> {}, a |-> {}]
        ELSE /\ pending' = filed
             /\ UNCHANGED pairs

\* A MsgDeposit executes if its sequence is the account's next one and the
\* balance covers it; with any other sequence it can never execute.
ExecuteProtocol(r) ==
    /\ protocol[r] = "taken"
    /\ IF run[r].seq = sequence /\ rune >= 1
       THEN /\ protocol' = [protocol EXCEPT ![r] = "executed"]
            /\ sequence' = sequence + 1
            /\ rune' = rune - 1
            /\ File("p", r)
       ELSE /\ protocol' = [protocol EXCEPT ![r] = "lost"]
            /\ UNCHANGED <<sequence, rune, pending, pairs>>
    /\ UNCHANGED <<lossy, now, run, asset, refunded>>

\* A mempool drops a transaction it had accepted.
Drop(r) ==
    /\ protocol[r] = "taken"
    /\ protocol' = [protocol EXCEPT ![r] = "lost"]
    /\ UNCHANGED <<lossy, now, run, asset, net>>

\* An EVM deposit executes; the router reverts an expired token deposit.
ExecuteAsset(r) ==
    /\ asset[r] = "taken"
    /\ IF Token /\ now >= run[r].exp
       THEN /\ asset' = [asset EXCEPT ![r] = "lost"]
            /\ UNCHANGED <<pending, pairs>>
       ELSE /\ asset' = [asset EXCEPT ![r] = "executed"]
            /\ File("a", r)
    /\ UNCHANGED <<lossy, now, run, protocol, sequence, rune, refunded>>

\* The protocol's window ends: whatever is pending goes back.
Refund ==
    /\ pending.p \cup pending.a # {}
    /\ pending' = [p |-> {}, a |-> {}]
    /\ rune' = rune + Cardinality(pending.p)
    /\ refunded' = refunded \cup pending.p \cup pending.a
    /\ UNCHANGED <<lossy, now, run, protocol, asset, sequence, pairs>>

Tick ==
    /\ now < MaxTime
    /\ now' = now + 1
    /\ UNCHANGED <<lossy, run, protocol, asset, net>>

Next ==
    \/ \E r \in Runs :
           \/ Prepare(r) \/ Answer(r) \/ PostProtocol(r) \/ PostAsset(r)
           \/ Interrupt(r) \/ Arrive(r)
           \/ ExecuteProtocol(r) \/ Drop(r) \/ ExecuteAsset(r)
    \/ Refund
    \/ Tick

Spec == Init /\ [][Next]_vars

-----------------------------------------------------------------------------
\* The refinement: a leg is live once its node has taken it.
Out == {"taken", "executed", "lost"}
LiveLegs(r) == {l \in {"protocol", "asset"} :
                    IF l = "protocol" THEN protocol[r] \in Out ELSE asset[r] \in Out}
Outcome(r) ==
    IF run[r].stage # "ended" THEN "open"
    ELSE IF run[r].told \in Refusals THEN "refused"
    ELSE IF run[r].told \in {"failed", "partial"} THEN run[r].told
    ELSE "complete"

Live == [r \in Runs |-> LiveLegs(r)]
Told == [r \in Runs |-> Outcome(r)]

Add == INSTANCE TwoLegAdd WITH Attempts <- Runs, live <- Live, outcome <- Told

\* Up to the first POST that goes unanswered (or interrupt) the command
\* implements the two-leg add: the order protocol-then-asset, no leg behind a refusal, and a
\* half-add reported as PARTIAL (execute_symmetric_liquidity).
ImplementsTwoLegAdd == Add!Init /\ [][lossy' \/ Add!Next]_<<Live, Told>>

\* A position is made of the two legs of one run, never of a refunded run's
\* retry or of two runs' legs, while every POST is answered: the advice printed
\* with PARTIAL ADD and with BROADCAST FAILED is enough to keep the retries from
\* colliding.
OwnLegsPair ==
    ~lossy => \A pair \in pairs : \E r \in Runs : pair = [p |-> {r}, a |-> {r}]

\* With unanswered POSTs and interrupts too, the costly leg is never sent
\* unless the node had acknowledged the cheap one of the same run, and the
\* command posts nothing for a run that it reports as refused.
AssetLegNeverFirst ==
    \A r \in Runs :
        /\ asset[r] # "unsent" => protocol[r] \in Out
        /\ run[r].told \in Refusals => protocol[r] = "unsent"

\* "BROADCAST FAILED (nothing was sent)": a failure of the first leg leaves
\* nothing live.
FailureLeavesNothingLive ==
    \A r \in Runs : run[r].told = "failed" => protocol[r] # "executed"
=============================================================================
