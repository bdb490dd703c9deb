------------------------- MODULE EvmSwapRun_proofs --------------------------
(***************************************************************************)
(* A user who runs the command again only after a report that promises      *)
(* that no deposit is live pays at most once, for any number of terminals   *)
(* and runs, any amounts, any clock, and whatever the node and the chain    *)
(* do with the transactions they were given.                                *)
(***************************************************************************)
EXTENDS EvmSwapRun, FiniteSetTheorems, WellFoundedInduction, TLAPS

\* The user trusts a definite report, and only a definite report.
CarefulUser == Rerun \subseteq Definite

\* The user does not run the command again after a broadcast nobody answered.
WaitsForNews == "unknown" \notin Rerun

Fields == {"stage", "told", "nonce", "amt", "exp", "step"}

\* The command's state is a record per run; its numbers do not matter here.
Shape ==
    /\ DOMAIN run = RunId
    /\ run = [r \in RunId |-> run[r]]
    /\ \A r \in RunId : run[r] = [f \in Fields |-> run[r][f]]

\* A deposit that a node has, or may still get, ended its run without a
\* report that promises that none is live.
DepositsAreTold ==
    \A t \in accepted \cup inflight :
        /\ t.run \in RunId
        /\ t.kind = "deposit" =>
               run[t.run].stage = "ended" /\ run[t.run].told \notin Definite

\* A run that was started comes after runs that all ended with a report the
\* user trusts.
StartedInOrder ==
    \A r \in RunId : run[r].stage # "unused" =>
        \A k \in 1..(r[2] - 1) :
            run[<<r[1], k>>].stage = "ended" /\ run[<<r[1], k>>].told \in Rerun

\* What is mined was in the mempool, and what is in the mempool was taken in.
FromTheMempool ==
    /\ pool \subseteq accepted
    /\ chain \in Seq([tx: accepted, ok: BOOLEAN])

PayInv == Shape /\ DepositsAreTold /\ StartedInOrder /\ FromTheMempool

\* Before anything runs, nothing is out.
LEMMA InitPayInv == Init => PayInv
  BY DEF Init, PayInv, Shape, Fields, DepositsAreTold, StartedInOrder, FromTheMempool

\* A step of one run: an ended run stays as it is.
EndedStays == \A r \in RunId : run[r].stage = "ended" => run'[r] = run[r]

\* A run that starts, or goes on, comes after the earlier ones of its terminal as
\* before.
LEMMA OrderKept ==
    ASSUME StartedInOrder, EndedStays, NEW r \in RunId,
           \A q \in RunId \ {r} : run'[q] = run[q],
           run[r].stage # "unused" \/ run'[r].stage = "unused"
    PROVE  StartedInOrder'
<1> SUFFICES ASSUME NEW q \in RunId, run'[q].stage # "unused",
                    NEW k \in 1..(q[2] - 1)
             PROVE  run'[<<q[1], k>>].stage = "ended" /\ run'[<<q[1], k>>].told \in Rerun
  BY DEF StartedInOrder
<1>1. run[q].stage # "unused"
  OBVIOUS
<1>2. run[<<q[1], k>>].stage = "ended" /\ run[<<q[1], k>>].told \in Rerun
  BY <1>1 DEF StartedInOrder
<1>3. <<q[1], k>> \in RunId
  BY EvmAssumption DEF RunId
<1> QED
  BY <1>2, <1>3 DEF EndedStays

\* The forms a command's move takes: the run ends, or it goes to a stage with
\* some of its numbers set.
LEMMA EndMoves ==
    ASSUME Shape, NEW r \in RunId, NEW told, End(r, told)
    PROVE  /\ Shape'
           /\ run'[r].stage = "ended" /\ run'[r].told = told
           /\ \A q \in RunId \ {r} : run'[q] = run[q]
<1>1. DOMAIN run = RunId /\ \A q \in RunId : DOMAIN run[q] = Fields
  BY DEF Shape
<1>2. run' = [q \in RunId |->
                IF q = r THEN [f \in Fields |-> IF f = "told" THEN told
                                                ELSE IF f = "stage" THEN "ended"
                                                ELSE run[r][f]]
                ELSE run[q]]
  BY <1>1 DEF End, Shape, Fields
<1> QED
  BY <1>2 DEF Shape, Fields

\* Such moves, from a stage that is not the last one, disturb neither the order
\* of the runs nor what is known of the deposits that are out.
LEMMA CommandMoves ==
    ASSUME PayInv, NEW r \in RunId, Shape',
           run[r].stage \notin {"unused", "ended"},
           \A q \in RunId \ {r} : run'[q] = run[q],
           UNCHANGED <<pool, chain, accepted>>,
           inflight' \subseteq inflight
    PROVE  PayInv'
<1>1. DepositsAreTold'
  BY DEF PayInv, DepositsAreTold
<1>2. StartedInOrder'
  <2>1. EndedStays
    BY DEF EndedStays
  <2> QED
    BY <2>1, OrderKept DEF PayInv
<1>3. FromTheMempool'
  BY DEF PayInv, FromTheMempool
<1> QED
  BY <1>1, <1>2, <1>3 DEF PayInv

\* What was mined of a smaller mempool was mined of a larger one.
LEMMA SeqGrows ==
    ASSUME NEW S, NEW T, S \subseteq T, NEW s \in Seq(S)
    PROVE  s \in Seq(T)
<1>1. \A i \in 1..Len(s) : s[i] \in T
  OBVIOUS
<1> QED
  BY <1>1

\* A mined transaction is one the network took in.
LEMMA SeqElement ==
    ASSUME NEW S, NEW s \in Seq(S), NEW i \in DOMAIN s
    PROVE  s[i] \in S
  OBVIOUS

\* A node takes a transaction in, or the client gives up on one, and the run
\* whose transaction it is may move: the deposits that are out stay told.
LEMMA TakenIn ==
    ASSUME PayInv, NEW t, TakesIn(t)
    PROVE  /\ pool' \subseteq accepted'
           /\ accepted' = accepted \cup {t}
           /\ chain \in Seq([tx: accepted', ok: BOOLEAN])
<1>1. pool' \subseteq accepted' /\ accepted' = accepted \cup {t}
  BY DEF TakesIn, PayInv, FromTheMempool
<1>2. [tx: accepted, ok: BOOLEAN] \subseteq [tx: accepted', ok: BOOLEAN]
  BY <1>1
<1>3. chain \in Seq([tx: accepted, ok: BOOLEAN])
  BY DEF PayInv, FromTheMempool
<1>4. chain \in Seq([tx: accepted', ok: BOOLEAN])
  BY <1>2, <1>3, SeqGrows
<1> QED
  BY <1>1, <1>4

\* A POST keeps the invariant, whichever of its three answers it gets.
LEMMA PostMoves ==
    ASSUME PayInv, NEW r \in RunId, Post(r)
    PROVE  PayInv'
<1> USE DEF PayInv
<1>1. run[r].stage = "sending"
  BY DEF Post, PostAcked, PostRejected, PostUnanswered
<1>2. CASE PostRejected(r)
  BY <1>1, <1>2, EndMoves, CommandMoves DEF PostRejected
<1> DEFINE t == TxOf(r, run[r].step)
<1>3. t.run = r /\ (t.kind = "deposit" => run[r].step = LastStep)
  BY DEF TxOf
<1>4. CASE PostAcked(r)
  <2>1. /\ Shape'
        /\ \A q \in RunId \ {r} : run'[q] = run[q]
        /\ run'[r].stage # "unused"
        /\ t.kind = "deposit" => run'[r].stage = "ended" /\ run'[r].told = "sent"
    <3>1. CASE run[r].step = LastStep
      BY <1>4, <3>1, EndMoves DEF PostAcked
    <3>2. CASE run[r].step # LastStep
      <4>1. run' = [run EXCEPT ![r].step = @ + 1]
        BY <1>4, <3>2 DEF PostAcked
      <4> HIDE DEF t
      <4>2. /\ Shape'
            /\ \A q \in RunId \ {r} : run'[q] = run[q]
            /\ run'[r].stage = run[r].stage
        BY <4>1 DEF Shape, Fields
      <4> QED
        BY <1>1, <1>3, <3>2, <4>2
    <3> QED
      BY <3>1, <3>2
  <2>2. /\ accepted' = accepted \cup {t} /\ pool' \subseteq accepted'
        /\ inflight' = inflight
        /\ chain' \in Seq([tx: accepted', ok: BOOLEAN])
    BY <1>4, TakenIn DEF PostAcked
  <2>3. StartedInOrder'
    <3>1. EndedStays
      BY <1>1, <2>1 DEF EndedStays
    <3> QED
      BY <1>1, <2>1, <3>1, OrderKept
  <2>4. DepositsAreTold'
    <3> HIDE DEF t
    <3> QED
      BY <1>1, <1>3, <2>1, <2>2 DEF DepositsAreTold, Definite, NothingPosted
  <2> QED
    BY <2>1, <2>2, <2>3, <2>4 DEF FromTheMempool
<1>5. CASE PostUnanswered(r)
  <2>1. End(r, "unknown")
    BY <1>5 DEF PostUnanswered
  <2>2. /\ Shape'
        /\ run'[r].stage = "ended" /\ run'[r].told = "unknown"
        /\ \A q \in RunId \ {r} : run'[q] = run[q]
    BY <2>1, EndMoves
  <2>3. UNCHANGED <<pool, chain, accepted>> /\ inflight' = inflight \cup {t}
    BY <1>5 DEF PostUnanswered
  <2>4. StartedInOrder'
    <3>1. EndedStays
      BY <1>1, <2>2 DEF EndedStays
    <3> QED
      BY <1>1, <2>2, <3>1, OrderKept
  <2>5. DepositsAreTold'
    <3> HIDE DEF t
    <3> QED
      BY <1>1, <1>3, <2>2, <2>3 DEF DepositsAreTold, Definite, NothingPosted
  <2> QED
    BY <2>2, <2>3, <2>4, <2>5 DEF FromTheMempool
<1> QED
  BY <1>2, <1>4, <1>5 DEF Post

\* The run goes on to the next stage, its expiry set or not.
LEMMA StageMoves ==
    ASSUME Shape, NEW r \in RunId, NEW s, NEW e,
           \/ run' = [run EXCEPT ![r].stage = s]
           \/ run' = [run EXCEPT ![r].stage = s, ![r].exp = e]
    PROVE  /\ Shape'
           /\ run'[r].stage = s
           /\ \A q \in RunId \ {r} : run'[q] = run[q]
<1>1. CASE run' = [run EXCEPT ![r].stage = s]
  BY <1>1 DEF Shape, Fields
<1>2. CASE run' = [run EXCEPT ![r].stage = s, ![r].exp = e]
  BY <1>2 DEF Shape, Fields
<1> QED
  BY <1>1, <1>2

\* A swap started after a definite report keeps the invariant: no deposit of an
\* earlier run is out.
LEMMA StartMoves ==
    ASSUME PayInv, NEW r \in RunId, Start(r)
    PROVE  PayInv'
<1> USE DEF PayInv
<1>1. PICK a \in Amounts : run' = [run EXCEPT ![r].stage = "quoting", ![r].amt = a,
                                              ![r].nonce = PendingNonce]
  BY DEF Start
<1>2. Shape' /\ \A q \in RunId \ {r} : run'[q] = run[q]
  BY <1>1 DEF Shape, Fields
<1>3. EndedStays
  BY <1>2 DEF EndedStays, Start
<1>4. DepositsAreTold'
  BY <1>3 DEF DepositsAreTold, EndedStays, Start
<1>5. StartedInOrder'
  <2> SUFFICES ASSUME NEW q \in RunId, run'[q].stage # "unused",
                      NEW k \in 1..(q[2] - 1)
               PROVE  run'[<<q[1], k>>].stage = "ended" /\ run'[<<q[1], k>>].told \in Rerun
    BY DEF StartedInOrder
  <2>1. run[<<q[1], k>>].stage = "ended" /\ run[<<q[1], k>>].told \in Rerun
    <3>1. CASE q = r
      BY <3>1 DEF Start
    <3>2. CASE q # r
      BY <1>2, <3>2 DEF StartedInOrder
    <3> QED
      BY <3>1, <3>2
  <2>2. <<q[1], k>> \in RunId
    BY EvmAssumption DEF RunId
  <2> QED
    BY <1>3, <2>1, <2>2 DEF EndedStays
<1>6. FromTheMempool'
  BY DEF Start, FromTheMempool
<1> QED
  BY <1>2, <1>4, <1>5, <1>6

\* The chain executes or reverts the transaction with the next nonce.
Mined(t, ok) ==
    /\ t.nonce = Len(chain) /\ pool' = pool \ {t}
    /\ chain' = Append(chain, [tx |-> t, ok |-> ok])
    /\ UNCHANGED <<now, run, inflight, accepted>>
    /\ allowance' = IF ~ (Token /\ ok) THEN allowance
                    ELSE IF t.kind = "approve" THEN t.amt ELSE allowance - t.amt

LEMMA MinesOne ==
    ASSUME Mine
    PROVE  \E t \in pool, ok \in BOOLEAN : Mined(t, ok) /\ ok = Executes(t)
<1>1. PICK t \in pool :
        /\ t.nonce = Len(chain)
        /\ pool' = pool \ {t}
        /\ chain' = Append(chain, [tx |-> t, ok |-> Executes(t)])
        /\ allowance' = IF ~ (Token /\ Executes(t)) THEN allowance
                        ELSE IF t.kind = "approve" THEN t.amt
                        ELSE allowance - t.amt
        /\ UNCHANGED <<now, run, inflight, accepted>>
  BY DEF Mine
<1>2. PICK ok \in BOOLEAN : ok = Executes(t)
  BY EvmAssumption DEF Executes
<1>3. Mined(t, ok)
  BY <1>1, <1>2 DEF Mined
<1> QED
  BY <1>2, <1>3

\* Every step of the swaps, the mempool and the chain keeps it.
LEMMA NextPayInv == PayInv /\ [Next]_vars => PayInv'
<1> SUFFICES ASSUME PayInv, [Next]_vars PROVE PayInv'
  OBVIOUS
<1>1. ASSUME NEW r \in RunId, Start(r) PROVE PayInv'
  BY <1>1, StartMoves
<1>2. ASSUME NEW r \in RunId, PrepareAborts(r) \/ Decline(r) \/ Kill(r) PROVE PayInv'
  <2>1. PICK told : End(r, told)
    BY <1>2 DEF PrepareAborts, Decline, Kill
  <2>2. UNCHANGED <<pool, chain, inflight, accepted>> /\ run[r].stage \notin {"unused", "ended"}
    BY <1>2 DEF PrepareAborts, Decline, Kill
  <2> QED
    BY <2>1, <2>2, EndMoves, CommandMoves DEF PayInv
<1>3. ASSUME NEW r \in RunId, Prepare(r) \/ Confirm(r) PROVE PayInv'
  <2>1. UNCHANGED <<pool, chain, inflight, accepted>> /\ run[r].stage \notin {"unused", "ended"}
    BY <1>3 DEF Prepare, Confirm
  <2>2. CASE \E told : End(r, told)
    BY <2>1, <2>2, EndMoves, CommandMoves DEF PayInv
  <2>3. CASE \/ run' = [run EXCEPT ![r].stage = "prompt", ![r].exp = now + QuoteLife]
             \/ run' = [run EXCEPT ![r].stage = "sending"]
    BY <2>1, <2>3, StageMoves, CommandMoves DEF PayInv
  <2> QED
    BY <1>3, <2>2, <2>3 DEF Prepare, Confirm
<1>4. ASSUME NEW r \in RunId, Post(r) PROVE PayInv'
  BY <1>4, PostMoves
<1>5. CASE Deliver
  <2>1. PICK t \in inflight : TakesIn(t) /\ inflight' = inflight \ {t}
                              /\ UNCHANGED <<now, run, chain, allowance>>
    BY <1>5 DEF Deliver
  <2>2. FromTheMempool' /\ accepted' = accepted \cup {t}
    BY <2>1, TakenIn DEF FromTheMempool
  <2>3. DepositsAreTold'
    BY <2>1, <2>2 DEF PayInv, DepositsAreTold
  <2>4. Shape'
    BY <2>1 DEF PayInv, Shape
  <2>5. StartedInOrder'
    BY <2>1 DEF PayInv, StartedInOrder
  <2> QED
    BY <2>2, <2>3, <2>4, <2>5 DEF PayInv
<1>6. CASE Mine
  <2>1. PICK t \in pool, ok \in BOOLEAN : Mined(t, ok)
    BY <1>6, MinesOne
  <2>2. pool' \subseteq pool /\ UNCHANGED <<now, run, inflight, accepted>>
    BY <1>6 DEF Mine
  <2>3. chain' \in Seq([tx: accepted, ok: BOOLEAN])
    <3>1. [tx |-> t, ok |-> ok] \in [tx: accepted, ok: BOOLEAN]
      BY DEF PayInv, FromTheMempool
    <3> QED
      BY <2>1, <3>1 DEF PayInv, FromTheMempool, Mined
  <2>4. Shape'
    BY <2>2 DEF PayInv, Shape
  <2>5. DepositsAreTold'
    BY <2>2 DEF PayInv, DepositsAreTold
  <2>6. StartedInOrder'
    BY <2>2 DEF PayInv, StartedInOrder
  <2>7. FromTheMempool'
    BY <2>2, <2>3 DEF PayInv, FromTheMempool
  <2> QED
    BY <2>4, <2>5, <2>6, <2>7 DEF PayInv
<1>7. CASE Tick \/ UNCHANGED vars
  <2>1. UNCHANGED <<run, pool, chain, inflight, accepted>>
    BY <1>7 DEF Tick, vars
  <2>2. Shape'
    BY <2>1 DEF PayInv, Shape
  <2>3. DepositsAreTold'
    BY <2>1 DEF PayInv, DepositsAreTold
  <2>4. StartedInOrder'
    BY <2>1 DEF PayInv, StartedInOrder
  <2>5. FromTheMempool'
    BY <2>1 DEF PayInv, FromTheMempool
  <2> QED
    BY <2>2, <2>3, <2>4, <2>5 DEF PayInv
<1> QED
  BY <1>1, <1>2, <1>3, <1>4, <1>5, <1>6, <1>7 DEF Next

\* Of two runs of one terminal that paid, the earlier had ended with a report
\* the user trusts, so its deposit was out nowhere.
LEMMA PaidOnceFollows == CarefulUser /\ PayInv => PaidOnce
<1> SUFFICES ASSUME CarefulUser, PayInv,
                    NEW r \in Paid, NEW s \in Paid, r[1] = s[1], r # s
             PROVE  FALSE
  BY DEF PaidOnce
<1>1. ASSUME NEW q \in Paid
      PROVE  q \in RunId /\ run[q].stage = "ended" /\ run[q].told \notin Definite
  <2>1. PICK i \in DOMAIN chain : chain[i].tx.run = q /\ chain[i].tx.kind = "deposit"
    BY DEF Paid
  <2>2. chain[i].tx \in accepted
    <3>1. chain \in Seq([tx: accepted, ok: BOOLEAN])
      BY DEF PayInv, FromTheMempool
    <3>2. chain[i] \in [tx: accepted, ok: BOOLEAN]
      BY <3>1, SeqElement
    <3> QED
      BY <3>2
  <2> QED
    BY <2>1, <2>2 DEF PayInv, DepositsAreTold
<1>2. ASSUME NEW p \in Paid, NEW q \in Paid, p[1] = q[1], p[2] < q[2]
      PROVE  FALSE
  <2>1. p \in RunId /\ q \in RunId
    BY <1>1
  <2>2. p[2] \in 1..(q[2] - 1) /\ p = <<q[1], p[2]>>
    BY <1>2, <2>1, EvmAssumption DEF RunId
  <2>3. run[q].stage # "unused"
    BY <1>1
  <2>4. run[p].told \in Rerun
    BY <2>1, <2>2, <2>3 DEF PayInv, StartedInOrder
  <2> QED
    BY <1>1, <2>4 DEF CarefulUser
<1>3. r[2] < s[2] \/ s[2] < r[2]
  <2>1. r \in RunId /\ s \in RunId
    BY <1>1
  <2> QED
    BY <2>1, EvmAssumption DEF RunId
<1> QED
  BY <1>2, <1>3

\* One intent is paid at most once: the gate, the prompt and the expiry check
\* come before the first POST, the deposit is the last thing that broadcast
\* posts, and no report that promises otherwise is given once it was posted.
THEOREM IntentPaidOnce ==
    ASSUME CarefulUser
    PROVE  Spec => []PaidOnce
<1>1. PayInv => PaidOnce
  BY PaidOnceFollows
<1> QED
  BY <1>1, InitPayInv, NextPayInv, PTL DEF Spec

-----------------------------------------------------------------------------
\* What the command holds of a run, numbers and all.
Record == [stage : Stage, told : Reports \cup {"nothing"}, nonce : Nat, amt : Nat,
           exp : Nat, step : 1..LastStep]
Typed  == now \in Nat /\ run \in [RunId -> Record]

\* The one run that moves, and how.
Others(r) == \A q \in RunId \ {r} : run'[q] = run[q]
Signs(r)  == /\ run'[r].nonce = run[r].nonce /\ run'[r].amt = run[r].amt
             /\ run'[r].exp = run[r].exp
Network   == <<pool, chain, allowance, inflight, accepted>>

\* The command goes on or ends without anything leaving it.
Talks(r) ==
    /\ UNCHANGED Network /\ Others(r)
    /\ run'[r].step = run[r].step /\ run'[r].nonce = run[r].nonce
    /\ \/ /\ run[r].stage \in {"quoting", "prompt"}
          /\ \/ run'[r].stage \in {"prompt", "sending"}
             \/ run'[r].stage = "ended" /\ run'[r].told \in {"refused", "unknown"}
       \/ /\ run[r].stage = "sending" /\ Signs(r)
          /\ run'[r].stage = "ended" /\ run'[r].told \in {"rejected", "unknown"}

\* One transaction has been posted: it is acknowledged, or never answered.
Acknowledged(r) ==
    /\ run[r].stage = "sending" /\ Others(r) /\ Signs(r)
    /\ TakesIn(TxOf(r, run[r].step))
    /\ \/ /\ run[r].step = LastStep /\ run'[r].step = LastStep
          /\ run'[r].stage = "ended" /\ run'[r].told = "sent"
       \/ /\ run[r].step < LastStep /\ run'[r].step = run[r].step + 1
          /\ run'[r].stage = "sending"
    /\ UNCHANGED <<chain, allowance, inflight>>
GivenUp(r) ==
    /\ run[r].stage = "sending" /\ Others(r) /\ Signs(r)
    /\ run'[r].step = run[r].step
    /\ run'[r].stage = "ended" /\ run'[r].told = "unknown"
    /\ inflight' = inflight \cup {TxOf(r, run[r].step)}
    /\ UNCHANGED <<pool, chain, allowance, accepted>>

Begins(r) ==
    /\ Start(r) /\ Others(r)
    /\ run'[r].stage = "quoting" /\ run'[r].nonce = PendingNonce
    /\ run'[r].step = run[r].step

\* A run's record changes, and the others stay.
LEMMA RecordMoves ==
    ASSUME run \in [RunId -> Record], NEW r \in RunId, NEW new \in Record,
           run' = [run EXCEPT ![r] = new]
    PROVE  run' \in [RunId -> Record] /\ run'[r] = new /\ Others(r)
  BY DEF Others

\* A run that ends keeps its numbers.
LEMMA EndTyped ==
    ASSUME run \in [RunId -> Record], NEW r \in RunId,
           NEW told \in Reports, End(r, told)
    PROVE  /\ run' \in [RunId -> Record] /\ Others(r) /\ Signs(r)
           /\ run'[r].step = run[r].step
           /\ run'[r].stage = "ended" /\ run'[r].told = told
<1> DEFINE new == [run[r] EXCEPT !.stage = "ended", !.told = told]
<1>1. run[r] \in Record
  OBVIOUS
<1>2. new \in Record
  BY <1>1 DEF Record, Stage
<1>3. run' = [run EXCEPT ![r] = new]
  BY DEF End
<1>4. run' \in [RunId -> Record] /\ run'[r] = new /\ Others(r)
  BY <1>2, <1>3, RecordMoves
<1>5. /\ new.stage = "ended" /\ new.told = told /\ new.nonce = run[r].nonce
      /\ new.amt = run[r].amt /\ new.exp = run[r].exp /\ new.step = run[r].step
  BY <1>1 DEF Record
<1> QED
  BY <1>4, <1>5 DEF Signs

\* Preparing, declining, confirming, a refused POST and a kill are such moves.
LEMMA TalkSteps ==
    ASSUME Typed, NEW r \in RunId,
           \/ PrepareAborts(r) \/ Prepare(r) \/ Decline(r) \/ Confirm(r)
           \/ PostRejected(r) \/ Kill(r)
    PROVE  Typed' /\ Talks(r)
<1>1. now' = now /\ UNCHANGED Network
  BY DEF PrepareAborts, Prepare, Decline, Confirm, PostRejected, Kill, Network
<1>2. run[r] \in Record /\ run \in [RunId -> Record]
  BY DEF Typed
<1>3. {"refused", "rejected", "unknown"} \subseteq Reports
  BY DEF Reports, Definite, NothingPosted
<1>4. ASSUME NEW told \in {"refused", "unknown"}, End(r, told),
             run[r].stage \in {"quoting", "prompt"}
      PROVE  Typed' /\ Talks(r)
  BY <1>1, <1>2, <1>3, <1>4, EndTyped DEF Typed, Talks, Signs
<1>5. ASSUME NEW told \in {"rejected", "unknown"}, End(r, told),
             run[r].stage = "sending"
      PROVE  Typed' /\ Talks(r)
  BY <1>1, <1>2, <1>3, <1>5, EndTyped DEF Typed, Talks, Signs
<1>6. CASE run[r].stage = "quoting"
           /\ run' = [run EXCEPT ![r].stage = "prompt", ![r].exp = now + QuoteLife]
  <2> DEFINE new == [run[r] EXCEPT !.stage = "prompt", !.exp = now + QuoteLife]
  <2>0. now + QuoteLife \in Nat
    BY EvmAssumption DEF Typed
  <2>1. new \in Record
    BY <1>2, <2>0 DEF Record, Stage
  <2>2. run' \in [RunId -> Record] /\ run'[r] = new /\ Others(r)
    <3>1. run' = [run EXCEPT ![r] = new]
      BY <1>6
    <3> HIDE DEF new
    <3> QED
      BY <1>2, <2>1, <3>1, RecordMoves
  <2>3. new.stage = "prompt" /\ new.step = run[r].step /\ new.nonce = run[r].nonce
    BY <1>2 DEF Record
  <2> QED
    BY <1>1, <1>6, <2>2, <2>3 DEF Typed, Talks
<1>7. CASE run[r].stage = "prompt" /\ run' = [run EXCEPT ![r].stage = "sending"]
  <2> DEFINE new == [run[r] EXCEPT !.stage = "sending"]
  <2>1. new \in Record
    BY <1>2 DEF Record, Stage
  <2>2. run' \in [RunId -> Record] /\ run'[r] = new /\ Others(r)
    <3>1. run' = [run EXCEPT ![r] = new]
      BY <1>7
    <3> HIDE DEF new
    <3> QED
      BY <1>2, <2>1, <3>1, RecordMoves
  <2>3. new.stage = "sending" /\ new.step = run[r].step /\ new.nonce = run[r].nonce
    BY <1>2 DEF Record
  <2> QED
    BY <1>1, <1>7, <2>2, <2>3 DEF Typed, Talks
<1>8. CASE PrepareAborts(r) \/ Prepare(r)
  BY <1>4, <1>6, <1>8 DEF PrepareAborts, Prepare
<1>9. CASE Decline(r) \/ Confirm(r)
  BY <1>4, <1>7, <1>9 DEF Decline, Confirm
<1>10. CASE PostRejected(r) \/ Kill(r)
  BY <1>4, <1>5, <1>10 DEF PostRejected, Kill
<1> QED
  BY <1>8, <1>9, <1>10

\* So are a POST that is answered, one that is not, and a start.
LEMMA PostSteps ==
    ASSUME Typed, NEW r \in RunId, PostAcked(r) \/ PostUnanswered(r)
    PROVE  Typed' /\ (Acknowledged(r) \/ GivenUp(r))
<1>1. run[r] \in Record /\ run \in [RunId -> Record]
  BY DEF Typed
<1>2. {"sent", "unknown"} \subseteq Reports
  BY DEF Reports, Definite, NothingPosted
<1>3. run[r].step \in 1..LastStep /\ LastStep \in {1, 2}
  BY <1>1 DEF Record, LastStep
<1>4. CASE PostUnanswered(r)
  BY <1>1, <1>2, <1>4, EndTyped DEF PostUnanswered, Typed, GivenUp
<1>5. CASE PostAcked(r) /\ run[r].step = LastStep
  BY <1>1, <1>2, <1>5, EndTyped DEF PostAcked, Typed, Acknowledged
<1>6. CASE PostAcked(r) /\ run[r].step # LastStep
  <2> DEFINE new == [run[r] EXCEPT !.step = @ + 1]
  <2>1. run[r].step < LastStep /\ run[r].step + 1 \in 1..LastStep
    BY <1>3, <1>6
  <2>2. new \in Record
    BY <1>1, <2>1 DEF Record
  <2>3. run' = [run EXCEPT ![r] = new]
    BY <1>6 DEF PostAcked
  <2>4. run' \in [RunId -> Record] /\ run'[r] = new /\ Others(r)
    BY <1>1, <2>2, <2>3, RecordMoves
  <2>5. /\ new.stage = run[r].stage /\ new.step = run[r].step + 1
        /\ new.nonce = run[r].nonce /\ new.amt = run[r].amt /\ new.exp = run[r].exp
    BY <1>1 DEF Record
  <2> QED
    BY <1>6, <2>1, <2>4, <2>5 DEF PostAcked, Typed, Acknowledged, Signs
<1> QED
  BY <1>4, <1>5, <1>6

\* The step of get_nonce: a run begins, with the nonce that the node tells, and
\* nothing else changes.
LEMMA StartSteps ==
    ASSUME Typed, PendingNonce \in Nat, NEW r \in RunId, Start(r)
    PROVE  Typed' /\ Begins(r)
<1>1. run[r] \in Record /\ run \in [RunId -> Record] /\ Amounts \subseteq Nat
  BY EvmAssumption DEF Typed
<1>2. PICK a \in Amounts : run' = [run EXCEPT ![r].stage = "quoting", ![r].amt = a,
                                              ![r].nonce = PendingNonce]
  BY DEF Start
<1> DEFINE new == [run[r] EXCEPT !.stage = "quoting", !.amt = a, !.nonce = PendingNonce]
<1>3. new \in Record
  BY <1>1 DEF Record, Stage
<1>4. run' \in [RunId -> Record] /\ run'[r] = new /\ Others(r)
  <2>1. run' = [run EXCEPT ![r] = new]
    BY <1>2
  <2> HIDE DEF new
  <2> QED
    BY <1>1, <1>3, <2>1, RecordMoves
<1>5. /\ new.stage = "quoting" /\ new.nonce = PendingNonce /\ new.step = run[r].step
  BY <1>1 DEF Record
<1> QED
  BY <1>4, <1>5 DEF Start, Typed, Begins

-----------------------------------------------------------------------------
\* What is signed for a run, and where: nothing before it sends, then its
\* transactions in order, and only an unanswered one is still under way.
Signed ==
    /\ \A t \in accepted \cup inflight :
        /\ t.run \in RunId
        /\ run[t.run].stage \in {"sending", "ended"}
        /\ \E s \in 1..run[t.run].step :
              /\ t = TxOf(t.run, s)
              /\ run[t.run].stage = "sending" => s < run[t.run].step
    /\ \A t \in inflight : run[t.run].stage = "ended" /\ run[t.run].told = "unknown"

\* What a run has had accepted, and has not.
Posted ==
    \A r \in RunId :
        /\ run[r].stage \notin {"sending", "ended"} => run[r].step = 1
        /\ run[r].stage = "sending" =>
               \A s \in 1..(run[r].step - 1) : TxOf(r, s) \in accepted
        /\ (run[r].stage = "ended" /\ run[r].told = "sent") =>
               \A s \in 1..LastStep : TxOf(r, s) \in accepted
        /\ (run[r].stage = "ended" /\ run[r].told = "refused") =>
               \A t \in accepted \cup inflight : t.run # r

\* A nonce no later transaction waits for: mined, or in the mempool.
Covered(n) == n < Len(chain) \/ \E u \in pool : u.nonce = n
Started    == {r \in RunId : run[r].stage # "unused"}

\* Every run takes two nonces at most, so they are never out of reach, and
\* none is skipped.
Bounded ==
    /\ IsFiniteSet(Started) /\ Cardinality(Started) <= MaxRuns
    /\ Len(chain) <= 2 * Cardinality(Started)
    /\ \A r \in Started : run[r].nonce + 2 <= 2 * Cardinality(Started)
Gapless == \A r \in Started : \A n \in 0..(run[r].nonce + run[r].step - 2) : Covered(n)
Queued  == /\ \A t \in pool : t.nonce >= Len(chain)
           /\ \A t, u \in pool : t.nonce = u.nonce => t = u

RunInv == /\ PayInv /\ Typed /\ Signed /\ Posted
          /\ Bounded /\ Gapless /\ Queued

\* A set of natural numbers has a least one.
LEMMA LeastOf ==
    ASSUME NEW T, T \subseteq Nat, NEW top \in T
    PROVE  \E x \in T : \A y \in T : x <= y
<1>1. \E x \in T : \A y \in T : ~ (<<y, x>> \in OpToRel(<, Nat))
  BY NatLessThanWellFounded, WFMin
<1>2. PICK x \in T : \A y \in T : ~ (<<y, x>> \in OpToRel(<, Nat))
  BY <1>1
<1>3. ASSUME NEW y \in T PROVE x <= y
  <2>1. x \in Nat /\ y \in Nat
    OBVIOUS
  <2>2. ~ (<<y, x>> \in OpToRel(<, Nat))
    BY <1>2
  <2>3. ~ (y < x)
    BY <2>1, <2>2 DEF OpToRel
  <2> QED
    BY <2>1, <2>3
<1> QED
  BY <1>2, <1>3

\* The chain has a length.
LEMMA ChainLength ==
    ASSUME PayInv
    PROVE  Len(chain) \in Nat /\ DOMAIN chain = 1..Len(chain)
  BY DEF PayInv, FromTheMempool

\* What is out was signed with a nonce of its run.
LEMMA NonceOf ==
    ASSUME Typed, Signed, NEW t \in accepted \cup inflight
    PROVE  /\ t.run \in Started /\ t.nonce \in Nat
           /\ t.nonce <= run[t.run].nonce + run[t.run].step - 1
           /\ t.nonce <= run[t.run].nonce + 1
           /\ run[t.run].nonce <= t.nonce
<1>1. t.run \in RunId /\ run[t.run].stage \in {"sending", "ended"}
  BY DEF Signed
<1>2. PICK s \in 1..run[t.run].step : t = TxOf(t.run, s)
  BY DEF Signed
<1>3. run[t.run] \in Record
  BY <1>1 DEF Typed
<1>4. run[t.run].nonce \in Nat /\ run[t.run].step \in 1..LastStep /\ LastStep \in {1, 2}
  BY <1>3 DEF Record, LastStep
<1>5. t.nonce = run[t.run].nonce + s - 1
  <2>1. TxOf(t.run, s).nonce = run[t.run].nonce + s - 1
    BY DEF TxOf
  <2> QED
    BY <1>2, <2>1
<1>6. t.run \in Started
  BY <1>1 DEF Started
<1> QED
  BY <1>2, <1>4, <1>5, <1>6

\* The node always has a next nonce to name: the first that is neither mined
\* nor taken.
LEMMA NextNonce ==
    ASSUME RunInv
    PROVE  /\ PendingNonce \in Nat /\ Len(chain) <= PendingNonce
           /\ PendingNonce <= 2 * Cardinality(Started)
           /\ \A t \in pool : t.nonce # PendingNonce
           /\ \A n \in 0..(PendingNonce - 1) : Covered(n)
<1> DEFINE Free(n) == n >= Len(chain) /\ \A t \in pool : t.nonce # n
           top == 2 * Cardinality(Started)
           T == {n \in Nat : Free(n)}
           bound == Len(chain) + 2 * MaxRuns * MaxRuns + 2
<1>1. Cardinality(Started) \in Nat /\ MaxRuns \in Nat /\ Cardinality(Started) <= MaxRuns
  BY FS_CardinalityType, EvmAssumption DEF RunInv, Bounded
<1>2. Len(chain) \in Nat /\ Len(chain) <= top
  BY ChainLength DEF RunInv, Bounded
<1>3. \A t \in pool : t.nonce < top
  <2> SUFFICES ASSUME NEW t \in pool PROVE t.nonce < top
    OBVIOUS
  <2>1. t \in accepted
    BY DEF RunInv, PayInv, FromTheMempool
  <2>2. t.run \in Started /\ t.nonce \in Nat /\ t.nonce <= run[t.run].nonce + 1
    BY <2>1, NonceOf DEF RunInv
  <2>3. run[t.run].nonce \in Nat
    <3>1. run[t.run] \in Record
      BY <2>2 DEF RunInv, Typed, Started
    <3> QED
      BY <3>1 DEF Record
  <2>4. run[t.run].nonce + 2 <= top
    BY <2>2 DEF RunInv, Bounded
  <2> HIDE DEF top
  <2> QED
    BY <1>1, <2>2, <2>3, <2>4 DEF top
<1>4. top \in T
  <2>1. \A t \in pool : t.nonce # top
    <3> SUFFICES ASSUME NEW t \in pool, t.nonce = top PROVE FALSE
      OBVIOUS
    <3>1. top < top
      BY <1>3
    <3> QED
      BY <1>1, <3>1
  <2> QED
    BY <1>1, <1>2, <2>1
<1>5. top <= bound
  <2>1. MaxRuns <= MaxRuns * MaxRuns /\ MaxRuns * MaxRuns \in Nat
    BY <1>1
  <2>2. 2 * MaxRuns * MaxRuns = 2 * (MaxRuns * MaxRuns)
    BY <1>1
  <2> QED
    BY <1>1, <1>2, <2>1, <2>2
<1> HIDE DEF top, bound
<1>6. PICK x \in T : \A y \in T : x <= y
  BY <1>4, LeastOf
<1>7. x \in Len(chain)..bound /\ Free(x) /\ \A m \in Len(chain)..(x - 1) : ~ Free(m)
  <2>1. x \in Nat /\ Free(x) /\ x <= top
    BY <1>4, <1>6
  <2>2. bound \in Nat /\ top \in Nat
    BY <1>1, <1>2 DEF bound, top
  <2>3. ASSUME NEW m \in Len(chain)..(x - 1), Free(m) PROVE FALSE
    <3>1. m \in Nat /\ m < x
      BY <1>2, <2>1
    <3>2. m \in T
      BY <2>3, <3>1
    <3> QED
      BY <1>6, <2>1, <3>1, <3>2
  <2> QED
    BY <1>2, <1>5, <2>1, <2>2, <2>3
<1> DEFINE n == PendingNonce
<1>8. n \in Len(chain)..bound /\ Free(n) /\ \A m \in Len(chain)..(n - 1) : ~ Free(m)
  <2>1. n = CHOOSE k \in Len(chain)..bound :
                Free(k) /\ \A m \in Len(chain)..(k - 1) : ~ Free(m)
    BY DEF PendingNonce, bound
  <2> HIDE DEF n, Free
  <2> QED
    BY <1>7, <2>1
<1> HIDE DEF n
<1>9. n \in Nat /\ Len(chain) <= n
  BY <1>2, <1>8, <1>1 DEF bound
<1>10. n <= top
  <2>1. top \in Nat /\ Free(top)
    BY <1>4
  <2>2. CASE top < n
    <3>1. top \in Len(chain)..(n - 1)
      BY <1>2, <1>9, <2>1, <2>2
    <3> QED
      BY <1>8, <2>1, <3>1
  <2> QED
    BY <1>9, <2>1, <2>2
<1>11. \A m \in 0..(n - 1) : Covered(m)
  <2> SUFFICES ASSUME NEW m \in 0..(n - 1), ~ (m < Len(chain))
               PROVE  \E u \in pool : u.nonce = m
    BY DEF Covered
  <2>1. m \in Len(chain)..(n - 1) /\ m >= Len(chain)
    BY <1>2, <1>9
  <2>2. ~ Free(m)
    BY <1>8, <2>1
  <2> QED
    BY <2>1, <2>2
<1> QED
  BY <1>8, <1>9, <1>10, <1>11 DEF n, top

-----------------------------------------------------------------------------
\* The next nonce is named without a gap below it, and the run that reads it
\* has room for its two.
LEMMA BeginsKeeps ==
    ASSUME RunInv, NEW r \in RunId, Begins(r)
    PROVE  Signed' /\ Posted' /\ Bounded' /\ Gapless' /\ Queued'
<1> USE DEF RunInv
<1>1. /\ run[r].stage = "unused" /\ run'[r].stage = "quoting"
      /\ run'[r].nonce = PendingNonce /\ run'[r].step = run[r].step
      /\ \A q \in RunId \ {r} : run'[q] = run[q]
      /\ UNCHANGED <<now, pool, chain, allowance, inflight, accepted>>
      /\ Cardinality(Started) < MaxRuns
  BY DEF Begins, Others, Start, Started
<1>2. run[r].step = 1
  BY <1>1 DEF Posted
<1>3. \A t \in accepted \cup inflight : t.run \in RunId \ {r}
  BY <1>1 DEF Signed
<1>4. \A q \in RunId \ {r} : \A s : TxOf(q, s)' = TxOf(q, s)
  BY <1>1 DEF TxOf
<1>5. Started' = Started \cup {r} /\ r \notin Started
  BY <1>1 DEF Started
<1>6. IsFiniteSet(Started') /\ Cardinality(Started') = Cardinality(Started) + 1
  BY <1>5, FS_AddElement DEF Bounded
<1>7. Cardinality(Started) \in Nat /\ MaxRuns \in Nat /\ Len(chain) \in Nat
  BY FS_CardinalityType, ChainLength, EvmAssumption DEF Bounded
<1>8. Signed'
  BY <1>1, <1>3, <1>4 DEF Signed
<1>9. Posted'
  <2> SUFFICES ASSUME NEW q \in RunId
               PROVE  /\ run'[q].stage \notin {"sending", "ended"} => run'[q].step = 1
                      /\ run'[q].stage = "sending" =>
                             \A s \in 1..(run'[q].step - 1) : TxOf(q, s)' \in accepted'
                      /\ (run'[q].stage = "ended" /\ run'[q].told = "sent") =>
                             \A s \in 1..LastStep : TxOf(q, s)' \in accepted'
                      /\ (run'[q].stage = "ended" /\ run'[q].told = "refused") =>
                             \A t \in accepted' \cup inflight' : t.run # q
    BY DEF Posted, LastStep
  <2>1. CASE q = r
    BY <1>1, <1>2, <2>1
  <2>2. CASE q # r
    BY <1>1, <1>4, <2>2 DEF Posted
  <2> QED
    BY <2>1, <2>2
<1>10. Bounded'
  <2>1. ASSUME NEW q \in Started' PROVE run'[q].nonce + 2 <= 2 * Cardinality(Started')
    <3>1. CASE q = r
      BY <1>1, <1>6, <1>7, <3>1, NextNonce
    <3>2. CASE q # r
      <4>1. q \in Started /\ run'[q] = run[q] /\ run[q].nonce \in Nat
        BY <1>1, <1>5, <3>2 DEF Started, Typed, Record
      <4>2. run[q].nonce + 2 <= 2 * Cardinality(Started)
        BY <4>1 DEF Bounded
      <4> QED
        BY <1>6, <1>7, <4>1, <4>2
    <3> QED
      BY <3>1, <3>2
  <2>2. Cardinality(Started') <= MaxRuns /\ Len(chain') <= 2 * Cardinality(Started')
    <3>1. Len(chain) <= 2 * Cardinality(Started)
      BY DEF Bounded
    <3> QED
      BY <1>1, <1>6, <1>7, <3>1
  <2> QED
    BY <1>6, <2>1, <2>2 DEF Bounded
<1>11. Gapless'
  <2> SUFFICES ASSUME NEW q \in Started', NEW n \in 0..(run'[q].nonce + run'[q].step - 2)
               PROVE  Covered(n)'
    BY DEF Gapless
  <2>1. Covered(n)
    <3>1. CASE q = r
      <4>1. n \in 0..(PendingNonce - 1)
        BY <1>1, <1>2, <3>1, NextNonce
      <4> QED
        BY <4>1, NextNonce
    <3>2. CASE q # r
      BY <1>1, <1>5, <3>2 DEF Gapless, Started
    <3> QED
      BY <3>1, <3>2
  <2> QED
    BY <1>1, <2>1 DEF Covered
<1>12. Queued'
  BY <1>1 DEF Queued
<1> QED
  BY <1>8, <1>9, <1>10, <1>11, <1>12

\* A run that was started is still the same one of as many.
LEMMA StartedKept ==
    ASSUME NEW r \in RunId, Others(r),
           run[r].stage # "unused", run'[r].stage # "unused"
    PROVE  Started' = Started
  BY DEF Others, Started

\* The signed transactions of a run are the same as long as its numbers are.
LEMMA TxKept ==
    ASSUME NEW r \in RunId, Others(r), Signs(r)
    PROVE  \A q \in RunId : \A s : TxOf(q, s)' = TxOf(q, s)
<1> SUFFICES ASSUME NEW q \in RunId, NEW s PROVE TxOf(q, s)' = TxOf(q, s)
  OBVIOUS
<1>1. CASE q = r
  BY <1>1 DEF TxOf, Signs
<1>2. CASE q # r
  BY <1>2 DEF TxOf, Others
<1> QED
  BY <1>1, <1>2

\* A command that goes on or ends leaves what is out as it was.
LEMMA TalksKeeps ==
    ASSUME RunInv, NEW r \in RunId, Talks(r)
    PROVE  Signed' /\ Posted' /\ Bounded' /\ Gapless' /\ Queued'
<1> USE DEF RunInv
<1>1. /\ UNCHANGED <<pool, chain, allowance, inflight, accepted>>
      /\ \A q \in RunId \ {r} : run'[q] = run[q]
      /\ run'[r].step = run[r].step /\ run'[r].nonce = run[r].nonce
      /\ run[r].stage # "unused" /\ run'[r].stage # "unused"
  BY DEF Talks, Network, Others
<1>2. Started' = Started
  BY <1>1, StartedKept DEF Talks
<1>3. \A q \in RunId \ {r} : \A s : TxOf(q, s)' = TxOf(q, s)
  BY <1>1 DEF TxOf
<1>4. run[r].stage \in {"quoting", "prompt", "sending"}
  BY DEF Talks
<1>5. Bounded'
  BY <1>1, <1>2 DEF Bounded, Started
<1>6. Gapless'
  BY <1>1, <1>2 DEF Gapless, Covered, Started
<1>7. Queued'
  BY <1>1 DEF Queued
<1>8. CASE run[r].stage = "sending"
  <2>1. run'[r].stage = "ended" /\ run'[r].told \in {"rejected", "unknown"} /\ Signs(r)
    BY <1>8 DEF Talks
  <2>2. \A q \in RunId : \A s : TxOf(q, s)' = TxOf(q, s)
    BY <2>1, TxKept DEF Talks
  <2>3. \A t \in inflight : t.run # r
    BY <1>8 DEF Signed
  <2>4. Signed'
    BY <1>1, <2>1, <2>2, <2>3 DEF Signed
  <2>5. Posted'
    <3> SUFFICES ASSUME NEW q \in RunId
                 PROVE  /\ run'[q].stage \notin {"sending", "ended"} => run'[q].step = 1
                        /\ run'[q].stage = "sending" =>
                               \A s \in 1..(run'[q].step - 1) : TxOf(q, s)' \in accepted'
                        /\ (run'[q].stage = "ended" /\ run'[q].told = "sent") =>
                               \A s \in 1..LastStep : TxOf(q, s)' \in accepted'
                        /\ (run'[q].stage = "ended" /\ run'[q].told = "refused") =>
                               \A t \in accepted' \cup inflight' : t.run # q
      BY DEF Posted, LastStep
    <3>1. CASE q = r
      BY <2>1, <3>1
    <3>2. CASE q # r
      BY <1>1, <1>3, <3>2 DEF Posted
    <3> QED
      BY <3>1, <3>2
  <2> QED
    BY <1>5, <1>6, <1>7, <2>4, <2>5
<1>9. CASE run[r].stage \in {"quoting", "prompt"}
  <2>1. \A t \in accepted \cup inflight : t.run \in RunId \ {r}
    BY <1>9 DEF Signed
  <2>2. run[r].step = 1
    BY <1>9 DEF Posted
  <2>3. \/ run'[r].stage \in {"prompt", "sending"}
        \/ run'[r].stage = "ended" /\ run'[r].told \in {"refused", "unknown"}
    BY <1>9 DEF Talks
  <2>4. Signed'
    BY <1>1, <1>3, <2>1 DEF Signed
  <2>5. Posted'
    <3> SUFFICES ASSUME NEW q \in RunId
                 PROVE  /\ run'[q].stage \notin {"sending", "ended"} => run'[q].step = 1
                        /\ run'[q].stage = "sending" =>
                               \A s \in 1..(run'[q].step - 1) : TxOf(q, s)' \in accepted'
                        /\ (run'[q].stage = "ended" /\ run'[q].told = "sent") =>
                               \A s \in 1..LastStep : TxOf(q, s)' \in accepted'
                        /\ (run'[q].stage = "ended" /\ run'[q].told = "refused") =>
                               \A t \in accepted' \cup inflight' : t.run # q
      BY DEF Posted, LastStep
    <3>1. CASE q = r
      BY <1>1, <2>1, <2>2, <2>3, <3>1
    <3>2. CASE q # r
      BY <1>1, <1>3, <3>2 DEF Posted
    <3> QED
      BY <3>1, <3>2
  <2> QED
    BY <1>5, <1>6, <1>7, <2>4, <2>5
<1> QED
  BY <1>4, <1>8, <1>9

\* A transaction the node takes in frees no nonce: it holds its own, which was
\* free or held by the one it replaces.
LEMMA TakesInKeeps ==
    ASSUME Queued, NEW t, TakesIn(t), chain' = chain
    PROVE  /\ Queued' /\ Covered(t.nonce)'
           /\ \A n : Covered(n) => Covered(n)'
<1>1. pool' = {u \in pool : u.nonce # t.nonce} \cup {t} /\ t.nonce >= Len(chain)
  BY DEF TakesIn
<1>2. Queued'
  BY <1>1 DEF Queued
<1>3. \A n : Covered(n) => Covered(n)'
  <2> SUFFICES ASSUME NEW n, Covered(n) PROVE Covered(n)'
    OBVIOUS
  <2>1. CASE n < Len(chain)
    BY <2>1 DEF Covered
  <2>2. CASE \E u \in pool : u.nonce = n
    <3>1. \E u \in pool' : u.nonce = n
      BY <1>1, <2>2
    <3> QED
      BY <3>1 DEF Covered
  <2> QED
    BY <2>1, <2>2 DEF Covered
<1>4. Covered(t.nonce)'
  BY <1>1 DEF Covered
<1> QED
  BY <1>2, <1>3, <1>4

\* A POST that is acknowledged, or given up on, is the next one of its run.
LEMMA AcknowledgedKeeps ==
    ASSUME RunInv, NEW r \in RunId, Acknowledged(r)
    PROVE  Signed' /\ Posted' /\ Bounded' /\ Gapless' /\ Queued'
<1> USE DEF RunInv
<1>s. PICK step : step = run[r].step
  OBVIOUS
<1>t. PICK t : t = TxOf(r, step)
  OBVIOUS
<1>1. /\ run[r].stage = "sending" /\ \A q \in RunId \ {r} : run'[q] = run[q]
      /\ run'[r].nonce = run[r].nonce
      /\ \/ /\ step = LastStep /\ run'[r].step = step
            /\ run'[r].stage = "ended" /\ run'[r].told = "sent"
         \/ run'[r].step = step + 1 /\ run'[r].stage = "sending"
      /\ UNCHANGED <<chain, allowance, inflight>>
      /\ TakesIn(t)
  BY <1>s, <1>t DEF Acknowledged, Others, Signs
<1>2. accepted' = accepted \cup {t}
  BY <1>1 DEF TakesIn
<1>3. \A q \in RunId : \A s : TxOf(q, s)' = TxOf(q, s)
  BY TxKept DEF Acknowledged
<1>4. Started' = Started
  BY <1>1, StartedKept DEF Acknowledged
<1>5. step \in Nat /\ step >= 1 /\ run[r].nonce \in Nat
  <2>1. run[r] \in Record
    BY DEF Typed
  <2> QED
    BY <1>s, <2>1 DEF Record
<1>6. t.run = r /\ t.nonce = run[r].nonce + step - 1
  BY <1>t, <1>s DEF TxOf
<1>7. \A u \in inflight : u.run # r
  BY <1>1 DEF Signed
<1>8. t = TxOf(r, step)'
  BY <1>3, <1>t
<1>9. Signed'
  <2>1. ASSUME NEW u \in accepted' \cup inflight'
        PROVE  /\ u.run \in RunId
               /\ run'[u.run].stage \in {"sending", "ended"}
               /\ \E s \in 1..run'[u.run].step :
                     /\ u = TxOf(u.run, s)'
                     /\ run'[u.run].stage = "sending" => s < run'[u.run].step
    <3>1. CASE u = t
      <4>1. u.run = r /\ u = TxOf(r, step)' /\ step \in 1..run'[r].step
        BY <1>1, <1>5, <1>6, <1>8, <3>1
      <4>2. run'[r].stage = "sending" => step < run'[r].step
        BY <1>1, <1>5
      <4>3. run'[r].stage \in {"sending", "ended"}
        BY <1>1
      <4> QED
        BY <4>1, <4>2, <4>3
    <3>2. CASE u \in accepted \cup inflight
      <4>1. /\ u.run \in RunId
            /\ run[u.run].stage \in {"sending", "ended"}
        BY <3>2 DEF Signed
      <4>2. PICK s \in 1..run[u.run].step :
                     /\ u = TxOf(u.run, s)
                     /\ run[u.run].stage = "sending" => s < run[u.run].step
        BY <3>2 DEF Signed
      <4>3. u = TxOf(u.run, s)'
        BY <1>3, <4>1, <4>2
      <4>4. CASE u.run = r
        <5>1. s \in 1..run'[r].step /\ (run'[r].stage = "sending" => s < run'[r].step)
          BY <1>1, <1>5, <4>2, <4>4, <1>s
        <5> QED
          BY <1>1, <4>1, <4>3, <4>4, <5>1
      <4>5. CASE u.run # r
        BY <1>1, <4>1, <4>2, <4>3, <4>5
      <4> QED
        BY <4>4, <4>5
    <3> QED
      BY <1>1, <1>2, <3>1, <3>2
  <2>2. \A u \in inflight' : run'[u.run].stage = "ended" /\ run'[u.run].told = "unknown"
    BY <1>1, <1>7 DEF Signed
  <2> QED
    BY <2>1, <2>2 DEF Signed
<1>10. Posted'
  <2> SUFFICES ASSUME NEW q \in RunId
               PROVE  /\ run'[q].stage \notin {"sending", "ended"} => run'[q].step = 1
                      /\ run'[q].stage = "sending" =>
                             \A s \in 1..(run'[q].step - 1) : TxOf(q, s)' \in accepted'
                      /\ (run'[q].stage = "ended" /\ run'[q].told = "sent") =>
                             \A s \in 1..LastStep : TxOf(q, s)' \in accepted'
                      /\ (run'[q].stage = "ended" /\ run'[q].told = "refused") =>
                             \A u \in accepted' \cup inflight' : u.run # q
    BY DEF Posted, LastStep
  <2>1. CASE q = r
    <3>1. \A s \in 1..step : TxOf(r, s)' \in accepted'
      <4> SUFFICES ASSUME NEW s \in 1..step PROVE TxOf(r, s)' \in accepted'
        OBVIOUS
      <4>1. CASE s = step
        BY <1>2, <1>8, <4>1
      <4>2. CASE s # step
        <5>1. s \in 1..(run[r].step - 1)
          BY <1>5, <4>2, <1>s
        <5>2. TxOf(r, s) \in accepted
          BY <1>1, <5>1 DEF Posted
        <5> QED
          BY <1>2, <1>3, <5>2
      <4> QED
        BY <4>1, <4>2
    <3>2. CASE run'[r].stage = "sending"
      <4>1. 1..(run'[r].step - 1) = 1..step
        BY <1>1, <1>5, <3>2
      <4> QED
        BY <2>1, <3>1, <3>2, <4>1
    <3>3. CASE run'[r].stage = "ended"
      <4>1. 1..LastStep = 1..step /\ run'[r].told = "sent"
        BY <1>1, <3>3
      <4> QED
        BY <2>1, <3>1, <3>3, <4>1
    <3> QED
      BY <1>1, <3>2, <3>3
  <2>2. CASE q # r
    <3>1. run'[q] = run[q]
      BY <1>1, <2>2
    <3>2. \A s : TxOf(q, s)' = TxOf(q, s)
      BY <1>3
    <3> QED
      BY <1>1, <1>2, <1>6, <2>2, <3>1, <3>2 DEF Posted
  <2> QED
    BY <2>1, <2>2
<1>11. Bounded'
  BY <1>1, <1>4 DEF Bounded, Started
<1>12. /\ Queued' /\ Covered(t.nonce)'
       /\ \A n : Covered(n) => Covered(n)'
  BY <1>1, TakesInKeeps
<1>13. Gapless'
  <2> SUFFICES ASSUME NEW q \in Started', NEW n \in 0..(run'[q].nonce + run'[q].step - 2)
               PROVE  Covered(n)'
    BY DEF Gapless
  <2>1. CASE q = r
    <3>1. CASE n = t.nonce
      BY <1>12, <3>1
    <3>2. CASE n # t.nonce
      <4>1. n \in 0..(run[r].nonce + run[r].step - 2)
        BY <1>1, <1>5, <1>6, <2>1, <3>2, <1>s
      <4>2. r \in Started
        BY <1>1 DEF Started
      <4>3. Covered(n)
        BY <4>1, <4>2 DEF Gapless
      <4> QED
        BY <1>12, <4>3
    <3> QED
      BY <3>1, <3>2
  <2>2. CASE q # r
    <3>1. q \in Started /\ n \in 0..(run[q].nonce + run[q].step - 2)
      BY <1>1, <1>4, <2>2 DEF Started
    <3>2. Covered(n)
      BY <3>1 DEF Gapless
    <3> QED
      BY <1>12, <3>2
  <2> QED
    BY <2>1, <2>2
<1> QED
  BY <1>9, <1>10, <1>11, <1>12, <1>13

\* A POST that is refused or given up ends its run, and adds nothing to what the
\* network knows.
LEMMA GivenUpKeeps ==
    ASSUME RunInv, NEW r \in RunId, GivenUp(r)
    PROVE  Signed' /\ Posted' /\ Bounded' /\ Gapless' /\ Queued'
<1> USE DEF RunInv
<1>s. PICK step : step = run[r].step
  OBVIOUS
<1>t. PICK t : t = TxOf(r, step)
  OBVIOUS
<1>1. /\ run[r].stage = "sending" /\ \A q \in RunId \ {r} : run'[q] = run[q]
      /\ run'[r].nonce = run[r].nonce /\ run'[r].step = step
      /\ run'[r].stage = "ended" /\ run'[r].told = "unknown"
      /\ inflight' = inflight \cup {t}
      /\ UNCHANGED <<pool, chain, allowance, accepted>>
  BY <1>s, <1>t DEF GivenUp, Others, Signs
<1>2. \A q \in RunId : \A s : TxOf(q, s)' = TxOf(q, s)
  BY TxKept DEF GivenUp
<1>3. Started' = Started
  BY <1>1, StartedKept DEF GivenUp
<1>4. step \in Nat /\ step >= 1
  <2>1. run[r] \in Record
    BY DEF Typed
  <2> QED
    BY <1>s, <2>1 DEF Record
<1>5. t.run = r
  BY <1>t, <1>s DEF TxOf
<1>6. t = TxOf(r, step)'
  BY <1>2, <1>t
<1>7. Signed'
  <2>1. ASSUME NEW u \in accepted' \cup inflight'
        PROVE  /\ u.run \in RunId
               /\ run'[u.run].stage \in {"sending", "ended"}
               /\ \E s \in 1..run'[u.run].step :
                     /\ u = TxOf(u.run, s)'
                     /\ run'[u.run].stage = "sending" => s < run'[u.run].step
    <3>1. CASE u = t
      <4>1. u.run = r /\ u = TxOf(r, step)' /\ step \in 1..run'[r].step
        BY <1>1, <1>4, <1>5, <1>6, <3>1
      <4> QED
        BY <1>1, <4>1
    <3>2. CASE u \in accepted \cup inflight
      <4>1. /\ u.run \in RunId
            /\ run[u.run].stage \in {"sending", "ended"}
        BY <3>2 DEF Signed
      <4>2. PICK s \in 1..run[u.run].step :
                     /\ u = TxOf(u.run, s)
                     /\ run[u.run].stage = "sending" => s < run[u.run].step
        BY <3>2 DEF Signed
      <4>3. u = TxOf(u.run, s)'
        BY <1>2, <4>1, <4>2
      <4>4. CASE u.run = r
        BY <1>1, <4>1, <4>2, <4>3, <4>4, <1>s
      <4>5. CASE u.run # r
        BY <1>1, <4>1, <4>2, <4>3, <4>5
      <4> QED
        BY <4>4, <4>5
    <3> QED
      BY <1>1, <3>1, <3>2
  <2>2. \A u \in inflight' : run'[u.run].stage = "ended" /\ run'[u.run].told = "unknown"
    <3> SUFFICES ASSUME NEW u \in inflight'
                 PROVE  run'[u.run].stage = "ended" /\ run'[u.run].told = "unknown"
      OBVIOUS
    <3>1. CASE u.run = r
      BY <1>1, <3>1
    <3>2. CASE u.run # r
      <4>1. u \in inflight
        BY <1>1, <1>5, <3>2
      <4> QED
        BY <1>1, <3>2, <4>1 DEF Signed
    <3> QED
      BY <3>1, <3>2
  <2> QED
    BY <2>1, <2>2 DEF Signed
<1>8. Posted'
  <2> SUFFICES ASSUME NEW q \in RunId
               PROVE  /\ run'[q].stage \notin {"sending", "ended"} => run'[q].step = 1
                      /\ run'[q].stage = "sending" =>
                             \A s \in 1..(run'[q].step - 1) : TxOf(q, s)' \in accepted'
                      /\ (run'[q].stage = "ended" /\ run'[q].told = "sent") =>
                             \A s \in 1..LastStep : TxOf(q, s)' \in accepted'
                      /\ (run'[q].stage = "ended" /\ run'[q].told = "refused") =>
                             \A u \in accepted' \cup inflight' : u.run # q
    BY DEF Posted, LastStep
  <2>1. CASE q = r
    BY <1>1, <2>1
  <2>2. CASE q # r
    <3>1. run'[q] = run[q]
      BY <1>1, <2>2
    <3>2. \A s : TxOf(q, s)' = TxOf(q, s)
      BY <1>2
    <3> QED
      BY <1>1, <1>5, <2>2, <3>1, <3>2 DEF Posted
  <2> QED
    BY <2>1, <2>2
<1>9. Bounded'
  BY <1>1, <1>3 DEF Bounded, Started
<1>10. Queued' /\ \A n : Covered(n)' <=> Covered(n)
  BY <1>1 DEF Queued, Covered
<1>11. Gapless'
  <2> SUFFICES ASSUME NEW q \in Started', NEW n \in 0..(run'[q].nonce + run'[q].step - 2)
               PROVE  Covered(n)'
    BY DEF Gapless
  <2>1. q \in Started /\ run'[q].nonce = run[q].nonce /\ run'[q].step = run[q].step
    BY <1>1, <1>3, <1>s DEF Started
  <2>2. Covered(n)
    BY <2>1 DEF Gapless
  <2> QED
    BY <1>10, <2>2
<1> QED
  BY <1>7, <1>8, <1>9, <1>10, <1>11

\* As long as no run moves, and nothing new is signed, what is out is accounted
\* for as before.
LEMMA RunsRest ==
    ASSUME Signed, Posted, run' = run,
           accepted \subseteq accepted', inflight' \subseteq inflight,
           accepted' \cup inflight' \subseteq accepted \cup inflight
    PROVE  Signed' /\ Posted' /\ Started' = Started
<1>1. \A q : \A s : TxOf(q, s)' = TxOf(q, s)
  BY DEF TxOf
<1>2. Signed'
  BY <1>1 DEF Signed
<1>3. Posted'
  <2> SUFFICES ASSUME NEW q \in RunId
               PROVE  /\ run'[q].stage \notin {"sending", "ended"} => run'[q].step = 1
                      /\ run'[q].stage = "sending" =>
                             \A s \in 1..(run'[q].step - 1) : TxOf(q, s)' \in accepted'
                      /\ (run'[q].stage = "ended" /\ run'[q].told = "sent") =>
                             \A s \in 1..LastStep : TxOf(q, s)' \in accepted'
                      /\ (run'[q].stage = "ended" /\ run'[q].told = "refused") =>
                             \A u \in accepted' \cup inflight' : u.run # q
    BY DEF Posted, LastStep
  <2> QED
    BY <1>1 DEF Posted
<1> QED
  BY <1>2, <1>3 DEF Started

\* A late delivery only moves an unanswered transaction into the mempool.
LEMMA DeliverKeeps ==
    ASSUME RunInv, Deliver
    PROVE  Signed' /\ Posted' /\ Bounded' /\ Gapless' /\ Queued'
<1> USE DEF RunInv
<1>1. PICK t \in inflight : TakesIn(t) /\ inflight' = inflight \ {t}
                            /\ UNCHANGED <<now, run, chain, allowance>>
  BY DEF Deliver
<1>2. accepted' = accepted \cup {t}
  BY <1>1 DEF TakesIn
<1>3. Signed' /\ Posted' /\ Started' = Started
  BY <1>1, <1>2, RunsRest
<1>4. Queued' /\ \A n : Covered(n) => Covered(n)'
  BY <1>1, TakesInKeeps
<1>5. Bounded'
  BY <1>1, <1>3 DEF Bounded
<1>6. Gapless'
  BY <1>1, <1>3, <1>4 DEF Gapless
<1> QED
  BY <1>3, <1>4, <1>5, <1>6

\* The chain takes the least nonce of the mempool, and that nonce stays taken.
LEMMA MineKeeps ==
    ASSUME RunInv, Mine
    PROVE  Signed' /\ Posted' /\ Bounded' /\ Gapless' /\ Queued'
<1> USE DEF RunInv
<1>1. PICK t \in pool, ok \in BOOLEAN :
          /\ t.nonce = Len(chain) /\ pool' = pool \ {t}
          /\ chain' = Append(chain, [tx |-> t, ok |-> ok])
          /\ UNCHANGED <<now, run, inflight, accepted>>
  BY MinesOne DEF Mined
<1>2. Len(chain) \in Nat /\ Len(chain') = Len(chain) + 1
  BY <1>1 DEF PayInv, FromTheMempool
<1>3. Signed' /\ Posted' /\ Started' = Started
  BY <1>1, RunsRest
<1>4. t \in accepted
  BY DEF PayInv, FromTheMempool
<1>5. \A u \in pool : u.nonce \in Nat /\ u.nonce >= Len(chain)
  BY NonceOf DEF Queued, PayInv, FromTheMempool
<1>6. Queued'
  <2>1. \A u \in pool' : u \in pool /\ u.nonce # Len(chain)
    BY <1>1 DEF Queued
  <2>2. \A u \in pool' : u.nonce >= Len(chain')
    BY <1>2, <1>5, <2>1
  <2> QED
    BY <2>1, <2>2 DEF Queued
<1>7. Bounded'
  <2>1. t.run \in Started /\ t.nonce <= run[t.run].nonce + 1
    BY <1>4, NonceOf
  <2>2. run[t.run].nonce + 2 <= 2 * Cardinality(Started)
    BY <2>1 DEF Bounded
  <2>3. run[t.run].nonce \in Nat
    BY <2>1 DEF Started, Typed, Record
  <2>4. Cardinality(Started) \in Nat
    BY FS_CardinalityType DEF Bounded
  <2>5. Len(chain') <= 2 * Cardinality(Started)
    BY <1>1, <1>2, <2>1, <2>2, <2>3, <2>4
  <2> QED
    BY <1>1, <1>3, <2>5 DEF Bounded
<1>8. ASSUME NEW n \in Nat, Covered(n) PROVE Covered(n)'
  <2>1. CASE n < Len(chain)
    BY <1>2, <2>1 DEF Covered
  <2>2. CASE n = Len(chain)
    BY <1>2, <2>2 DEF Covered
  <2>3. CASE ~ (n < Len(chain)) /\ n # Len(chain)
    <3>1. PICK u \in pool : u.nonce = n
      BY <1>8, <2>3 DEF Covered
    <3>2. u \in pool'
      BY <1>1, <2>3, <3>1
    <3> QED
      BY <3>1, <3>2 DEF Covered
  <2> QED
    BY <2>1, <2>2, <2>3
<1>9. Gapless'
  <2> SUFFICES ASSUME NEW q \in Started', NEW n \in 0..(run'[q].nonce + run'[q].step - 2)
               PROVE  Covered(n)'
    BY DEF Gapless
  <2>1. n \in Nat /\ Covered(n)
    BY <1>1, <1>3 DEF Gapless
  <2> QED
    BY <1>8, <2>1
<1> QED
  BY <1>3, <1>6, <1>7, <1>9

\* Before any run there is nothing signed, posted or mined.
LEMMA InitRunInv == Init => RunInv
<1> SUFFICES ASSUME Init PROVE RunInv
  OBVIOUS
<1> DEFINE blank == [stage |-> "unused", told |-> "nothing",
                     nonce |-> 0, amt |-> 0, exp |-> 0, step |-> 1]
<1>1. run = [r \in RunId |-> blank] /\ chain = << >>
      /\ now = 0 /\ pool = {} /\ inflight = {} /\ accepted = {}
  BY DEF Init
<1>2. blank \in Record
  BY DEF Record, Stage, LastStep
<1>3. blank.stage = "unused" /\ blank.told = "nothing" /\ blank.step = 1
  OBVIOUS
<1> HIDE DEF blank
<1>4. Started = {}
  BY <1>1, <1>3 DEF Started
<1>5. IsFiniteSet(Started) /\ Cardinality(Started) = 0
  BY <1>4, FS_EmptySet
<1>6. Typed
  BY <1>1, <1>2 DEF Typed
<1>7. Signed /\ Posted /\ Queued
  BY <1>1, <1>3 DEF Signed, Posted, Queued
<1>8. Bounded /\ Gapless
  BY <1>1, <1>4, <1>5, EvmAssumption DEF Bounded, Gapless
<1> QED
  BY <1>6, <1>7, <1>8, InitPayInv DEF RunInv

\* Every step of the swaps, the mempool, the chain and the clock keeps the whole.
LEMMA NextRunInv == RunInv /\ [Next]_vars => RunInv'
<1> SUFFICES ASSUME RunInv, [Next]_vars PROVE RunInv'
  OBVIOUS
<1>1. PayInv'
  BY NextPayInv DEF RunInv
<1>2. ASSUME NEW r \in RunId, Start(r) PROVE RunInv'
  <2>1. Typed' /\ Begins(r)
    BY <1>2, NextNonce, StartSteps DEF RunInv
  <2> QED
    BY <1>1, <2>1, BeginsKeeps DEF RunInv
<1>3. ASSUME NEW r \in RunId,
             \/ PrepareAborts(r) \/ Prepare(r) \/ Decline(r) \/ Confirm(r)
             \/ PostRejected(r) \/ Kill(r)
      PROVE  RunInv'
  <2>1. Typed' /\ Talks(r)
    BY <1>3, TalkSteps DEF RunInv
  <2> QED
    BY <1>1, <2>1, TalksKeeps DEF RunInv
<1>4. ASSUME NEW r \in RunId, PostAcked(r) \/ PostUnanswered(r) PROVE RunInv'
  <2>1. Typed' /\ (Acknowledged(r) \/ GivenUp(r))
    BY <1>4, PostSteps DEF RunInv
  <2> QED
    BY <1>1, <2>1, AcknowledgedKeeps, GivenUpKeeps DEF RunInv
<1>5. CASE Deliver
  <2>1. Typed'
    BY <1>5 DEF Deliver, RunInv, Typed
  <2> QED
    BY <1>1, <1>5, <2>1, DeliverKeeps DEF RunInv
<1>6. CASE Mine
  <2>1. Typed'
    BY <1>6 DEF Mine, RunInv, Typed
  <2> QED
    BY <1>1, <1>6, <2>1, MineKeeps DEF RunInv
<1>7. CASE Tick \/ UNCHANGED vars
  <2>1. now' \in Nat /\ UNCHANGED <<run, pool, chain, allowance, inflight, accepted>>
    BY <1>7 DEF Tick, vars, RunInv, Typed
  <2>2. Signed' /\ Posted' /\ Started' = Started
    BY <2>1, RunsRest DEF RunInv
  <2>3. Typed'
    BY <2>1 DEF RunInv, Typed
  <2>4. Bounded'
    BY <2>1, <2>2 DEF RunInv, Bounded
  <2>5. Gapless'
    BY <2>1, <2>2 DEF RunInv, Gapless, Covered
  <2>6. Queued'
    BY <2>1 DEF RunInv, Queued
  <2> QED
    BY <1>1, <2>2, <2>3, <2>4, <2>5, <2>6 DEF RunInv
<1> QED
  BY <1>2, <1>3, <1>4, <1>5, <1>6, <1>7 DEF Next, Post

\* What a run told is what became of its transactions.
LEMMA HonestFollows == RunInv => HonestReport
<1> SUFFICES ASSUME RunInv, NEW r \in RunId, run[r].stage = "ended"
             PROVE  /\ run[r].told \in NothingPosted => \A t \in accepted : t.run # r
                    /\ run[r].told = "rejected" =>
                           \A t \in accepted : t.run = r => t.kind # "deposit"
                    /\ run[r].told = "sent" =>
                           \A step \in 1..LastStep : TxOf(r, step) \in accepted
  BY DEF HonestReport
<1>1. run[r].told \in NothingPosted => \A t \in accepted : t.run # r
  BY DEF RunInv, Posted, NothingPosted
<1>2. run[r].told = "rejected" => \A t \in accepted : t.run = r => t.kind # "deposit"
  BY DEF RunInv, PayInv, DepositsAreTold, Definite
<1>3. run[r].told = "sent" => \A step \in 1..LastStep : TxOf(r, step) \in accepted
  BY DEF RunInv, Posted
<1> QED
  BY <1>1, <1>2, <1>3

\* A number under the last one of a run that may have skipped the first few.
LEMMA BelowLast ==
    ASSUME NEW k \in Nat, NEW s \in Nat, NEW m \in Nat, NEW low \in Nat,
           NEW n \in low..m, n # m, m <= k + s - 1
    PROVE  n \in 0..(k + s - 2) /\ ~ (n < low)
  OBVIOUS

\* Below the nonce of a pending transaction, everything is mined or pending.
LEMMA NoGapFollows == RunInv => NoNonceGap
<1> SUFFICES ASSUME RunInv, NEW t \in pool, NEW n \in Len(chain)..t.nonce
             PROVE  \E u \in pool : u.nonce = n
  BY DEF NoNonceGap
<1>1. t \in accepted
  BY DEF RunInv, PayInv, FromTheMempool
<1>2. /\ t.run \in Started /\ t.nonce \in Nat
      /\ t.nonce <= run[t.run].nonce + run[t.run].step - 1
  BY <1>1, NonceOf DEF RunInv
<1>3. run[t.run].nonce \in Nat /\ run[t.run].step \in Nat
  BY <1>2 DEF RunInv, Typed, Record, Started, LastStep
<1>4. Len(chain) \in Nat
  BY ChainLength DEF RunInv
<1>5. CASE n = t.nonce
  BY <1>5
<1>6. CASE n # t.nonce
  <2>1. n \in 0..(run[t.run].nonce + run[t.run].step - 2) /\ ~ (n < Len(chain))
    <3>1. PICK k, m, low, s \in Nat : /\ k = run[t.run].nonce /\ s = run[t.run].step
                                     /\ m = t.nonce /\ low = Len(chain)
      BY <1>2, <1>3, <1>4
    <3>2. n \in low..m
      BY <3>1
    <3>3. n # m /\ m <= k + s - 1
      BY <1>2, <1>6, <3>1
    <3>5. n \in 0..(k + s - 2) /\ ~ (n < low)
      BY <3>2, <3>3, BelowLast
    <3> QED
      BY <3>1, <3>5
  <2>2. Covered(n)
    BY <1>2, <2>1 DEF RunInv, Gapless
  <2> QED
    BY <2>1, <2>2 DEF Covered
<1> QED
  BY <1>5, <1>6

\* What the command tells is what the chain can still do, for every
\* interleaving of terminals, mempool and chain: nothing of a run that told it
\* posted nothing, no deposit of one the node refused (broadcast posts it last),
\* and every transaction of one that told it sent them.
THEOREM ReportIsAlwaysHonest == Spec => []HonestReport
  BY InitRunInv, NextRunInv, HonestFollows, PTL DEF Spec

\* No nonce is skipped: get_nonce names the first that is neither mined nor
\* pending, the approve takes it and the deposit the one after, so nothing that
\* was accepted waits for a transaction nobody sent.
THEOREM NoNonceIsSkipped == Spec => []NoNonceGap
  BY InitRunInv, NextRunInv, NoGapFollows, PTL DEF Spec

-----------------------------------------------------------------------------
\* The approve of a run that went on to its deposit is pending or mined, at its
\* own nonce, and the runs that started later took later nonces.
InPlace(r) ==
    \/ TxOf(r, 1) \in pool
    \/ run[r].nonce + 1 \in DOMAIN chain /\ chain[run[r].nonce + 1].tx = TxOf(r, 1)
Ahead(r) == \A s \in Started : r[2] < s[2] => run[r].nonce < run[s].nonce
Approved == Alone => \A r \in Started : run[r].step = 2 => InPlace(r) /\ Ahead(r)

\* Every transaction is mined at its nonce; the router may pull what an approve
\* that was mined last is for; only an ERC-20 deposit can fail.
Standing ==
    /\ allowance \in Nat
    /\ ~ Token => allowance = 0
    /\ chain # << >> /\ chain[Len(chain)].tx.kind = "approve" /\ chain[Len(chain)].ok =>
           allowance = chain[Len(chain)].tx.amt
    /\ \A i \in DOMAIN chain : chain[i].tx.kind = "deposit" /\ ~ chain[i].ok => Token
    /\ \A i \in DOMAIN chain : chain[i].tx.nonce = i - 1

\* An allowance that stands was left by an approval its run has not drawn on yet,
\* and only such an approval can have reverted a later approve.
Leftover ==
    Alone =>
        /\ allowance > 0 => \E j \in DOMAIN chain : LeftApproved(j)
        /\ \A i \in DOMAIN chain :
               chain[i].tx.kind = "approve" /\ ~ chain[i].ok =>
                   Resets /\ \E j \in 1..(i - 1) : LeftApproved(j)

Funds    == Standing /\ Leftover /\ DepositIsCovered
AllowInv == RunInv /\ Approved /\ Funds

\* With one terminal, no run starts after one that is under way, or that ended
\* with a report the user does not trust.
LEMMA NoneAfter ==
    ASSUME PayInv, Alone, NEW q \in Started, NEW s \in Started,
           run[q].stage = "ended" => run[q].told \notin Rerun
    PROVE  s[1] = q[1] /\ s[2] <= q[2] /\ (s[2] = q[2] => s = q)
<1>1. q \in RunId /\ s \in RunId /\ s[1] = q[1]
  BY DEF Started, Alone
<1>2. q[2] \in Nat /\ s[2] \in Nat /\ q[2] >= 1
  BY <1>1, EvmAssumption DEF RunId
<1>3. ASSUME q[2] < s[2] PROVE FALSE
  <2>1. q[2] \in 1..(s[2] - 1) /\ q = <<s[1], q[2]>>
    BY <1>1, <1>2, <1>3 DEF RunId
  <2>2. run[q].stage = "ended" /\ run[q].told \in Rerun
    BY <1>1, <2>1 DEF PayInv, StartedInOrder, Started
  <2> QED
    BY <2>2
<1>4. s[2] = q[2] => s = q
  BY <1>1 DEF RunId
<1> QED
  BY <1>1, <1>2, <1>3, <1>4

\* A transaction the node takes in holds no approve of another run's: the runs
\* before it have smaller nonces, and none has started after it.
LEMMA TakesNoApprove ==
    ASSUME AllowInv, Alone, NEW t \in accepted \cup inflight,
           run[t.run].stage = "ended" => run[t.run].told \notin Rerun,
           NEW r \in Started, run[r].step = 2, TxOf(r, 1) # t
    PROVE  run[r].nonce # t.nonce
<1>1. PICK q : q = t.run
  OBVIOUS
<1>2. /\ q \in Started /\ t.nonce \in Nat /\ run[q].nonce <= t.nonce
      /\ q \in RunId /\ r \in RunId
  BY <1>1, NonceOf DEF AllowInv, RunInv, Started
<1>3. r[1] = q[1] /\ r[2] <= q[2] /\ (r[2] = q[2] => r = q)
  BY <1>1, <1>2, NoneAfter DEF AllowInv, RunInv
<1>4. run[r].nonce \in Nat /\ run[q].nonce \in Nat
  BY <1>2 DEF AllowInv, RunInv, Typed, Record
<1>5. CASE r = q
  <2>1. PICK s \in 1..run[q].step : t = TxOf(q, s)
    BY <1>1 DEF AllowInv, RunInv, Signed
  <2>2. s # 1 /\ s \in 1..2
    BY <1>5, <2>1
  <2>3. TxOf(q, s).nonce = run[q].nonce + s - 1
    BY DEF TxOf
  <2> QED
    BY <1>4, <1>5, <2>1, <2>2, <2>3
<1>6. CASE r # q
  <2>1. r[2] < q[2]
    BY <1>2, <1>3, <1>6, EvmAssumption DEF RunId
  <2>2. run[r].nonce < run[q].nonce
    BY <1>2, <2>1 DEF AllowInv, Approved, Ahead
  <2> QED
    BY <1>2, <1>4, <2>2
<1> QED
  BY <1>5, <1>6

\* An approve that is pending stays so when nothing takes its place.
LEMMA StaysInPlace ==
    ASSUME NEW r, InPlace(r), chain' = chain, run'[r].nonce = run[r].nonce,
           TxOf(r, 1)' = TxOf(r, 1), TxOf(r, 1) \in pool => TxOf(r, 1) \in pool'
    PROVE  InPlace(r)'
  BY DEF InPlace

\* Fewer runs had been started.
LEMMA AloneBefore ==
    ASSUME Started \subseteq Started', Alone'
    PROVE  Alone
  BY DEF Alone, Started

\* What is mined, and what the router may pull, changes only with the chain.
LEMMA ChainRests ==
    ASSUME Funds, chain' = chain, allowance' = allowance,
           now' = now, Started \subseteq Started'
    PROVE  Funds'
<1> USE DEF Funds
<1>1. Standing'
  BY DEF Standing
<1>2. \A j : LeftApproved(j)' <=> LeftApproved(j)
  BY DEF LeftApproved, Paid
<1>3. Leftover'
  BY <1>2, AloneBefore DEF Leftover
<1>4. DepositIsCovered'
  BY <1>2, AloneBefore DEF DepositIsCovered
<1> QED
  BY <1>1, <1>3, <1>4

\* A run that starts reads a nonce after those of the approves before it.
LEMMA BeginsAllowed ==
    ASSUME AllowInv, NEW r \in RunId, Begins(r)
    PROVE  Approved' /\ Funds'
<1> USE DEF AllowInv, RunInv
<1>1. /\ run[r].stage = "unused" /\ run'[r].stage = "quoting"
      /\ run'[r].nonce = PendingNonce /\ run'[r].step = run[r].step
      /\ \A q \in RunId \ {r} : run'[q] = run[q]
      /\ UNCHANGED <<now, pool, chain, allowance, inflight, accepted>>
  BY DEF Begins, Others, Start
<1>2. run[r].step = 1
  BY <1>1 DEF Posted
<1>3. Started' = Started \cup {r} /\ r \notin Started
  BY <1>1 DEF Started
<1>4. ASSUME Alone', NEW q \in Started', run'[q].step = 2
      PROVE  InPlace(q)' /\ Ahead(q)'
  <2>1. q \in Started /\ q # r /\ run'[q] = run[q] /\ TxOf(q, 1)' = TxOf(q, 1)
    BY <1>1, <1>2, <1>3, <1>4 DEF Started, TxOf
  <2>2. InPlace(q) /\ Ahead(q)
    BY <1>3, <1>4, <2>1, AloneBefore DEF Approved
  <2>3. InPlace(q)'
    BY <1>1, <2>1, <2>2, StaysInPlace
  <2>4. run[q].nonce < PendingNonce
    <3>1. run[q].nonce \in Nat /\ run[q].step = 2
      BY <1>4, <2>1 DEF Started, Typed, Record
    <3>2. PendingNonce \in Nat /\ ~ Covered(PendingNonce)
      BY ChainLength, NextNonce DEF Covered
    <3>3. \A n \in 0..run[q].nonce : Covered(n)
      <4>1. run[q].nonce + run[q].step - 2 = run[q].nonce
        BY <3>1
      <4> QED
        BY <2>1, <4>1 DEF Gapless
    <3> QED
      BY <3>1, <3>2, <3>3
  <2>5. ASSUME NEW s \in Started', q[2] < s[2] PROVE run'[q].nonce < run'[s].nonce
    <3>1. CASE s = r
      BY <1>1, <2>1, <2>4, <3>1
    <3>2. CASE s # r
      BY <1>1, <1>3, <2>1, <2>2, <2>5, <3>2 DEF Ahead, Started
    <3> QED
      BY <3>1, <3>2
  <2> QED
    BY <2>3, <2>5 DEF Ahead
<1>5. Approved'
  BY <1>4 DEF Approved
<1> QED
  BY <1>1, <1>3, <1>5, ChainRests

\* A command that goes on, ends or is given up on posts no approve.
LEMMA TalksAllowed ==
    ASSUME AllowInv, NEW r \in RunId, Talks(r) \/ GivenUp(r), now' = now
    PROVE  Approved' /\ Funds'
<1> USE DEF AllowInv, RunInv
<1>1. /\ UNCHANGED <<pool, chain, allowance, accepted>>
      /\ \A q \in RunId \ {r} : run'[q] = run[q]
      /\ run'[r].step = run[r].step /\ run'[r].nonce = run[r].nonce
      /\ run[r].stage # "unused" /\ run'[r].stage # "unused"
      /\ run[r].step = 1 \/ Signs(r)
  BY DEF Talks, GivenUp, Network, Others, Signs, Posted
<1>2. Started' = Started
  BY <1>1, StartedKept DEF Talks, GivenUp
<1>3. ASSUME Alone', NEW q \in Started', run'[q].step = 2
      PROVE  InPlace(q)' /\ Ahead(q)'
  <2>1. q \in Started /\ run[q].step = 2 /\ run'[q].nonce = run[q].nonce
    BY <1>1, <1>2, <1>3 DEF Started
  <2>2. TxOf(q, 1)' = TxOf(q, 1)
    <3>1. CASE q = r
      BY <1>1, <2>1, <3>1 DEF TxOf, Signs
    <3>2. CASE q # r
      BY <1>1, <2>1, <3>2 DEF TxOf, Started
    <3> QED
      BY <3>1, <3>2
  <2>3. InPlace(q) /\ Ahead(q)
    BY <1>2, <1>3, <2>1, AloneBefore DEF Approved
  <2>4. InPlace(q)'
    BY <1>1, <2>1, <2>2, <2>3, StaysInPlace
  <2>5. Ahead(q)'
    BY <1>1, <1>2, <2>1, <2>3 DEF Ahead, Started
  <2> QED
    BY <2>4, <2>5
<1>4. Approved'
  BY <1>3 DEF Approved
<1> QED
  BY <1>1, <1>2, <1>4, ChainRests

\* An acknowledged approve is in place, and puts no other's out of it.
LEMMA AcknowledgedAllowed ==
    ASSUME AllowInv, NEW r \in RunId, Acknowledged(r), now' = now
    PROVE  Approved' /\ Funds'
<1> USE DEF AllowInv, RunInv
<1>t. PICK t : t = TxOf(r, run[r].step)
  OBVIOUS
<1>1. /\ run[r].stage = "sending" /\ \A q \in RunId \ {r} : run'[q] = run[q]
      /\ run'[r].nonce = run[r].nonce /\ run'[r].stage # "unused"
      /\ UNCHANGED <<chain, allowance, inflight>>
      /\ TakesIn(t)
  BY <1>t DEF Acknowledged, Others, Signs
<1>2. \A q \in RunId : \A s : TxOf(q, s)' = TxOf(q, s)
  BY TxKept DEF Acknowledged
<1>3. Started' = Started /\ r \in Started
  BY <1>1, StartedKept DEF Acknowledged, Started
<1>4. t.run = r /\ t.nonce = run[r].nonce + run[r].step - 1
  BY <1>t DEF TxOf
<1>5. pool' = {u \in pool : u.nonce # t.nonce} \cup {t}
  BY <1>1 DEF TakesIn
<1>6. run[r].step \in 1..LastStep /\ LastStep \in {1, 2} /\ run[r].nonce \in Nat
  <2>1. run[r] \in Record
    BY DEF Typed
  <2> QED
    BY <2>1 DEF Record, LastStep
<1>7. ASSUME Alone, NEW q \in Started
      PROVE  q[1] = r[1] /\ q[2] <= r[2] /\ (q[2] = r[2] => q = r)
  BY <1>1, <1>3, <1>7, NoneAfter
<1>8. ASSUME Alone', NEW q \in Started', run'[q].step = 2
      PROVE  InPlace(q)' /\ Ahead(q)'
  <2>1. q \in Started /\ q \in RunId /\ Alone
    BY <1>3, <1>8, AloneBefore DEF Started
  <2>2. CASE q = r
    <3>1. ASSUME NEW s \in Started', q[2] < s[2] PROVE FALSE
      <4>1. s[2] <= r[2] /\ r[2] \in Nat /\ s[2] \in Nat
        BY <1>3, <1>7, <2>1, EvmAssumption DEF Started, RunId
      <4> QED
        BY <2>2, <3>1, <4>1
    <3>2. InPlace(q)'
      <4>1. CASE run[r].step = 1
        <5>1. TxOf(r, 1)' \in pool'
          BY <1>2, <1>5, <1>t, <4>1
        <5> QED
          BY <2>2, <5>1 DEF InPlace
      <4>2. CASE run[r].step = 2
        <5>1. InPlace(r)
          BY <1>3, <2>1, <4>2 DEF Approved
        <5>2. TxOf(r, 1).nonce = run[r].nonce
          BY <1>6 DEF TxOf
        <5>3. TxOf(r, 1) \in pool => TxOf(r, 1) \in pool'
          BY <1>4, <1>5, <1>6, <4>2, <5>2
        <5> QED
          BY <1>1, <1>2, <2>2, <5>1, <5>3, StaysInPlace
      <4> QED
        BY <1>6, <4>1, <4>2
    <3> QED
      BY <3>1, <3>2 DEF Ahead
  <2>3. CASE q # r
    <3>1. run'[q] = run[q]
      BY <1>1, <2>1, <2>3
    <3>2. InPlace(q) /\ Ahead(q)
      BY <1>8, <2>1, <3>1 DEF Approved
    <3>3. TxOf(q, 1) \in pool => TxOf(q, 1) \in pool'
      <4>1. q[2] < r[2]
        BY <1>7, <2>1, <2>3, EvmAssumption DEF RunId
      <4>2. run[q].nonce < run[r].nonce /\ run[q].nonce \in Nat
        BY <1>3, <2>1, <3>2, <4>1 DEF Ahead, Typed, Record
      <4>3. TxOf(q, 1).nonce = run[q].nonce
        BY <4>2 DEF TxOf
      <4>4. run[q].nonce # t.nonce
        BY <1>4, <1>6, <4>2
      <4> QED
        BY <1>5, <4>3, <4>4
    <3>4. InPlace(q)'
      BY <1>1, <1>2, <2>1, <3>1, <3>2, <3>3, StaysInPlace
    <3>5. Ahead(q)'
      BY <1>1, <1>3, <3>1, <3>2 DEF Ahead, Started
    <3> QED
      BY <3>4, <3>5
  <2> QED
    BY <2>2, <2>3
<1>9. Approved'
  BY <1>8 DEF Approved
<1> QED
  BY <1>1, <1>3, <1>9, ChainRests

\* So does a transaction that arrives late.
LEMMA DeliverAllowed ==
    ASSUME WaitsForNews, AllowInv, Deliver
    PROVE  Approved' /\ Funds'
<1> USE DEF AllowInv, RunInv
<1>1. PICK t \in inflight : TakesIn(t) /\ inflight' = inflight \ {t}
                            /\ UNCHANGED <<now, run, chain, allowance>>
  BY DEF Deliver
<1>2. pool' = {u \in pool : u.nonce # t.nonce} \cup {t}
  BY <1>1 DEF TakesIn
<1>3. run[t.run].told \notin Rerun
  BY DEF Signed, WaitsForNews
<1>4. Started' = Started
  BY <1>1 DEF Started
<1>5. ASSUME Alone', NEW q \in Started', run'[q].step = 2
      PROVE  InPlace(q)' /\ Ahead(q)'
  <2>1. q \in Started /\ Alone /\ run[q].step = 2
    BY <1>1, <1>4, <1>5, AloneBefore
  <2>2. InPlace(q) /\ Ahead(q)
    BY <2>1 DEF Approved
  <2>3. TxOf(q, 1) \in pool => TxOf(q, 1) \in pool'
    <3>1. CASE TxOf(q, 1) = t
      BY <1>2, <3>1
    <3>2. CASE TxOf(q, 1) # t
      <4>1. run[q].nonce # t.nonce
        BY <1>3, <2>1, <3>2, TakesNoApprove
      <4>2. TxOf(q, 1).nonce = run[q].nonce
        <5>1. run[q].nonce \in Nat
          BY <2>1 DEF Started, Typed, Record
        <5> QED
          BY <5>1 DEF TxOf
      <4> QED
        BY <1>2, <4>1, <4>2
    <3> QED
      BY <3>1, <3>2
  <2>4. TxOf(q, 1)' = TxOf(q, 1) /\ run'[q].nonce = run[q].nonce
    BY <1>1 DEF TxOf
  <2>5. InPlace(q)'
    BY <1>1, <2>2, <2>3, <2>4, StaysInPlace
  <2>6. Ahead(q)'
    BY <1>1, <1>4, <2>2 DEF Ahead
  <2> QED
    BY <2>5, <2>6
<1>6. Approved'
  BY <1>5 DEF Approved
<1> QED
  BY <1>1, <1>4, <1>6, ChainRests

\* What a run signs: the approve at its nonce, for a token only, and the deposit
\* at its last.
LEMMA SignedAs ==
    ASSUME RunInv, NEW t \in accepted
    PROVE  /\ t.run \in RunId /\ run[t.run].nonce \in Nat
           /\ t.amt = run[t.run].amt /\ t.amt \in Nat /\ t.exp \in Nat
           /\ t.kind \in {"approve", "deposit"}
           /\ t.kind = "approve" => Token /\ t.nonce = run[t.run].nonce
           /\ t.kind = "deposit" => t.nonce = run[t.run].nonce + LastStep - 1
                                    /\ run[t.run].step = LastStep
<1>1. PICK r \in RunId : r = t.run
  BY DEF RunInv, Signed
<1>2. PICK s \in 1..run[r].step : t = TxOf(r, s)
  BY <1>1 DEF RunInv, Signed
<1>3. run[r] \in Record
  BY DEF RunInv, Typed
<1>4. /\ run[r].nonce \in Nat /\ run[r].amt \in Nat /\ run[r].exp \in Nat
      /\ run[r].step \in 1..LastStep
  BY <1>3 DEF Record
<1>5. LastStep \in {1, 2} /\ (LastStep = 2 => Token)
  BY EvmAssumption DEF LastStep
<1>6. /\ TxOf(r, s).amt = run[r].amt /\ TxOf(r, s).exp = run[r].exp
      /\ TxOf(r, s).nonce = run[r].nonce + s - 1
      /\ TxOf(r, s).kind = IF s = LastStep THEN "deposit" ELSE "approve"
  BY DEF TxOf
<1>7. CASE s = LastStep
  <2>1. t.kind = "deposit" /\ run[r].step = LastStep
    BY <1>2, <1>4, <1>5, <1>6, <1>7
  <2> QED
    BY <1>1, <1>2, <1>4, <1>6, <1>7, <2>1
<1>8. CASE s # LastStep
  <2>1. s = 1 /\ LastStep = 2
    BY <1>2, <1>4, <1>5, <1>8
  <2>2. t.kind = "approve" /\ t.nonce = run[r].nonce
    BY <1>2, <1>4, <1>6, <1>8, <2>1
  <2> QED
    BY <1>1, <1>2, <1>4, <1>5, <1>6, <2>1, <2>2
<1> QED
  BY <1>7, <1>8

\* What the chain holds came from a run.
LEMMA MinedTx ==
    ASSUME RunInv, NEW i \in DOMAIN chain
    PROVE  chain[i].tx \in accepted /\ chain[i].ok \in BOOLEAN /\ chain[i].tx.exp \in Nat
<1>1. chain[i] \in [tx: accepted, ok: BOOLEAN]
  BY SeqElement DEF RunInv, PayInv, FromTheMempool
<1> QED
  BY <1>1, SignedAs

\* A deposit of an ERC-20 run is mined right after the run's own approve.
LEMMA ApprovedBefore ==
    ASSUME AllowInv, Alone, Token, NEW t \in pool, t.kind = "deposit",
           t.nonce = Len(chain)
    PROVE  /\ Len(chain) \in DOMAIN chain
           /\ chain[Len(chain)].tx.run = t.run
           /\ chain[Len(chain)].tx.kind = "approve"
           /\ chain[Len(chain)].tx.amt = t.amt
<1> USE DEF AllowInv, RunInv
<1>1. t \in accepted
  BY DEF PayInv, FromTheMempool
<1>2. PICK r \in RunId : r = t.run
  BY <1>1, SignedAs
<1>3. LastStep = 2
  BY DEF LastStep
<1>4. /\ run[r].nonce \in Nat /\ run[r].step = 2 /\ t.amt = run[r].amt
      /\ t.nonce = run[r].nonce + 1
  BY <1>1, <1>2, <1>3, SignedAs
<1>5. /\ TxOf(r, 1).nonce = run[r].nonce /\ TxOf(r, 1).amt = run[r].amt
      /\ TxOf(r, 1).kind = "approve" /\ TxOf(r, 1).run = r
  BY <1>3, <1>4 DEF TxOf
<1>6. r \in Started
  BY <1>1, <1>2 DEF Started, Signed
<1>7. Len(chain) \in Nat
  BY ChainLength
<1>8. TxOf(r, 1) \notin pool
  <2> SUFFICES ASSUME TxOf(r, 1) \in pool PROVE FALSE
    OBVIOUS
  <2>1. run[r].nonce >= Len(chain)
    BY <1>5 DEF Queued
  <2> QED
    BY <1>4, <1>7, <2>1
<1>9. InPlace(r)
  BY <1>4, <1>6 DEF Approved
<1>10. Len(chain) \in DOMAIN chain /\ chain[Len(chain)].tx = TxOf(r, 1)
  BY <1>4, <1>8, <1>9 DEF InPlace
<1> QED
  BY <1>2, <1>4, <1>5, <1>10

\* A run is paid by the deposit that follows its approve, so an approval that is
\* followed by something else was left for good.
LEMMA LeftForGood ==
    ASSUME RunInv, Standing, NEW t \in accepted, t.nonce = Len(chain), t.kind = "deposit",
           NEW j \in DOMAIN chain, chain[j].tx.kind = "approve", chain[j].tx.run = t.run
    PROVE  j = Len(chain)
<1>1. chain[j].tx.nonce = j - 1 /\ Len(chain) \in Nat /\ j \in Nat
  BY ChainLength DEF Standing
<1>2. Token /\ chain[j].tx.nonce = run[t.run].nonce
  BY MinedTx, SignedAs
<1>3. t.nonce = run[t.run].nonce + 1 /\ run[t.run].nonce \in Nat
  BY <1>2, SignedAs DEF LastStep
<1> QED
  BY <1>1, <1>2, <1>3

\* The chain grows by that transaction.
LEMMA ChainGrows ==
    ASSUME RunInv, NEW t \in pool, NEW ok \in BOOLEAN, Mined(t, ok)
    PROVE  /\ Len(chain) \in Nat /\ DOMAIN chain = 1..Len(chain)
           /\ Len(chain') = Len(chain) + 1 /\ DOMAIN chain' = 1..(Len(chain) + 1)
           /\ \A i \in DOMAIN chain : i \in DOMAIN chain' /\ chain'[i] = chain[i]
           /\ chain'[Len(chain) + 1].tx = t /\ chain'[Len(chain) + 1].ok = ok
           /\ \A i \in DOMAIN chain' : i \in DOMAIN chain \/ i = Len(chain) + 1
           /\ t \in accepted
<1>1. Len(chain) \in Nat /\ DOMAIN chain = 1..Len(chain)
  BY ChainLength
<1>2. /\ Len(chain') = Len(chain) + 1 /\ DOMAIN chain' = 1..(Len(chain) + 1)
      /\ \A i \in DOMAIN chain : i \in DOMAIN chain' /\ chain'[i] = chain[i]
      /\ chain'[Len(chain) + 1].tx = t /\ chain'[Len(chain) + 1].ok = ok
  BY DEF RunInv, PayInv, FromTheMempool, Mined
<1>3. t \in accepted
  BY DEF RunInv, PayInv, FromTheMempool
<1> QED
  BY <1>1, <1>2, <1>3

\* An approve that is mined is in place.
LEMMA MineApproved ==
    ASSUME AllowInv, NEW t \in pool, NEW ok \in BOOLEAN, Mined(t, ok)
    PROVE  Approved'
<1> USE DEF AllowInv, RunInv
<1>1. t.nonce = Len(chain) /\ pool' = pool \ {t} /\ run' = run
  BY DEF Mined
<1>2. Started' = Started /\ (Alone' <=> Alone)
  BY <1>1 DEF Started, Alone
<1> SUFFICES ASSUME Alone', NEW q \in Started', run'[q].step = 2
             PROVE  InPlace(q)' /\ Ahead(q)'
  BY DEF Approved
<1>3. q \in Started /\ Alone /\ run[q].step = 2
  BY <1>1, <1>2
<1>4. InPlace(q) /\ Ahead(q)
  BY <1>3 DEF Approved
<1>5. TxOf(q, 1)' = TxOf(q, 1) /\ run'[q] = run[q]
  BY <1>1 DEF TxOf
<1>6. run[q].nonce \in Nat
  BY <1>3 DEF Started, Typed, Record
<1>7. InPlace(q)'
  <2>1. CASE TxOf(q, 1) = t
    <3>1. TxOf(q, 1).nonce = run[q].nonce
      BY <1>6 DEF TxOf
    <3>2. run[q].nonce + 1 = Len(chain) + 1
      BY <1>1, <2>1, <3>1
    <3> QED
      BY <1>5, <2>1, <3>2, ChainGrows DEF InPlace
  <2>2. CASE TxOf(q, 1) \in pool /\ TxOf(q, 1) # t
    BY <1>1, <1>5, <2>2 DEF InPlace
  <2>3. CASE run[q].nonce + 1 \in DOMAIN chain /\ chain[run[q].nonce + 1].tx = TxOf(q, 1)
    BY <1>5, <2>3, ChainGrows DEF InPlace
  <2> QED
    BY <1>4, <2>1, <2>2, <2>3 DEF InPlace
<1>8. Ahead(q)'
  BY <1>1, <1>2, <1>4 DEF Ahead
<1> QED
  BY <1>7, <1>8

\* An approve grants its amount, a deposit takes its own.
LEMMA MineStanding ==
    ASSUME RunInv, Standing, NEW t \in pool, NEW ok \in BOOLEAN, Mined(t, ok),
           ok = Executes(t)
    PROVE  Standing'
<1>1. t \in accepted /\ t.nonce = Len(chain)
  BY ChainGrows DEF Mined
<1>2. t.amt \in Nat /\ t.kind \in {"approve", "deposit"} /\ (t.kind = "approve" => Token)
  BY <1>1, SignedAs
<1>3. allowance \in Nat
  BY DEF Standing
<1>4. allowance' \in Nat
  <2>1. CASE ok /\ Token /\ t.kind = "deposit"
    <3>1. allowance >= t.amt
      BY <2>1 DEF Executes
    <3> QED
      BY <1>2, <1>3, <2>1, <3>1 DEF Mined
  <2>2. CASE ~ (ok /\ Token /\ t.kind = "deposit")
    BY <1>2, <1>3, <2>2 DEF Mined
  <2> QED
    BY <2>1, <2>2
<1>5. ~ Token => allowance' = 0
  BY DEF Mined, Standing
<1>6. t.kind = "approve" /\ ok => allowance' = t.amt
  BY <1>2 DEF Mined
<1>7. chain' # << >> /\ chain'[Len(chain')].tx.kind = "approve" /\ chain'[Len(chain')].ok =>
          allowance' = chain'[Len(chain')].tx.amt
  BY <1>6, ChainGrows
<1>8. t.kind = "deposit" /\ ~ ok => Token
  BY DEF Executes
<1>9. ASSUME NEW i \in DOMAIN chain'
      PROVE  /\ chain'[i].tx.kind = "deposit" /\ ~ chain'[i].ok => Token
             /\ chain'[i].tx.nonce = i - 1
  <2>1. CASE i \in DOMAIN chain
    BY <2>1, ChainGrows DEF Standing
  <2>2. CASE i = Len(chain) + 1
    <3>1. chain'[i].tx = t /\ chain'[i].ok = ok /\ i - 1 = Len(chain)
      BY <2>2, ChainGrows
    <3> QED
      BY <1>1, <1>8, <3>1
  <2> QED
    BY <1>9, <2>1, <2>2, ChainGrows
<1> QED
  BY <1>4, <1>5, <1>7, <1>9 DEF Standing

\* An approval that was left stays so, unless it was mined last and its own
\* deposit follows.
LEMMA LeftStays ==
    ASSUME RunInv, Standing, NEW t \in pool, NEW ok \in BOOLEAN, Mined(t, ok),
           NEW j \in DOMAIN chain, LeftApproved(j),
           j < Len(chain) \/ ~ ok \/ t.kind = "approve"
    PROVE  j \in DOMAIN chain' /\ LeftApproved(j)'
<1>1. t \in accepted /\ t.nonce = Len(chain)
  BY ChainGrows DEF Mined
<1>2. j \in DOMAIN chain' /\ chain'[j] = chain[j]
  BY ChainGrows
<1>3. ASSUME chain[j].tx.run \in Paid' PROVE FALSE
  <2>1. PICK i \in DOMAIN chain' : /\ chain'[i].ok /\ chain'[i].tx.kind = "deposit"
                                   /\ chain'[i].tx.run = chain[j].tx.run
    BY <1>3 DEF Paid
  <2>2. CASE i \in DOMAIN chain
    <3>1. chain[j].tx.run \in Paid
      BY <2>1, <2>2, ChainGrows DEF Paid
    <3> QED
      BY <3>1 DEF LeftApproved
  <2>3. CASE i = Len(chain) + 1
    <3>1. chain'[i].tx = t /\ chain'[i].ok = ok
      BY <2>3, ChainGrows
    <3>2. t.kind = "deposit" /\ ok /\ t.run = chain[j].tx.run
      BY <2>1, <3>1
    <3>3. j = Len(chain)
      BY <1>1, <3>2, LeftForGood DEF LeftApproved
    <3> QED
      BY <3>2, <3>3, ChainLength
  <2> QED
    BY <2>1, <2>2, <2>3, ChainGrows
<1> QED
  BY <1>2, <1>3 DEF LeftApproved

\* An approval that is executed has not been drawn on.
LEMMA FreshApproval ==
    ASSUME RunInv, Standing, NEW t \in pool, NEW ok \in BOOLEAN, Mined(t, ok),
           ok, t.kind = "approve", NEW n, n = Len(chain) + 1
    PROVE  LeftApproved(n)'
<1>1. t \in accepted /\ t.nonce = Len(chain)
  BY ChainGrows DEF Mined
<1>2. ASSUME t.run \in Paid' PROVE FALSE
  <2>1. PICK i \in DOMAIN chain' : /\ chain'[i].ok /\ chain'[i].tx.kind = "deposit"
                                   /\ chain'[i].tx.run = t.run
    BY <1>2 DEF Paid
  <2>2. i \in DOMAIN chain /\ chain'[i] = chain[i]
    BY <2>1, ChainGrows
  <2>3. chain[i].tx \in accepted /\ chain[i].tx.nonce = i - 1
    BY <2>2, MinedTx DEF Standing
  <2>4. Token /\ t.nonce = run[t.run].nonce /\ run[t.run].nonce \in Nat
    BY <1>1, SignedAs
  <2>5. chain[i].tx.nonce = run[t.run].nonce + LastStep - 1
    BY <2>1, <2>2, <2>3, SignedAs
  <2>6. i - 1 = Len(chain) + 1
    BY <1>1, <2>3, <2>4, <2>5 DEF LastStep
  <2> QED
    BY <2>2, <2>6, ChainLength
<1>3. chain'[n].tx = t /\ chain'[n].ok = ok
  BY ChainGrows
<1> QED
  BY <1>2, <1>3 DEF LeftApproved

\* Only a deposit that its own approval covers exactly leaves nothing; what it
\* leaves otherwise was left before.
LEMMA MineLeftover ==
    ASSUME AllowInv, NEW t \in pool, NEW ok \in BOOLEAN, Mined(t, ok), ok = Executes(t)
    PROVE  Leftover'
<1> USE DEF AllowInv, Funds
<1>1. /\ t \in accepted /\ t.nonce = Len(chain) /\ run' = run
      /\ Len(chain) \in Nat /\ DOMAIN chain = 1..Len(chain)
      /\ DOMAIN chain' = 1..(Len(chain) + 1)
  BY ChainGrows DEF Mined
<1>2. Alone' <=> Alone
  BY <1>1 DEF Alone
<1>3. /\ t.amt \in Nat /\ t.kind \in {"approve", "deposit"}
      /\ t.kind = "approve" => Token
      /\ allowance \in Nat
  BY <1>1, SignedAs DEF Standing
<1> SUFFICES ASSUME Alone
             PROVE  /\ allowance' > 0 => \E j \in DOMAIN chain' : LeftApproved(j)'
                    /\ \A i \in DOMAIN chain' :
                           chain'[i].tx.kind = "approve" /\ ~ chain'[i].ok =>
                               Resets /\ \E j \in 1..(i - 1) : LeftApproved(j)'
  BY <1>2 DEF Leftover
<1>4. ASSUME NEW i \in DOMAIN chain, chain[i].tx.kind = "approve", ~ chain[i].ok
      PROVE  Resets /\ \E j \in 1..(i - 1) : LeftApproved(j)'
  <2>1. Resets /\ \E j \in 1..(i - 1) : LeftApproved(j)
    BY <1>4 DEF Leftover
  <2>2. PICK j : j \in 1..(i - 1) /\ LeftApproved(j)
    BY <2>1
  <2>3. j \in DOMAIN chain /\ j < Len(chain)
    BY <1>1, <2>2
  <2>4. LeftApproved(j)'
    BY <2>2, <2>3, LeftStays
  <2> QED
    BY <2>1, <2>2, <2>4
<1>5. ASSUME t.kind = "approve", ~ ok
      PROVE  Resets /\ allowance > 0
  BY <1>5 DEF Executes
<1>6. ASSUME allowance > 0, ~ ok \/ t.kind = "approve"
      PROVE  \E j \in DOMAIN chain : LeftApproved(j)'
  <2>1. PICK j \in DOMAIN chain : LeftApproved(j)
    BY <1>6 DEF Leftover
  <2>2. LeftApproved(j)'
    BY <1>6, <2>1, LeftStays
  <2> QED
    BY <2>2
<1>7. ASSUME allowance' > 0 PROVE \E j \in DOMAIN chain' : LeftApproved(j)'
  <2>1. CASE t.kind = "approve" /\ ok
    <3>1. PICK n : n = Len(chain) + 1
      OBVIOUS
    <3>2. LeftApproved(n)'
      BY <2>1, <3>1, FreshApproval
    <3> QED
      BY <1>1, <3>1, <3>2
  <2>2. CASE ~ ok
    <3>1. allowance' = allowance
      BY <2>2 DEF Mined
    <3> QED
      BY <1>1, <1>6, <1>7, <2>2, <3>1
  <2>3. CASE ok /\ t.kind = "deposit"
    <3>1. Token /\ allowance' = allowance - t.amt
      BY <1>3, <1>7, <2>3 DEF Mined, Standing
    <3>2. /\ Len(chain) \in DOMAIN chain /\ chain[Len(chain)].tx.kind = "approve"
          /\ chain[Len(chain)].tx.amt = t.amt
      BY <1>1, <2>3, <3>1, ApprovedBefore
    <3>3. chain # << >>
      BY <1>1, <3>2
    <3>4. ~ chain[Len(chain)].ok
      BY <1>3, <1>7, <3>1, <3>2, <3>3 DEF Standing
    <3>5. PICK j \in 1..(Len(chain) - 1) : LeftApproved(j)'
      BY <1>4, <3>2, <3>4
    <3> QED
      BY <1>1, <3>5
  <2> QED
    BY <1>3, <2>1, <2>2, <2>3
<1>8. ASSUME NEW i \in DOMAIN chain', chain'[i].tx.kind = "approve", ~ chain'[i].ok
      PROVE  Resets /\ \E j \in 1..(i - 1) : LeftApproved(j)'
  <2>1. CASE i \in DOMAIN chain
    BY <1>4, <1>8, <2>1, ChainGrows
  <2>2. CASE i = Len(chain) + 1
    <3>1. t.kind = "approve" /\ ~ ok /\ 1..(i - 1) = DOMAIN chain
      BY <1>1, <1>8, <2>2, ChainGrows
    <3> QED
      BY <1>5, <1>6, <3>1
  <2> QED
    BY <2>1, <2>2, ChainGrows
<1> QED
  BY <1>7, <1>8

\* A deposit that fails before its expiry fails because its approve did.
LEMMA MineCovered ==
    ASSUME AllowInv, NEW t \in pool, NEW ok \in BOOLEAN, Mined(t, ok), ok = Executes(t)
    PROVE  DepositIsCovered'
<1> USE DEF AllowInv, Funds
<1>1. /\ t \in accepted /\ t.nonce = Len(chain) /\ run' = run /\ now' = now
      /\ Len(chain) \in Nat /\ DOMAIN chain = 1..Len(chain)
  BY ChainGrows DEF Mined
<1>2. Alone' <=> Alone
  BY <1>1 DEF Alone
<1> SUFFICES ASSUME Alone, NEW i \in DOMAIN chain',
                    chain'[i].tx.kind = "deposit", ~ chain'[i].ok, ~ (now >= chain'[i].tx.exp)
             PROVE  /\ Resets
                    /\ chain'[i - 1].tx.run = chain'[i].tx.run /\ ~ chain'[i - 1].ok
                    /\ \E j \in 1..(i - 2) : LeftApproved(j)'
  BY <1>1, <1>2 DEF DepositIsCovered
<1>3. CASE i \in DOMAIN chain
  <2>1. chain'[i] = chain[i]
    BY <1>3, ChainGrows
  <2>2. /\ Resets /\ chain[i - 1].tx.run = chain[i].tx.run /\ ~ chain[i - 1].ok
        /\ \E j \in 1..(i - 2) : LeftApproved(j)
    BY <1>3, <2>1 DEF DepositIsCovered
  <2>3. PICK j : j \in 1..(i - 2) /\ LeftApproved(j)
    BY <2>2
  <2>4. j \in DOMAIN chain /\ j < Len(chain) /\ i - 1 \in DOMAIN chain
    BY <1>1, <1>3, <2>3
  <2>5. LeftApproved(j)' /\ chain'[i - 1] = chain[i - 1]
    BY <2>3, <2>4, LeftStays, ChainGrows
  <2> QED
    BY <2>1, <2>2, <2>3, <2>5
<1>4. CASE i = Len(chain) + 1
  <2>1. chain'[i].tx = t /\ chain'[i].ok = ok
    BY <1>4, ChainGrows
  <2>2. t.kind = "deposit" /\ ~ ok /\ t.amt \in Nat /\ t.exp \in Nat /\ allowance \in Nat
    BY <1>1, <2>1, SignedAs DEF Standing
  <2>3. now \in Nat /\ ~ (now >= t.exp)
    BY <2>1 DEF RunInv, Typed
  <2>4. Token /\ ~ (allowance >= t.amt)
    <3>1. Token /\ ~ (allowance >= t.amt /\ now < t.exp)
      BY <2>2 DEF Executes
    <3> QED
      BY <2>2, <2>3, <3>1
  <2>5. /\ Len(chain) \in DOMAIN chain /\ chain[Len(chain)].tx.run = t.run
        /\ chain[Len(chain)].tx.kind = "approve"
        /\ chain[Len(chain)].tx.amt = t.amt
    BY <1>1, <2>2, <2>4, ApprovedBefore
  <2>6. chain # << >>
    BY <1>1, <2>5
  <2>7. ~ chain[Len(chain)].ok
    BY <2>2, <2>4, <2>5, <2>6 DEF Standing
  <2>8. Resets /\ \E j \in 1..(Len(chain) - 1) : LeftApproved(j)
    BY <2>5, <2>7 DEF Leftover
  <2>9. PICK j : j \in 1..(Len(chain) - 1) /\ LeftApproved(j)
    BY <2>8
  <2>10. j \in DOMAIN chain /\ j < Len(chain) /\ i - 1 = Len(chain)
         /\ i - 2 = Len(chain) - 1
    BY <1>1, <1>4, <2>9
  <2>11. LeftApproved(j)' /\ chain'[i - 1] = chain[i - 1]
    BY <2>5, <2>9, <2>10, LeftStays, ChainGrows
  <2> QED
    BY <2>1, <2>5, <2>7, <2>8, <2>9, <2>10, <2>11
<1> QED
  BY <1>3, <1>4, ChainGrows

\* The chain keeps the approvals in order.
LEMMA MineAllowed ==
    ASSUME AllowInv, Mine
    PROVE  Approved' /\ Funds'
<1>1. PICK t \in pool, ok \in BOOLEAN : Mined(t, ok) /\ ok = Executes(t)
  BY MinesOne
<1>2. Approved'
  BY <1>1, MineApproved
<1>3. Standing' /\ Leftover' /\ DepositIsCovered'
  BY <1>1, MineStanding, MineLeftover, MineCovered DEF AllowInv, Funds
<1> QED
  BY <1>2, <1>3 DEF Funds

\* Time only expires quotes.
LEMMA TickAllowed ==
    ASSUME AllowInv, Tick \/ UNCHANGED vars
    PROVE  Approved' /\ Funds'
<1> USE DEF AllowInv, RunInv, Funds
<1>1. /\ UNCHANGED <<run, pool, chain, allowance, inflight, accepted>>
      /\ now \in Nat /\ now' \in Nat /\ now' >= now
  BY DEF Tick, vars, Typed
<1>2. Started' = Started /\ (Alone' <=> Alone)
  BY <1>1 DEF Started, Alone
<1>3. Approved'
  <2>1. \A q : \A s : TxOf(q, s)' = TxOf(q, s)
    BY <1>1 DEF TxOf
  <2>2. \A q : (InPlace(q)' <=> InPlace(q)) /\ (Ahead(q)' <=> Ahead(q))
    BY <1>1, <1>2, <2>1 DEF InPlace, Ahead
  <2> QED
    BY <1>1, <1>2, <2>2 DEF Approved
<1>4. \A j : LeftApproved(j)' <=> LeftApproved(j)
  BY <1>1 DEF LeftApproved, Paid
<1>5. Standing' /\ Leftover'
  BY <1>1, <1>2, <1>4 DEF Standing, Leftover
<1>6. DepositIsCovered'
  <2> SUFFICES ASSUME Alone', NEW i \in DOMAIN chain',
                      chain'[i].tx.kind = "deposit", ~ chain'[i].ok,
                      ~ (now' >= chain'[i].tx.exp)
               PROVE  /\ Resets
                      /\ chain'[i - 1].tx.run = chain'[i].tx.run /\ ~ chain'[i - 1].ok
                      /\ \E j \in 1..(i - 2) : LeftApproved(j)'
    BY DEF DepositIsCovered
  <2>1. chain[i].tx.exp \in Nat
    BY <1>1, MinedTx
  <2>2. ~ (now >= chain[i].tx.exp)
    BY <1>1, <2>1
  <2> QED
    BY <1>1, <1>2, <1>4, <2>2 DEF DepositIsCovered
<1> QED
  BY <1>3, <1>5, <1>6

\* Before any run no deposit is about to be mined, so none lacks its allowance.
LEMMA InitAllowInv == Init => AllowInv
<1> SUFFICES ASSUME Init PROVE AllowInv
  OBVIOUS
<1>1. Started = {} /\ chain = << >> /\ DOMAIN chain = {} /\ allowance = 0
  BY DEF Init, Started
<1>2. Approved /\ Standing /\ Leftover /\ DepositIsCovered
  BY <1>1 DEF Approved, Standing, Leftover, DepositIsCovered
<1> QED
  BY <1>2, InitRunInv DEF AllowInv, Funds

\* For a user of one terminal who waits for news of an unanswered broadcast, every
\* step keeps the allowance that the deposits on their way rely on.
LEMMA NextAllowInv == ASSUME WaitsForNews PROVE AllowInv /\ [Next]_vars => AllowInv'
<1> SUFFICES ASSUME AllowInv, [Next]_vars PROVE AllowInv'
  OBVIOUS
<1>1. RunInv /\ RunInv'
  BY NextRunInv DEF AllowInv
<1>2. ASSUME NEW r \in RunId, Start(r) PROVE AllowInv'
  <2>1. Begins(r)
    BY <1>1, <1>2, NextNonce, StartSteps DEF RunInv
  <2> QED
    BY <1>1, <2>1, BeginsAllowed DEF AllowInv
<1>3. ASSUME NEW r \in RunId,
             \/ PrepareAborts(r) \/ Prepare(r) \/ Decline(r) \/ Confirm(r)
             \/ PostRejected(r) \/ Kill(r)
      PROVE  AllowInv'
  <2>1. Talks(r) /\ now' = now
    BY <1>1, <1>3, TalkSteps
       DEF RunInv, PrepareAborts, Prepare, Decline, Confirm, PostRejected, Kill
  <2> QED
    BY <1>1, <2>1, TalksAllowed DEF AllowInv
<1>4. ASSUME NEW r \in RunId, PostAcked(r) \/ PostUnanswered(r) PROVE AllowInv'
  <2>1. (Acknowledged(r) \/ GivenUp(r)) /\ now' = now
    BY <1>1, <1>4, PostSteps DEF RunInv, PostAcked, PostUnanswered
  <2> QED
    BY <1>1, <2>1, AcknowledgedAllowed, TalksAllowed DEF AllowInv
<1>5. CASE Deliver
  BY <1>1, <1>5, DeliverAllowed DEF AllowInv
<1>6. CASE Mine
  BY <1>1, <1>6, MineAllowed DEF AllowInv
<1>7. CASE Tick \/ UNCHANGED vars
  BY <1>1, <1>7, TickAllowed DEF AllowInv
<1> QED
  BY <1>2, <1>3, <1>4, <1>5, <1>6, <1>7 DEF Next, Post

\* On one terminal, a deposit that fails before its expiry is of a token that
\* reverts an approve over a standing allowance, and fails because its own approve
\* was reverted so, over what an unpaid run had left approved: broadcast posts the
\* exact approve just before the deposit, and a deposit that is executed takes all
\* of it.  The user may swap again after every report but an unanswered broadcast.
THEOREM DepositAlwaysCovered ==
    ASSUME WaitsForNews
    PROVE  Spec => []DepositIsCovered
<1>1. AllowInv => DepositIsCovered
  BY DEF AllowInv, Funds
<1> QED
  BY <1>1, InitAllowInv, NextAllowInv, PTL DEF Spec
=============================================================================
