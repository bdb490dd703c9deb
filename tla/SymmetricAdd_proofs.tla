------------------------ MODULE SymmetricAdd_proofs -------------------------
(***************************************************************************)
(* While every POST is answered, the symmetric add implements TwoLegAdd,    *)
(* for any number of runs, any balance and any legs' lifetime, whatever the *)
(* networks do with the legs they took.                                     *)
(***************************************************************************)
EXTENDS SymmetricAdd, TLAPS

\* Which legs can be where at each stage of a run, and behind each report.
LegsOf(r) ==
    /\ protocol[r] \in {"unsent", "failed"} \cup Out
    /\ asset[r] \in {"unsent", "failed"} \cup Out
    /\ run[r].stage \in Stage
    /\ run[r].stage \in {"unused", "prompt", "protocol"} =>
           protocol[r] = "unsent" /\ asset[r] = "unsent"
    /\ run[r].stage = "asset" => protocol[r] \in Out /\ asset[r] = "unsent"
    /\ run[r].stage = "ended" =>
           \/ run[r].told \in Refusals \cup {"failed"}
                  /\ protocol[r] \notin Out /\ asset[r] \notin Out
           \/ run[r].told = "partial" /\ protocol[r] \in Out /\ asset[r] = "failed"
           \/ run[r].told = "both" /\ protocol[r] \in Out /\ asset[r] \in Out

\* The functions the state is made of, without the rest of the types.
Commands == [Runs -> [stage: Stage, told: Reports, exp: Nat, seq: Nat]]

Shape ==
    /\ run \in Commands
    /\ protocol \in [Runs -> LegState]
    /\ asset \in [Runs -> LegState]
    /\ now \in Nat /\ sequence \in Nat

LegsInv == Shape /\ \A r \in Runs : LegsOf(r)

\* Before any add is prepared no leg is out.
LEMMA InitLegsInv == Init => LegsInv
  BY SymAssumption DEF Init, LegsInv, Shape, Commands, LegsOf, Stage, Reports, Refusals,
                       LegState, Out

\* A step of one run leaves the other runs' legs and reports alone.
Others(r) ==
    \A q \in Runs \ {r} :
        run'[q] = run[q] /\ protocol'[q] = protocol[q] /\ asset'[q] = asset[q]

\* A step of one run is judged by that run alone.
LEMMA OneRunSteps ==
    ASSUME LegsInv, NEW r \in Runs, Others(r), Shape', LegsOf(r)'
    PROVE  LegsInv'
<1>1. ASSUME NEW q \in Runs \ {r} PROVE LegsOf(q)'
  <2>1. LegsOf(q)
    BY DEF LegsInv
  <2>2. run'[q] = run[q] /\ protocol'[q] = protocol[q] /\ asset'[q] = asset[q]
    BY DEF Others
  <2> QED
    BY <2>1, <2>2 DEF LegsOf
<1> QED
  BY <1>1 DEF LegsInv

\* The two ways a command moves on keep its type.
LEMMA EndTyped ==
    ASSUME run \in Commands, NEW r \in Runs, NEW told \in Reports, End(r, told)
    PROVE  run' \in Commands
  BY DEF Commands, End, Stage

\* A command that moves to another stage keeps its type.
LEMMA StageTyped ==
    ASSUME run \in Commands, NEW r \in Runs, NEW s \in Stage,
           run' = [run EXCEPT ![r].stage = s]
    PROVE  run' \in Commands
  BY DEF Commands

\* Steps of the command touch one run; steps of the networks keep a leg that
\* was taken among the legs that were taken.
LEMMA NextLegsInv ==
    ASSUME ~lossy', LegsInv, [Next]_vars
    PROVE  LegsInv'
<1>1. ASSUME NEW r \in Runs, Prepare(r) PROVE LegsInv'
  <2>1. Others(r)
    BY <1>1 DEF Prepare, LegsInv, Shape, Commands, Others, net, End
  <2>2. Shape'
    <3>1. UNCHANGED <<protocol, asset, now, sequence>>
      BY <1>1 DEF Prepare, net
    <3>2. CASE \E told \in {"aborted", "gate", "dryrun"} : End(r, told)
      <4>1. PICK told \in {"aborted", "gate", "dryrun"} : End(r, told)
        BY <3>2
      <4>2. told \in Reports
        BY DEF Reports, Refusals
      <4> QED
        BY <3>1, <4>1, <4>2, EndTyped DEF LegsInv, Shape
    <3>3. CASE run' = [run EXCEPT ![r].stage = "prompt", ![r].seq = sequence,
                                  ![r].exp = now + DepositLife]
      <4>1. now + DepositLife \in Nat /\ sequence \in Nat /\ "prompt" \in Stage
        BY SymAssumption DEF LegsInv, Shape, Stage
      <4> QED
        BY <3>1, <3>3, <4>1 DEF LegsInv, Shape, Commands
    <3> QED
      BY <1>1, <3>2, <3>3 DEF Prepare
  <2>3. LegsOf(r)'
    BY <1>1 DEF Prepare, LegsInv, Shape, Commands, LegsOf, net, Stage, Refusals, Out, End
  <2> QED
    BY <2>1, <2>2, <2>3, OneRunSteps
<1>2. ASSUME NEW r \in Runs, Answer(r) PROVE LegsInv'
  <2>1. Others(r)
    BY <1>2 DEF Answer, LegsInv, Shape, Commands, Others, net, End
  <2>2. Shape'
    <3>1. UNCHANGED <<protocol, asset, now, sequence>>
      BY <1>2 DEF Answer, net
    <3>2. "declined" \in Reports /\ "protocol" \in Stage
      BY DEF Reports, Refusals, Stage
    <3> QED
      BY <1>2, <3>1, <3>2, EndTyped, StageTyped DEF Answer, LegsInv, Shape
  <2>3. LegsOf(r)'
    BY <1>2 DEF Answer, LegsInv, Shape, Commands, LegsOf, net, Stage, Refusals, Out, End
  <2> QED
    BY <2>1, <2>2, <2>3, OneRunSteps
<1>3. ASSUME NEW r \in Runs, PostProtocol(r) PROVE LegsInv'
  <2>1. Others(r)
    BY <1>3 DEF PostProtocol, LegsInv, Shape, Commands, Others, net, End
  <2>2. Shape'
    <3>1. UNCHANGED <<asset, now, sequence>>
      BY <1>3 DEF PostProtocol, net
    <3>2. protocol' \in [Runs -> LegState]
      BY <1>3 DEF PostProtocol, LegsInv, Shape, LegState
    <3>3. run' \in Commands
      <4>1. {"failed", "partial", "both"} \subseteq Reports /\ "asset" \in Stage
        BY DEF Reports, Stage
      <4>2. run \in Commands
        BY DEF LegsInv, Shape
      <4> QED
        BY <1>3, <4>1, <4>2, EndTyped, StageTyped DEF PostProtocol
    <3> QED
      BY <3>1, <3>2, <3>3 DEF LegsInv, Shape
  <2>3. LegsOf(r)'
    BY <1>3 DEF PostProtocol, LegsInv, Shape, Commands, LegsOf, net, Stage, Refusals, Out, End
  <2> QED
    BY <2>1, <2>2, <2>3, OneRunSteps
<1>4. ASSUME NEW r \in Runs, PostAsset(r) PROVE LegsInv'
  <2>1. Others(r)
    BY <1>4 DEF PostAsset, LegsInv, Shape, Commands, Others, net, End
  <2>2. Shape'
    <3>1. UNCHANGED <<protocol, now, sequence>>
      BY <1>4 DEF PostAsset, net
    <3>2. asset' \in [Runs -> LegState]
      BY <1>4 DEF PostAsset, LegsInv, Shape, LegState
    <3>3. run' \in Commands
      <4>1. {"failed", "partial", "both"} \subseteq Reports /\ "asset" \in Stage
        BY DEF Reports, Stage
      <4>2. run \in Commands
        BY DEF LegsInv, Shape
      <4> QED
        BY <1>4, <4>1, <4>2, EndTyped, StageTyped DEF PostAsset
    <3> QED
      BY <3>1, <3>2, <3>3 DEF LegsInv, Shape
  <2>3. LegsOf(r)'
    BY <1>4 DEF PostAsset, LegsInv, Shape, Commands, LegsOf, net, Stage, Refusals, Out, End
  <2> QED
    BY <2>1, <2>2, <2>3, OneRunSteps
<1>5. ASSUME NEW r \in Runs, Interrupt(r) PROVE LegsInv'
  BY <1>5 DEF Interrupt
<1>6. ASSUME NEW r \in Runs, Arrive(r) PROVE LegsInv'
  BY <1>6 DEF Arrive, LegsInv, LegsOf, Out
<1>7. ASSUME NEW r \in Runs, ExecuteProtocol(r) PROVE LegsInv'
  <2>1. Others(r)
    BY <1>7 DEF ExecuteProtocol, LegsInv, Shape, Commands, Others, net
  <2>2. Shape'
    BY <1>7 DEF ExecuteProtocol, LegsInv, Shape, net, Stage, Reports, Refusals, LegState
  <2>3. LegsOf(r)'
    BY <1>7 DEF ExecuteProtocol, LegsInv, Shape, Commands, LegsOf, net, Stage, Refusals, Out
  <2> QED
    BY <2>1, <2>2, <2>3, OneRunSteps
<1>8. ASSUME NEW r \in Runs, Drop(r) PROVE LegsInv'
  <2>1. Others(r)
    BY <1>8 DEF Drop, LegsInv, Shape, Commands, Others, net
  <2>2. Shape'
    BY <1>8 DEF Drop, LegsInv, Shape, net, Stage, Reports, Refusals, LegState
  <2>3. LegsOf(r)'
    BY <1>8 DEF Drop, LegsInv, Shape, Commands, LegsOf, net, Stage, Refusals, Out
  <2> QED
    BY <2>1, <2>2, <2>3, OneRunSteps
<1>9. ASSUME NEW r \in Runs, ExecuteAsset(r) PROVE LegsInv'
  <2>1. Others(r)
    BY <1>9 DEF ExecuteAsset, LegsInv, Shape, Commands, Others, net
  <2>2. Shape'
    BY <1>9 DEF ExecuteAsset, LegsInv, Shape, net, Stage, Reports, Refusals, LegState
  <2>3. LegsOf(r)'
    BY <1>9 DEF ExecuteAsset, LegsInv, Shape, Commands, LegsOf, net, Stage, Refusals, Out
  <2> QED
    BY <2>1, <2>2, <2>3, OneRunSteps
<1>10. CASE Refund
  BY <1>10 DEF Refund, LegsInv, Shape, LegsOf
<1>11. CASE Tick
  BY <1>11 DEF Tick, net, LegsInv, Shape, LegsOf
<1>12. CASE UNCHANGED vars
  BY <1>12 DEF vars, net, LegsInv, Shape, LegsOf
<1> QED
  BY <1>1, <1>2, <1>3, <1>4, <1>5, <1>6, <1>7, <1>8, <1>9, <1>10, <1>11, <1>12
     DEF Next

-----------------------------------------------------------------------------
\* The initial states are initial states of the two-leg add.
LEMMA InitAdd == Init => Add!Init
  BY DEF Init, Add!Init, Live, Told, LiveLegs, Outcome, Out

\* Runs that do not move are not seen to move.
LEMMA OthersStutter ==
    ASSUME NEW r \in Runs, Others(r)
    PROVE  /\ Live' = [Live EXCEPT ![r] = LiveLegs(r)']
           /\ Told' = [Told EXCEPT ![r] = Outcome(r)']
<1>1. ASSUME NEW q \in Runs \ {r}
      PROVE  LiveLegs(q)' = LiveLegs(q) /\ Outcome(q)' = Outcome(q)
  BY DEF Others, LiveLegs, Outcome
<1> QED
  BY <1>1 DEF Live, Told

\* Neither is a run whose taken leg executes, or is dropped.
LEMMA SameRunStutters ==
    ASSUME NEW r \in Runs, Others(r), run' = run,
           protocol[r] \in Out <=> protocol'[r] \in Out,
           asset[r] \in Out <=> asset'[r] \in Out
    PROVE  UNCHANGED <<Live, Told>>
<1>1. LiveLegs(r)' = LiveLegs(r)
  BY DEF LiveLegs, Out
<1>2. Outcome(r)' = Outcome(r)
  BY DEF Outcome
<1> QED
  BY <1>1, <1>2, OthersStutter DEF Live, Told

\* Until something is lost, a step of an add is a step of the two-leg add or none
\* (cli._confirm_and_execute_symmetric).
LEMMA StepAdd ==
    ASSUME ~lossy', LegsInv, [Next]_vars
    PROVE  Add!Next \/ UNCHANGED <<Live, Told>>
<1> USE DEF LegsInv
<1>1. ASSUME NEW r \in Runs, Prepare(r) \/ Answer(r)
      PROVE  Add!Next \/ UNCHANGED <<Live, Told>>
  <2>1. Others(r) /\ UNCHANGED <<protocol, asset>>
    BY <1>1 DEF Prepare, Answer, End, net, Shape, Commands, Others
  <2>2. LiveLegs(r) = {} /\ LiveLegs(r)' = {} /\ Outcome(r) = "open"
    BY <1>1, <2>1 DEF Prepare, Answer, LegsOf, LiveLegs, Outcome, Out
  <2>3. Outcome(r)' \in {"open", "refused"}
    <3>1. \/ run'[r].stage # "ended"
          \/ run'[r].told \in Refusals
      BY <1>1 DEF Prepare, Answer, End, Shape, Commands, Refusals
    <3> QED
      BY <3>1 DEF Outcome
  <2>4. CASE Outcome(r)' = "open"
    BY <2>1, <2>2, <2>4, OthersStutter DEF Live, Told
  <2>5. CASE Outcome(r)' = "refused"
    <3>1. Add!Stop(r)
      BY <2>1, <2>2, <2>5, OthersStutter DEF Add!Stop, Live, Told
    <3> QED
      BY <3>1 DEF Add!Next
  <2> QED
    BY <2>3, <2>4, <2>5
<1>2. ASSUME NEW r \in Runs, PostProtocol(r)
      PROVE  Add!Next \/ UNCHANGED <<Live, Told>>
  <2>1. Others(r) /\ asset' = asset
    BY <1>2 DEF PostProtocol, End, net, Shape, Commands, Others
  <2>2. LiveLegs(r) = {} /\ Outcome(r) = "open"
    BY <1>2 DEF PostProtocol, LegsOf, LiveLegs, Outcome, Out
  <2>3. \/ protocol'[r] = "taken" /\ run'[r].stage = "asset"
        \/ protocol'[r] = "failed" /\ run'[r].stage = "ended" /\ run'[r].told = "failed"
    BY <1>2 DEF PostProtocol, End, Shape, Commands
  <2>4. asset'[r] = "unsent"
    BY <1>2, <2>1 DEF PostProtocol, LegsOf
  <2>5. CASE protocol'[r] = "taken" /\ run'[r].stage = "asset"
    <3>1. LiveLegs(r)' = {"protocol"} /\ Outcome(r)' = "open"
      BY <2>4, <2>5 DEF LiveLegs, Outcome, Out
    <3>2. Live' = [Live EXCEPT ![r] = {"protocol"}]
      BY <2>1, <3>1, OthersStutter DEF Live
    <3>3. Told' = [Told EXCEPT ![r] = Outcome(r)']
      BY <2>1, OthersStutter
    <3>4. Told' = Told
      BY <2>2, <3>1, <3>3 DEF Told
    <3>5. Live[r] = {} /\ Told[r] = "open"
      BY <2>2 DEF Live, Told
    <3>6. Add!SendProtocolLeg(r)
      BY <3>2, <3>4, <3>5 DEF Add!SendProtocolLeg, Live, Told
    <3> QED
      BY <3>6 DEF Add!Next
  <2>6. CASE protocol'[r] = "failed" /\ run'[r].stage = "ended" /\ run'[r].told = "failed"
    <3>1. LiveLegs(r)' = {} /\ Outcome(r)' = "failed"
      BY <2>4, <2>6 DEF LiveLegs, Outcome, Out, Refusals
    <3>2. Add!Stop(r)
      BY <2>1, <2>2, <3>1, OthersStutter DEF Add!Stop, Live, Told
    <3> QED
      BY <3>2 DEF Add!Next
  <2> QED
    BY <2>3, <2>5, <2>6
<1>3. ASSUME NEW r \in Runs, PostAsset(r)
      PROVE  Add!Next \/ UNCHANGED <<Live, Told>>
  <2>1. Others(r) /\ protocol' = protocol
    BY <1>3 DEF PostAsset, End, net, Shape, Commands, Others
  <2>2. LiveLegs(r) = {"protocol"} /\ Outcome(r) = "open" /\ protocol'[r] \in Out
    BY <1>3, <2>1 DEF PostAsset, LegsOf, LiveLegs, Outcome, Out
  <2>3. \/ asset'[r] = "taken" /\ run'[r].stage = "ended" /\ run'[r].told = "both"
        \/ asset'[r] = "failed" /\ run'[r].stage = "ended" /\ run'[r].told = "partial"
    BY <1>3 DEF PostAsset, End, Shape, Commands
  <2>4. CASE asset'[r] = "taken" /\ run'[r].stage = "ended" /\ run'[r].told = "both"
    <3>1. LiveLegs(r)' = {"protocol", "asset"} /\ Outcome(r)' = "complete"
      BY <2>2, <2>4 DEF LiveLegs, Outcome, Out, Refusals
    <3>2. Add!SendAssetLeg(r)
      BY <2>1, <2>2, <3>1, OthersStutter DEF Add!SendAssetLeg, Live, Told
    <3> QED
      BY <3>2 DEF Add!Next
  <2>5. CASE asset'[r] = "failed" /\ run'[r].stage = "ended" /\ run'[r].told = "partial"
    <3>1. LiveLegs(r)' = {"protocol"} /\ Outcome(r)' = "partial"
      BY <2>2, <2>5 DEF LiveLegs, Outcome, Out, Refusals
    <3>2. Add!GiveUp(r)
      BY <2>1, <2>2, <3>1, OthersStutter DEF Add!GiveUp, Live, Told
    <3> QED
      BY <3>2 DEF Add!Next
  <2> QED
    BY <2>3, <2>4, <2>5
<1>4. ASSUME NEW r \in Runs, Interrupt(r) \/ Arrive(r)
      PROVE  Add!Next \/ UNCHANGED <<Live, Told>>
  BY <1>4 DEF Interrupt, Arrive, LegsOf, Out
<1>5. ASSUME NEW r \in Runs, ExecuteProtocol(r) \/ Drop(r)
      PROVE  Add!Next \/ UNCHANGED <<Live, Told>>
  <2>1. Others(r) /\ run' = run /\ asset' = asset
    BY <1>5 DEF ExecuteProtocol, Drop, net, Shape, Others
  <2>2. protocol[r] \in Out /\ protocol'[r] \in Out
    BY <1>5 DEF ExecuteProtocol, Drop, Shape, Out
  <2> QED
    BY <2>1, <2>2, SameRunStutters
<1>6. ASSUME NEW r \in Runs, ExecuteAsset(r)
      PROVE  Add!Next \/ UNCHANGED <<Live, Told>>
  <2>1. Others(r) /\ run' = run /\ protocol' = protocol
    BY <1>6 DEF ExecuteAsset, Shape, Others
  <2>2. asset[r] \in Out /\ asset'[r] \in Out
    BY <1>6 DEF ExecuteAsset, Shape, Out
  <2> QED
    BY <2>1, <2>2, SameRunStutters
<1>7. ASSUME Refund \/ Tick \/ UNCHANGED vars
      PROVE  UNCHANGED <<Live, Told>>
  <2>1. UNCHANGED <<run, protocol, asset>>
    BY <1>7 DEF Refund, Tick, vars, net
  <2> QED
    BY <2>1 DEF Live, Told, LiveLegs, Outcome
<1> QED
  BY <1>1, <1>2, <1>3, <1>4, <1>5, <1>6, <1>7 DEF Next

\* Nothing makes a lost answer, or an interrupt, undone.
LEMMA LossyStays == ASSUME [Next]_vars, lossy PROVE lossy'
<1>1. CASE UNCHANGED vars
  BY <1>1 DEF vars
<1>2. CASE Next
  <2>1. UNCHANGED lossy \/ lossy' = TRUE
    BY <1>2 DEF Next, Prepare, Answer, PostProtocol, PostAsset, Interrupt, Arrive,
                ExecuteProtocol, Drop, ExecuteAsset, Refund, Tick
  <2> QED
    BY <2>1
<1> QED
  BY <1>1, <1>2

\* Either something was lost, or the legs are where the stages say.
SoFar == lossy \/ LegsInv

\* Every step keeps that.
LEMMA NextSoFar == SoFar /\ [Next]_vars => SoFar'
  BY NextLegsInv, LossyStays DEF SoFar

\* While every POST is answered, the symmetric add is a two-leg add: the cheap
\* leg first, the costly one only on top of it, and a report that names exactly
\* the legs a network has taken.
THEOREM AddIsTwoLegAdd == Spec => ImplementsTwoLegAdd
<1>1. SoFar /\ [Next]_vars => [lossy' \/ Add!Next]_<<Live, Told>>
  BY StepAdd, LossyStays DEF SoFar
<1>2. Spec => []SoFar
  <2>1. Init => SoFar
    BY InitLegsInv DEF SoFar
  <2> QED
    BY <2>1, NextSoFar, PTL DEF Spec
<1> QED
  BY <1>1, <1>2, InitAdd, PTL DEF Spec, ImplementsTwoLegAdd

-----------------------------------------------------------------------------
\* What holds of every run through lost answers and interrupts too: the stage
\* a run has reached bounds which legs can have been posted.
CheapFirst(r) ==
    /\ run[r].stage \in {"unused", "prompt", "protocol"} =>
           protocol[r] = "unsent" /\ asset[r] = "unsent"
    /\ run[r].stage = "asset" => protocol[r] \in Out /\ asset[r] = "unsent"
    /\ run[r].stage # "ended" => run[r].told = "nothing"
    /\ run[r].told \in Refusals => protocol[r] = "unsent"
    /\ asset[r] # "unsent" => protocol[r] \in Out

OrderInv ==
    /\ run \in Commands
    /\ protocol \in [Runs -> LegState]
    /\ asset \in [Runs -> LegState]
    /\ \A r \in Runs : CheapFirst(r)

\* No leg is posted before the first command runs.
LEMMA InitOrderInv == Init => OrderInv
  BY DEF Init, OrderInv, Commands, CheapFirst, Stage, Reports, Refusals, LegState

\* Commands keep their type whatever is lost.
LEMMA NextCommands ==
    ASSUME run \in Commands, sequence \in Nat, now \in Nat, [Next]_vars
    PROVE  run' \in Commands
<1>1. ASSUME NEW r \in Runs, Prepare(r) PROVE run' \in Commands
  <2>1. {"aborted", "gate", "dryrun"} \subseteq Reports
    BY DEF Reports, Refusals
  <2>2. CASE \E told \in {"aborted", "gate", "dryrun"} : End(r, told)
    BY <2>1, <2>2, EndTyped
  <2>3. CASE run' = [run EXCEPT ![r].stage = "prompt", ![r].seq = sequence,
                                ![r].exp = now + DepositLife]
    <3>1. now + DepositLife \in Nat /\ sequence \in Nat /\ "prompt" \in Stage
      BY SymAssumption DEF Stage
    <3> QED
      BY <2>3, <3>1 DEF Commands
  <2> QED
    BY <1>1, <2>2, <2>3 DEF Prepare
<1>2. ASSUME NEW r \in Runs, Answer(r) \/ PostProtocol(r) \/ PostAsset(r) \/ Interrupt(r)
      PROVE  run' \in Commands
  <2>1. {"declined", "failed", "partial", "both", "silent"} \subseteq Reports
    BY DEF Reports, Refusals
  <2>2. {"protocol", "asset"} \subseteq Stage
    BY DEF Stage
  <2>3. \/ \E told \in Reports : End(r, told)
        \/ \E s \in Stage : run' = [run EXCEPT ![r].stage = s]
    BY <1>2, <2>1, <2>2 DEF Answer, PostProtocol, PostAsset, Interrupt
  <2> QED
    BY <2>3, EndTyped, StageTyped
<1>3. ASSUME NEW r \in Runs, Arrive(r) \/ ExecuteProtocol(r) \/ Drop(r) \/ ExecuteAsset(r)
      PROVE  run' \in Commands
  BY <1>3 DEF Arrive, ExecuteProtocol, Drop, ExecuteAsset
<1>4. ASSUME Refund \/ Tick \/ UNCHANGED vars PROVE run' \in Commands
  BY <1>4 DEF Refund, Tick, vars
<1> QED
  BY <1>1, <1>2, <1>3, <1>4 DEF Next

\* The clock and the account's sequence stay numbers.
LEMMA NextNumbers ==
    ASSUME now \in Nat, sequence \in Nat, [Next]_vars
    PROVE  now' \in Nat /\ sequence' \in Nat
<1>1. now' \in {now, now + 1} /\ sequence' \in {sequence, sequence + 1}
  BY DEF Next, Prepare, Answer, PostProtocol, PostAsset, Interrupt, Arrive,
         ExecuteProtocol, Drop, ExecuteAsset, Refund, Tick, vars, net
<1> QED
  BY <1>1

\* What a step may do to the run it is about, and that it leaves the others.
LEMMA NextOrderInv ==
    ASSUME OrderInv, run' \in Commands, [Next]_vars
    PROVE  OrderInv'
<1> USE DEF OrderInv
<1>1. ASSUME NEW r \in Runs, Others(r), CheapFirst(r)',
             protocol' \in [Runs -> LegState], asset' \in [Runs -> LegState]
      PROVE  OrderInv'
  BY <1>1 DEF Others, CheapFirst
<1>2. ASSUME NEW r \in Runs, Prepare(r) \/ Answer(r) PROVE OrderInv'
  <2>1. Others(r) /\ UNCHANGED <<protocol, asset>>
    BY <1>2 DEF Prepare, Answer, End, Commands, Others
  <2>2. run[r].stage \in {"unused", "prompt"}
    BY <1>2 DEF Prepare, Answer
  <2>3. \/ run'[r].stage = "ended"
        \/ run'[r].stage \in {"prompt", "protocol"} /\ run'[r].told = run[r].told
    BY <1>2 DEF Prepare, Answer, End, Commands
  <2>4. CheapFirst(r)'
    BY <2>1, <2>2, <2>3 DEF CheapFirst
  <2> QED
    BY <1>1, <2>1, <2>4
<1>3. ASSUME NEW r \in Runs, PostProtocol(r) PROVE OrderInv'
  <2>1. Others(r) /\ asset' = asset /\ protocol' \in [Runs -> LegState]
    BY <1>3 DEF PostProtocol, End, Commands, Others, LegState
  <2>2. \/ run'[r].stage = "ended" /\ run'[r].told = "failed"
        \/ /\ run'[r].stage = "asset" /\ run'[r].told = run[r].told
           /\ protocol'[r] = "taken"
    BY <1>3 DEF PostProtocol, End, Commands
  <2>3. CheapFirst(r)'
    BY <1>3, <2>1, <2>2 DEF PostProtocol, CheapFirst, Out, Refusals
  <2> QED
    BY <1>1, <2>1, <2>3
<1>4. ASSUME NEW r \in Runs, PostAsset(r) PROVE OrderInv'
  <2>1. Others(r) /\ protocol' = protocol /\ asset' \in [Runs -> LegState]
    BY <1>4 DEF PostAsset, End, Commands, Others, LegState
  <2>2. run'[r].stage = "ended" /\ run'[r].told \in {"both", "partial"}
    BY <1>4 DEF PostAsset, End, Commands
  <2>3. CheapFirst(r)'
    BY <1>4, <2>1, <2>2 DEF PostAsset, CheapFirst, Refusals
  <2> QED
    BY <1>1, <2>1, <2>3
<1>5. ASSUME NEW r \in Runs, Interrupt(r) PROVE OrderInv'
  <2>1. Others(r) /\ UNCHANGED <<protocol, asset>>
    BY <1>5 DEF Interrupt, End, Commands, Others
  <2>2. run'[r].stage = "ended" /\ run'[r].told = "silent"
    BY <1>5 DEF Interrupt, End, Commands
  <2>3. CheapFirst(r)'
    BY <2>1, <2>2 DEF CheapFirst, Refusals
  <2> QED
    BY <1>1, <2>1, <2>3
<1>6. ASSUME NEW r \in Runs, Arrive(r) \/ ExecuteProtocol(r) \/ Drop(r) \/ ExecuteAsset(r)
      PROVE  OrderInv'
  <2>1. Others(r) /\ run' = run
    BY <1>6 DEF Arrive, ExecuteProtocol, Drop, ExecuteAsset, Others
  <2>2. protocol' \in [Runs -> LegState] /\ asset' \in [Runs -> LegState]
    BY <1>6 DEF Arrive, ExecuteProtocol, Drop, ExecuteAsset, LegState
  <2>3. \/ protocol'[r] \in Out /\ protocol[r] # "unsent" /\ asset' = asset
        \/ asset'[r] \in Out /\ asset[r] # "unsent" /\ protocol' = protocol
    BY <1>6 DEF Arrive, ExecuteProtocol, Drop, ExecuteAsset, Out
  <2>4. CheapFirst(r)'
    BY <2>1, <2>3 DEF CheapFirst, Out
  <2> QED
    BY <1>1, <2>1, <2>2, <2>4
<1>7. ASSUME Refund \/ Tick \/ UNCHANGED vars PROVE OrderInv'
  <2>1. UNCHANGED <<run, protocol, asset>>
    BY <1>7 DEF Refund, Tick, vars
  <2> QED
    BY <2>1 DEF CheapFirst
<1> QED
  BY <1>2, <1>3, <1>4, <1>5, <1>6, <1>7 DEF Next

\* Whatever is lost and whenever the user interrupts: the costly leg is never
\* posted unless the node had taken the cheap one of the same run, and nothing
\* is posted for a run reported as refused (execute_symmetric_liquidity).
THEOREM AssetLegFollows == Spec => []AssetLegNeverFirst
<1> DEFINE Inv == OrderInv /\ now \in Nat /\ sequence \in Nat
<1>1. Init => Inv
  BY InitOrderInv DEF Init
<1>2. Inv /\ [Next]_vars => Inv'
  <2> SUFFICES ASSUME Inv, [Next]_vars PROVE Inv'
    OBVIOUS
  <2>1. run' \in Commands
    BY NextCommands DEF OrderInv
  <2> QED
    BY <2>1, NextOrderInv, NextNumbers
<1>3. Inv => AssetLegNeverFirst
  BY DEF OrderInv, CheapFirst, AssetLegNeverFirst
<1> QED
  BY <1>1, <1>2, <1>3, PTL DEF Spec

-----------------------------------------------------------------------------
\* What the protocol has filed: never both sides at once, and only legs that
\* executed; a refunded run whose asset leg never executed has nothing filed.
Filed ==
    /\ pending \in [p: SUBSET Runs, a: SUBSET Runs]
    /\ pending.p = {} \/ pending.a = {}
    /\ \A r \in pending.p : protocol[r] = "executed"
    /\ \A r \in pending.a : asset[r] = "executed"
    /\ refunded \subseteq Runs
    /\ \A r \in refunded :
           asset[r] # "executed" => protocol[r] = "executed" /\ r \notin pending.p

\* A run that can no longer move anything: its command has ended, neither leg
\* is on its way and neither is filed.
Settled(r) ==
    /\ run[r].stage = "ended"
    /\ protocol[r] # "taken" /\ asset[r] # "taken"
    /\ r \notin pending.p /\ r \notin pending.a

\* The advice printed with the reports makes a retry wait until then.
OneAtATime ==
    \A r \in Runs : run[r].stage # "unused" => \A q \in 1..(r - 1) : Settled(q)

Own(pair) == \E r \in Runs : pair = [p |-> {r}, a |-> {r}]

PairInv == LegsInv /\ Filed /\ OneAtATime /\ \A pair \in pairs : Own(pair)

\* Nothing is filed, paired or refunded before the first leg executes.
LEMMA InitPairInv == Init => PairInv
<1> SUFFICES ASSUME Init PROVE PairInv
  OBVIOUS
<1>1. LegsInv
  BY InitLegsInv
<1>2. Filed
  BY DEF Init, Filed
<1>3. OneAtATime
  BY DEF Init, OneAtATime
<1> QED
  BY <1>1, <1>2, <1>3 DEF Init, PairInv

\* A run with a leg on its way is the last one started, so whatever is filed is
\* its own.
LEMMA InFlightIsAlone ==
    ASSUME PairInv, NEW r \in Runs, protocol[r] = "taken" \/ asset[r] = "taken"
    PROVE  pending.p \subseteq {r} /\ pending.a \subseteq {r}
<1>1. run[r].stage # "unused" /\ ~Settled(r)
  BY DEF PairInv, LegsInv, LegsOf, Settled
<1>2. ASSUME NEW q \in pending.p \cup pending.a PROVE q = r
  <2>1. q \in Runs /\ (protocol[q] = "executed" \/ asset[q] = "executed")
    BY <1>2 DEF PairInv, Filed
  <2>2. run[q].stage # "unused"
    BY <2>1 DEF PairInv, LegsInv, LegsOf
  <2>3. ~Settled(q)
    BY <1>2 DEF Settled
  <2>4. q \notin 1..(r - 1) /\ r \notin 1..(q - 1)
    BY <1>1, <2>1, <2>2, <2>3 DEF PairInv, OneAtATime
  <2> QED
    BY <2>1, <2>4 DEF Runs
<1> QED
  BY <1>2

\* Whoever may be followed by a retry has settled: a refused or failed run has
\* no leg out, and a half-add's only leg has been refunded.
LEMMA MayRerunSettled ==
    ASSUME PairInv, NEW q \in Runs, MayRerun(q)
    PROVE  Settled(q)
<1>1. LegsOf(q) /\ run[q].stage = "ended"
  BY DEF PairInv, LegsInv, MayRerun
<1>2. CASE run[q].told \in Refusals \cup {"failed"}
  <2>1. protocol[q] \notin Out /\ asset[q] \notin Out
    BY <1>1, <1>2 DEF LegsOf, Refusals
  <2> QED
    BY <1>1, <2>1 DEF Settled, Out, PairInv, Filed
<1>3. CASE run[q].told = "partial" /\ q \in refunded
  <2>1. asset[q] = "failed"
    BY <1>1, <1>3 DEF LegsOf, Refusals
  <2> QED
    BY <1>1, <1>3, <2>1 DEF Settled, PairInv, Filed
<1> QED
  BY <1>2, <1>3 DEF MayRerun

\* Runs stay settled while another run moves.
LEMMA SettledStays ==
    ASSUME NEW r \in Runs, Others(r), NEW q \in Runs, Settled(q), q # r,
           pending'.p \subseteq pending.p \cup {r},
           pending'.a \subseteq pending.a \cup {r}
    PROVE  Settled(q)'
  BY DEF Others, Settled

\* When a run that is not settled moves, the runs before those started are
\* still settled.
LEMMA StillOneAtATime ==
    ASSUME PairInv, NEW r \in Runs, Others(r), ~Settled(r),
           run[r].stage = "unused" => \A q \in 1..(r - 1) : Settled(q),
           pending'.p \subseteq pending.p \cup {r},
           pending'.a \subseteq pending.a \cup {r}
    PROVE  OneAtATime'
<1>1. ASSUME NEW x \in Runs, run'[x].stage # "unused", NEW q \in 1..(x - 1)
      PROVE  Settled(q)'
  <2>1. q \in Runs
    BY SymAssumption DEF Runs
  <2>2. Settled(q)
    <3>1. CASE run[x].stage # "unused"
      BY <3>1 DEF PairInv, OneAtATime
    <3>2. CASE run[x].stage = "unused"
      <4>1. x = r
        BY <1>1, <3>2 DEF Others
      <4> QED
        BY <3>2, <4>1
    <3> QED
      BY <3>1, <3>2
  <2>3. q # r
    BY <2>2
  <2> QED
    BY <2>1, <2>2, <2>3, SettledStays
<1> QED
  BY <1>1 DEF OneAtATime

\* A step of the command files nothing, and keeps the rest.
LEMMA CommandPairInv ==
    ASSUME PairInv, LegsInv', NEW r \in Runs, Others(r), net' = net,
           run[r].stage \in {"unused", "prompt", "protocol", "asset"},
           run[r].stage = "unused" => \A q \in 1..(r - 1) : MayRerun(q),
           run[r].stage = "asset" => protocol' = protocol,
           asset'[r] # "executed"
    PROVE  PairInv'
<1>1. pending' = pending /\ pairs' = pairs /\ refunded' = refunded
  BY DEF net
<1>2. OneAtATime'
  <2>1. ASSUME run[r].stage = "unused", NEW q \in 1..(r - 1) PROVE Settled(q)
    <3>1. q \in Runs
      BY SymAssumption DEF Runs
    <3> QED
      BY <2>1, <3>1, MayRerunSettled
  <2>2. ~Settled(r)
    BY DEF Settled
  <2> QED
    BY <1>1, <2>1, <2>2, StillOneAtATime
<1>3. Filed'
  <2>1. asset[r] = "unsent"
    BY DEF PairInv, LegsInv, LegsOf
  <2>2. protocol[r] = "executed" => protocol'[r] = protocol[r]
    BY DEF PairInv, LegsInv, LegsOf
  <2>3. \A q \in Runs : /\ protocol[q] = "executed" => protocol'[q] = "executed"
                        /\ asset[q] = "executed" <=> asset'[q] = "executed"
    BY <2>1, <2>2 DEF Others
  <2> QED
    BY <1>1, <2>3 DEF PairInv, Filed
<1>4. \A pair \in pairs' : Own(pair)
  BY <1>1 DEF PairInv
<1> QED
  BY <1>2, <1>3, <1>4 DEF PairInv, Own

\* A leg that executes is filed, or paired with the other leg of its own run.
LEMMA FilePairInv ==
    ASSUME PairInv, LegsInv', NEW r \in Runs, Others(r), NEW side \in {"p", "a"},
           side = "p" => protocol[r] = "taken" /\ asset'[r] = asset[r]
                             /\ protocol'[r] = "executed",
           side = "a" => asset[r] = "taken" /\ protocol'[r] = protocol[r]
                             /\ asset'[r] = "executed",
           File(side, r), run' = run, refunded' = refunded
    PROVE  PairInv'
<1> DEFINE filed == [pending EXCEPT ![side] = @ \cup {r}]
<1>1. pending.p \subseteq {r} /\ pending.a \subseteq {r}
  BY InFlightIsAlone
<1>2. ~Settled(r) /\ run[r].stage # "unused"
  BY DEF PairInv, LegsInv, LegsOf, Settled
<1>3. /\ filed = [p |-> filed.p, a |-> filed.a]
      /\ filed.p = (IF side = "p" THEN {r} ELSE pending.p)
      /\ filed.a = (IF side = "a" THEN {r} ELSE pending.a)
  <2>1. PICK P \in SUBSET Runs, A \in SUBSET Runs : pending = [p |-> P, a |-> A]
    BY DEF PairInv, Filed
  <2>2. P \cup {r} = {r} /\ A \cup {r} = {r}
    BY <1>1, <2>1
  <2>3. CASE side = "p"
    <3>1. filed = [p |-> P \cup {r}, a |-> A]
      <4>1. [[p |-> P, a |-> A] EXCEPT !["p"] = P \cup {r}] = [p |-> P \cup {r}, a |-> A]
        OBVIOUS
      <4>2. filed = [[p |-> P, a |-> A] EXCEPT !["p"] = P \cup {r}]
        BY <2>1, <2>3
      <4> QED
        BY <4>1, <4>2
    <3> QED
      BY <2>1, <2>2, <2>3, <3>1
  <2>4. CASE side = "a"
    <3>1. filed = [p |-> P, a |-> A \cup {r}]
      <4>1. [[p |-> P, a |-> A] EXCEPT !["a"] = A \cup {r}] = [p |-> P, a |-> A \cup {r}]
        OBVIOUS
      <4>2. filed = [[p |-> P, a |-> A] EXCEPT !["a"] = A \cup {r}]
        BY <2>1, <2>4
      <4> QED
        BY <4>1, <4>2
    <3> QED
      BY <2>1, <2>2, <2>4, <3>1
  <2> QED
    BY <2>3, <2>4
<1> HIDE DEF filed
<1>4. \/ /\ filed.p # {} /\ filed.a # {}
         /\ pairs' = pairs \cup {filed} /\ pending' = [p |-> {}, a |-> {}]
      \/ /\ filed.p = {} \/ filed.a = {}
         /\ pairs' = pairs /\ pending' = filed
  BY DEF File, filed
<1>5. filed.p \subseteq {r} /\ filed.a \subseteq {r}
  BY <1>1, <1>3
<1>6. OneAtATime'
  BY <1>2, <1>4, <1>5, StillOneAtATime
<1>7. Filed'
  <2>1. pending'.p \subseteq {r} /\ pending'.a \subseteq {r}
    BY <1>4, <1>5
  <2>2. pending' \in [p: SUBSET Runs, a: SUBSET Runs]
        /\ (pending'.p = {} \/ pending'.a = {})
    BY <1>3, <1>4, <1>5
  <2>3. \A q \in pending'.p : protocol'[q] = "executed"
    <3>1. CASE side = "p"
      BY <2>1, <3>1
    <3>2. CASE side = "a"
      BY <1>3, <1>4, <2>1, <3>2 DEF PairInv, Filed
    <3> QED
      BY <3>1, <3>2
  <2>4. \A q \in pending'.a : asset'[q] = "executed"
    <3>1. CASE side = "a"
      BY <2>1, <3>1
    <3>2. CASE side = "p"
      BY <1>3, <1>4, <2>1, <3>2 DEF PairInv, Filed
    <3> QED
      BY <3>1, <3>2
  <2>5. ASSUME NEW q \in refunded', asset'[q] # "executed"
        PROVE  protocol'[q] = "executed" /\ q \notin pending'.p
    <3>1. q \in refunded /\ q \in Runs
      BY <2>5 DEF PairInv, Filed
    <3>2. CASE q # r
      <4>1. asset[q] # "executed" /\ protocol'[q] = protocol[q]
        BY <2>5, <3>1, <3>2 DEF Others
      <4> QED
        BY <2>1, <3>1, <3>2, <4>1 DEF PairInv, Filed
    <3>3. CASE q = r
      <4>1. side = "p" /\ asset[r] # "executed" /\ protocol[r] = "taken"
        BY <2>5, <3>3
      <4> QED
        BY <3>1, <3>3, <4>1 DEF PairInv, Filed
    <3> QED
      BY <3>2, <3>3
  <2> QED
    BY <2>1, <2>2, <2>3, <2>4, <2>5 DEF PairInv, Filed
<1>8. \A pair \in pairs' : Own(pair)
  <2>1. filed.p # {} /\ filed.a # {} => Own(filed)
    BY <1>3, <1>5 DEF Own
  <2> QED
    BY <1>4, <2>1 DEF PairInv
<1> QED
  BY <1>6, <1>7, <1>8 DEF PairInv, Own

\* A taken leg that can never execute files nothing.
LEMMA LostPairInv ==
    ASSUME PairInv, LegsInv', NEW r \in Runs, Others(r), run' = run,
           \/ protocol[r] = "taken" /\ protocol'[r] = "lost" /\ asset'[r] = asset[r]
           \/ asset[r] = "taken" /\ asset'[r] = "lost" /\ protocol'[r] = protocol[r],
           UNCHANGED <<pending, pairs, refunded>>
    PROVE  PairInv'
<1>1. ~Settled(r) /\ run[r].stage # "unused"
  BY DEF PairInv, LegsInv, LegsOf, Settled
<1>2. OneAtATime'
  BY <1>1, StillOneAtATime
<1>3. Filed'
  <2>1. \A q \in Runs : /\ protocol[q] = "executed" => protocol'[q] = "executed"
                        /\ asset[q] = "executed" <=> asset'[q] = "executed"
    BY DEF Others
  <2> QED
    BY <2>1 DEF PairInv, Filed
<1> QED
  BY <1>2, <1>3 DEF PairInv, Own

\* While every POST is answered, every step keeps the filed legs to one run.
LEMMA NextPairInv ==
    ASSUME ~lossy', PairInv, [Next]_vars
    PROVE  PairInv'
<1>0. LegsInv /\ LegsInv' /\ Shape
  BY NextLegsInv DEF PairInv, LegsInv
<1>1. ASSUME NEW r \in Runs, Prepare(r) \/ Answer(r) PROVE PairInv'
  <2>1. Others(r) /\ UNCHANGED <<protocol, asset, net>>
    BY <1>0, <1>1 DEF Prepare, Answer, End, Shape, Commands, Others
  <2>2. run[r].stage \in {"unused", "prompt"}
    BY <1>1 DEF Prepare, Answer
  <2>3. run[r].stage = "unused" => \A q \in 1..(r - 1) : MayRerun(q)
    BY <1>1 DEF Prepare, Answer
  <2>4. asset'[r] # "executed"
    BY <1>0, <2>1, <2>2 DEF LegsInv, LegsOf
  <2> QED
    BY <1>0, <2>1, <2>2, <2>3, <2>4, CommandPairInv
<1>2. ASSUME NEW r \in Runs, PostProtocol(r) PROVE PairInv'
  <2>1. Others(r) /\ UNCHANGED <<asset, net>> /\ run[r].stage = "protocol"
    BY <1>0, <1>2 DEF PostProtocol, End, Shape, Commands, Others
  <2>2. asset'[r] # "executed"
    BY <1>0, <2>1 DEF LegsInv, LegsOf
  <2> QED
    BY <1>0, <2>1, <2>2, CommandPairInv
<1>3. ASSUME NEW r \in Runs, PostAsset(r) PROVE PairInv'
  <2>1. Others(r) /\ UNCHANGED <<protocol, net>> /\ run[r].stage = "asset"
    BY <1>0, <1>3 DEF PostAsset, End, Shape, Commands, Others
  <2>2. asset'[r] # "executed"
    BY <1>0, <1>3 DEF PostAsset, Shape
  <2> QED
    BY <1>0, <2>1, <2>2, CommandPairInv
<1>4. ASSUME NEW r \in Runs, Interrupt(r) \/ Arrive(r) PROVE PairInv'
  BY <1>0, <1>4 DEF Interrupt, Arrive, LegsInv, LegsOf, Out
<1>5. ASSUME NEW r \in Runs, ExecuteProtocol(r) PROVE PairInv'
  <2>1. /\ Others(r) /\ run' = run /\ asset' = asset /\ refunded' = refunded
        /\ protocol[r] = "taken"
    BY <1>0, <1>5 DEF ExecuteProtocol, Shape, Others
  <2>2. \/ protocol'[r] = "executed" /\ File("p", r)
        \/ protocol'[r] = "lost" /\ UNCHANGED <<pending, pairs>>
    BY <1>0, <1>5 DEF ExecuteProtocol, Shape
  <2> QED
    BY <1>0, <2>1, <2>2, FilePairInv, LostPairInv
<1>6. ASSUME NEW r \in Runs, Drop(r) PROVE PairInv'
  <2>1. /\ Others(r) /\ run' = run /\ asset' = asset
        /\ protocol[r] = "taken" /\ protocol'[r] = "lost"
        /\ UNCHANGED <<pending, pairs, refunded>>
    BY <1>0, <1>6 DEF Drop, Shape, Others, net
  <2> QED
    BY <1>0, <2>1, LostPairInv
<1>7. ASSUME NEW r \in Runs, ExecuteAsset(r) PROVE PairInv'
  <2>1. /\ Others(r) /\ run' = run /\ protocol' = protocol /\ refunded' = refunded
        /\ asset[r] = "taken"
    BY <1>0, <1>7 DEF ExecuteAsset, Shape, Others
  <2>2. \/ asset'[r] = "executed" /\ File("a", r)
        \/ asset'[r] = "lost" /\ UNCHANGED <<pending, pairs>>
    BY <1>0, <1>7 DEF ExecuteAsset, Shape
  <2> QED
    BY <1>0, <2>1, <2>2, FilePairInv, LostPairInv
<1>8. CASE Refund
  <2>1. /\ UNCHANGED <<run, protocol, asset, pairs>>
        /\ pending' = [p |-> {}, a |-> {}]
        /\ refunded' = refunded \cup pending.p \cup pending.a
    BY <1>8 DEF Refund
  <2>2. OneAtATime'
    BY <2>1 DEF PairInv, OneAtATime, Settled
  <2>3. Filed'
    BY <2>1 DEF PairInv, Filed
  <2> QED
    BY <1>0, <2>1, <2>2, <2>3 DEF PairInv, Own
<1>9. CASE Tick \/ UNCHANGED vars
  <2>1. UNCHANGED <<run, protocol, asset, pending, pairs, refunded>>
    BY <1>9 DEF Tick, vars, net
  <2>2. OneAtATime' /\ Filed'
    BY <2>1 DEF PairInv, OneAtATime, Settled, Filed
  <2> QED
    BY <1>0, <2>1, <2>2 DEF PairInv, Own
<1> QED
  BY <1>1, <1>2, <1>3, <1>4, <1>5, <1>6, <1>7, <1>8, <1>9 DEF Next

\* While every POST is answered, a position is made of the two legs of one run:
\* following the printed advice is enough to keep a retry's legs from pairing
\* with an earlier run's.
THEOREM LegsOfOneRunPair == Spec => []OwnLegsPair
<1> DEFINE Inv == lossy \/ PairInv
<1>1. Init => Inv
  BY InitPairInv
<1>2. Inv /\ [Next]_vars => Inv'
  BY NextPairInv, LossyStays
<1>3. Inv => OwnLegsPair
  BY DEF PairInv, Own, OwnLegsPair
<1> QED
  BY <1>1, <1>2, <1>3, PTL DEF Spec
=============================================================================
