------------------------- MODULE UtxoCommands_proofs ------------------------
(***************************************************************************)
(* What holds of the commands of a UTXO chain for every wallet: any number  *)
(* of addresses and outputs, any window, worker count and gap limit, any    *)
(* chain that moves while it is read; and any stuck transaction, rate,      *)
(* parent and size of its replacement.                                      *)
(***************************************************************************)
EXTENDS UtxoCommands, SetSums

-----------------------------------------------------------------------------
\* The scan.  Used is what mined history had touched before the command began.
Used == usedThen

\* Mined history stays: an address it has touched never looks unused again, and
\* an output that nobody touched since still shows in its address's balance.
History ==
    /\ Used \subseteq Addresses /\ steady \subseteq Outs
    /\ \A a \in Used : \E o \in Outs : AddrOf[o] = a /\ status[o] \in Mined
    /\ \A o \in steady : status[o] = "mined" /\ AddrOf[o] \in Used
    /\ DOMAIN info = Addresses /\ DOMAIN status = Outs
    /\ \A a \in Used : info[a].used
    /\ \A o \in steady : info[AddrOf[o]].confirmed > 0

\* Where the scan is.
Place ==
    /\ branch \in 0..Branches /\ base \in Nat /\ gap \in Nat
    /\ gap < GapLimit /\ gap <= base
    /\ DOMAIN probes \subseteq 0..Window - 1

\* A probe of an address in use said so, and saw the steady money there.
Probed ==
    \A k \in DOMAIN probes :
        /\ <<branch, base + k>> \in Used => probes[k].used
        /\ \A o \in steady : AddrOf[o] = <<branch, base + k>>
                             => probes[k].confirmed > 0

\* The last `gap` addresses below the window are not in use.
GapIsEmpty == \A j \in Nat : base - gap <= j /\ j < base => <<branch, j>> \notin Used

\* What was passed was kept: on this branch everything in use, on the branches
\* before it what the gap limit promises.
Kept ==
    /\ \A a \in Used : a[1] = branch /\ a[2] < base => a \in DOMAIN found
    /\ \A a \in WithinGap(Used) : a[1] < branch => a \in DOMAIN found
    /\ \A a \in DOMAIN found : \A o \in steady :
           AddrOf[o] = a => found[a].confirmed > 0

\* The reading that follows: steady money at an address that was found is
\* either still to be read or offered.
Reading ==
    /\ stage # "scan" => ~ Scanning
    /\ stage \in {"select", "gated", "nothing"} => unread = {}
    /\ stage \in {"read", "select", "gated", "nothing"} =>
           \A o \in steady : AddrOf[o] \in DOMAIN found
                             => AddrOf[o] \in unread \/ o \in offered

ScanInv == History /\ Place /\ Probed /\ GapIsEmpty /\ Kept /\ Reading

-----------------------------------------------------------------------------
\* The bump.  A member of the family spends the same inputs to the same outputs.
Members == [fee : Nat, size : Sizes, val : [DOMAIN shape.val -> Nat],
            memo : {shape.memo}]
Active  == {"fetched", "planned", "priced", "prompt"}
Planned == {"planned", "priced", "prompt"}
BumpSteps == Active \cup {"idle", "refused", "short", "rejected", "posted"}

BumpTyped ==
    /\ shape \in Shapes /\ step \in BumpSteps
    /\ parent \in [at : {"pool", "mined"}, fee : ParentFees]
    /\ asked \in Nat /\ extra \in Nat /\ suggested \subseteq Nat
    /\ followed \in {"own", "blind", "informed"}
    /\ pool \in Members \cup {NoTx} /\ mined \in Members \cup {NoTx}
    /\ tx \in Members \cup {NoTx}
    /\ step \in Active => tx \in Members
    /\ step \in Planned => plan \in Members

\* A plan pays the relay floor of the transaction that was read; and while
\* nothing moved, that is the one in the mempool.
PlanIsEnough ==
    /\ pool # NoTx => mined = NoTx
    /\ step \in Planned => plan.fee >= Floor(tx)
    /\ step \in Active => pool \in {tx, NoTx} /\ (~ overtaken => pool = tx)
    /\ RefusedOnlyIfOvertaken

\* What a suggested rate is worth, unless its float product overshoots: it plans
\* without a surcharge, and if it was suggested with the parent priced, with its
\* own surcharge as well.
Exact(r)   == <<tx.size, r>> \notin Overshoot
Plans(r)   == Exact(r) => Affordable(tx, r, 0)
Settled(r) == Exact(r) => Affordable(tx, r, Deficit(r))

\* The surcharge of a plan.
Surcharge ==
    /\ step \in {"fetched", "planned"} => extra = 0
    /\ step = "priced" => extra = Deficit(asked) /\ extra > 0

Suggesting ==
    /\ step \in Active /\ followed # "own" => Plans(asked)
    /\ step \in Active /\ followed = "informed" => Settled(asked)
    /\ suggested # {} => step = "short" /\ tx \in Members /\ pool \in {tx, NoTx}
    /\ \A r \in suggested : Plans(r) /\ (extra > 0 => Settled(r))
    /\ InformedRatePlans

BumpInv == BumpTyped /\ PlanIsEnough /\ Surcharge /\ Suggesting

\* Every member that was broadcast and is not the original is a replacement
\* whose change paid for it.
Replaces(t) ==
    /\ \A o \in DOMAIN shape.val \ {"change"} : t.val[o] = shape.val[o]
    /\ "change" \in DOMAIN shape.val /\ t.val["change"] >= Dust
    /\ Paid(t) = Paid(Original(shape)) /\ t.fee > shape.fee

FamilyInv ==
    /\ \A t \in {pool, mined, tx} \ {NoTx} : t = Original(shape) \/ Replaces(t)
    /\ step \in Planned => Replaces(plan)

-----------------------------------------------------------------------------
\* An explorer's answer shows mined history, and mined money that nobody is
\* spending.
LEMMA InfoShows ==
    ASSUME NEW life, NEW o \in Outs, NEW a, a = AddrOf[o]
    PROVE  /\ life[o] \in Mined => InfoWith(life, a).used
           /\ life[o] = "mined" => InfoWith(life, a).confirmed > 0
<1>1. o \in At(a)
  BY DEF At
<1>2. life[o] \in Mined => InfoWith(life, a).used
  <2>1. Mined \subseteq Statuses \ {"none"}
    BY DEF Mined, Statuses
  <2> QED
    BY <1>1, <2>1 DEF InfoWith
<1>3. ASSUME life[o] = "mined" PROVE InfoWith(life, a).confirmed > 0
  <2>1. PICK S : S = {p \in At(a) : life[p] \in {"mined", "leaving"}}
    OBVIOUS
  <2>2. o \in S /\ S \subseteq Outs
    BY <1>1, <1>3, <2>1 DEF At
  <2>3. IsFiniteSet(S) /\ \A p \in S : Worth[p] \in Nat
    BY <2>2, SpendAssumption, FS_Subset
  <2>4. Total(Worth, S) \in Nat /\ Worth[o] <= Total(Worth, S)
    BY <2>2, <2>3, TotalIsNat
  <2>5. Worth[o] \in Nat \ {0}
    BY SpendAssumption
  <2>6. Total(Worth, S) > 0
    BY <2>4, <2>5
  <2>7. WorthOf(S) = Total(Worth, S)
    BY DEF WorthOf, Total
  <2>8. InfoWith(life, a).confirmed = WorthOf(S)
    BY <2>1 DEF InfoWith
  <2> QED
    BY <2>6, <2>7, <2>8
<1> QED
  BY <1>2, <1>3

\* The last hit of a window is one of its positions.
LEMMA LastHit ==
    ASSUME NEW S, S \subseteq 0..Window - 1, S # {}
    PROVE  Max(S) \in S /\ \A k \in S : k <= Max(S)
<1>1. PICK k0 \in S : TRUE
  OBVIOUS
<1>2. PICK T : T = {Window - 1 - k : k \in S}
  OBVIOUS
<1>3. T \subseteq Nat /\ Window - 1 - k0 \in T
  BY <1>2, ScanAssumption
<1>4. PICK x \in T : \A y \in T : x <= y
  BY <1>3, LeastOf
<1>5. PICK m \in S : x = Window - 1 - m
  BY <1>2
<1>6. ASSUME NEW k \in S PROVE m >= k
  <2>1. x <= Window - 1 - k
    BY <1>2, <1>4
  <2>2. k \in Int /\ m \in Int /\ Window \in Int
    BY ScanAssumption
  <2> QED
    BY <1>5, <2>1, <2>2
<1>7. \E z \in S : \A k \in S : z >= k
  BY <1>6
<1>8. Max(S) = CHOOSE z \in S : \A k \in S : z >= k
  BY DEF Max
<1>9. Max(S) \in S /\ \A k \in S : Max(S) >= k
  BY <1>7, <1>8
<1>10. \A k \in S : k \in Int
  OBVIOUS
<1> QED
  BY <1>9, <1>10

\* The scan starts where the wallet's history is.
LEMMA InitScanInv == SpendInit => ScanInv
<1> SUFFICES ASSUME SpendInit PROVE ScanInv
  OBVIOUS
<1>1. /\ branch = 0 /\ base = 0 /\ gap = 0 /\ probes = <<>> /\ found = <<>>
      /\ stage = "scan" /\ status \in [Outs -> {"none", "pool", "mined", "spent"}]
      /\ info = [a \in Addresses |-> InfoWith(status, a)]
      /\ steady = {o \in Outs : status[o] = "mined"}
      /\ usedThen = {AddrOf[o] : o \in {p \in Outs : status[p] \in Mined}}
  BY DEF SpendInit, ScanInit, InfoIsCurrent
<1>2. DOMAIN probes = {} /\ DOMAIN found = {}
  BY <1>1
<1>3. History
  <2>1. Used \subseteq Addresses /\ steady \subseteq Outs
    BY <1>1, SpendAssumption DEF Used
  <2>2. \A a \in Used : \E o \in Outs : AddrOf[o] = a /\ status[o] \in Mined
    BY <1>1 DEF Used
  <2>3. \A o \in steady : status[o] = "mined" /\ AddrOf[o] \in Used
    BY <1>1 DEF Used, Mined
  <2>4. ASSUME NEW a \in Used PROVE info[a].used
    <3>1. PICK o \in Outs : AddrOf[o] = a /\ status[o] \in Mined
      BY <2>2
    <3>2. InfoWith(status, a).used
      BY <3>1, InfoShows
    <3> QED
      BY <1>1, <2>1, <3>2
  <2>5. ASSUME NEW o \in steady PROVE info[AddrOf[o]].confirmed > 0
    <3>1. InfoWith(status, AddrOf[o]).confirmed > 0
      BY <2>1, <2>3, InfoShows
    <3> QED
      BY <1>1, <2>1, <2>3, <3>1
  <2> QED
    BY <1>1, <2>1, <2>2, <2>3, <2>4, <2>5 DEF History
<1>4. Place /\ Probed
  BY <1>1, <1>2, ScanAssumption DEF Place, Probed
<1>5. GapIsEmpty
  BY <1>1 DEF GapIsEmpty
<1>6. Kept
  <2>1. \A a \in Used : a[1] \in Nat /\ a[2] \in Nat
    BY <1>3, ScanAssumption DEF History, Addresses
  <2>2. WithinGap(Used) \subseteq Used
    BY DEF WithinGap
  <2> QED
    BY <1>1, <1>2, <2>1, <2>2 DEF Kept
<1>7. Reading
  BY <1>1 DEF Reading
<1> QED
  BY <1>3, <1>4, <1>5, <1>6, <1>7 DEF ScanInv

\* A probe is answered with what the explorer knows by then.
LEMMA ProbeKeeps ==
    ASSUME ScanInv, Scan, NEW n \in 0..Window - 1, Probe(n)
    PROVE  ScanInv'
<1>1. /\ UNCHANGED <<info, status, stage, unread, offered, steady, usedThen,
                     branch, base, gap, found>>
      /\ n \notin DOMAIN probes
      /\ probes' = [i \in DOMAIN probes \cup {n} |->
                      IF i = n THEN InfoOf(<<branch, base + n>>) ELSE probes[i]]
  BY DEF Scan, Probe, place, history
<1>2. Used' = Used /\ WithinGap(Used)' = WithinGap(Used)
  BY <1>1 DEF Used, WithinGap
<1>3. ASSUME <<branch, base + n>> \in Used PROVE InfoOf(<<branch, base + n>>).used
  BY <1>3 DEF ScanInv, History, InfoOf
<1>4. ASSUME NEW o \in steady, AddrOf[o] = <<branch, base + n>>
      PROVE  InfoOf(<<branch, base + n>>).confirmed > 0
  BY <1>4 DEF ScanInv, History, InfoOf
<1>5. Probed'
  <2>1. ASSUME NEW k \in DOMAIN probes'
        PROVE  /\ <<branch, base + k>> \in Used => probes'[k].used
               /\ \A o \in steady : AddrOf[o] = <<branch, base + k>>
                                    => probes'[k].confirmed > 0
    <3>1. CASE k = n
      BY <1>1, <1>3, <1>4, <3>1
    <3>2. CASE k # n
      <4>1. k \in DOMAIN probes /\ probes'[k] = probes[k]
        BY <1>1, <3>2
      <4> QED
        BY <4>1 DEF ScanInv, Probed
    <3> QED
      BY <3>1, <3>2
  <2> QED
    BY <1>1, <1>2, <2>1 DEF Probed
<1>6. Place'
  BY <1>1 DEF ScanInv, Place
<1>7. History' /\ GapIsEmpty' /\ Kept'
  BY <1>1, <1>2 DEF ScanInv, History, GapIsEmpty, Kept
<1>8. Reading'
  BY <1>1 DEF ScanInv, Reading, Scanning
<1> QED
  BY <1>5, <1>6, <1>7, <1>8 DEF ScanInv

\* Below the end of a full window everything in use is found, and the last
\* GapAfter addresses are not in use.
LEMMA WindowRead ==
    ASSUME ScanInv, Scanning, DOMAIN probes = 0..Window - 1
    PROVE  /\ GapAfter \in Nat /\ GapAfter <= base + Window
           /\ \A j \in Nat : base + Window - GapAfter <= j /\ j < base + Window
                             => <<branch, j>> \notin Used
           /\ \A a \in Used : a[1] = branch /\ a[2] < base + Window =>
                  \/ a \in DOMAIN found
                  \/ \E k \in Hits : a = <<branch, base + k>>
<1>1. base \in Nat /\ gap \in Nat /\ Window \in Nat \ {0} /\ gap <= base
  BY ScanAssumption DEF ScanInv, Place
<1>2. ASSUME NEW j \in Nat, base <= j, j < base + Window, <<branch, j>> \in Used
      PROVE  \E k \in Hits : j = base + k
  <2>1. j - base \in DOMAIN probes /\ base + (j - base) = j
    BY <1>1, <1>2
  <2>2. probes[j - base].used
    BY <1>2, <2>1 DEF ScanInv, Probed
  <2>3. j - base \in Hits
    BY <2>1, <2>2 DEF Hits, IsHit
  <2> QED
    BY <2>1, <2>3
<1>3. Hits \subseteq 0..Window - 1
  BY DEF Hits
<1>4. ASSUME NEW a \in Used, a[1] = branch, a[2] < base + Window
      PROVE  \/ a \in DOMAIN found
             \/ \E k \in Hits : a = <<branch, base + k>>
  <2>1. a = <<branch, a[2]>> /\ a[2] \in Nat
    BY <1>4, ScanAssumption DEF ScanInv, History, Addresses
  <2>2. CASE a[2] < base
    BY <1>4, <2>2 DEF ScanInv, Kept
  <2>3. CASE base <= a[2]
    <3>1. \E k \in Hits : a[2] = base + k
      BY <1>2, <1>4, <2>1, <2>3
    <3> QED
      BY <2>1, <3>1
  <2> QED
    BY <1>1, <2>1, <2>2, <2>3
<1>5. CASE Hits = {}
  <2>1. GapAfter = gap + Window
    BY <1>5 DEF GapAfter
  <2>2. ASSUME NEW j \in Nat, base + Window - GapAfter <= j, j < base + Window
        PROVE  <<branch, j>> \notin Used
    <3>1. CASE j < base
      <4>1. base - gap <= j
        BY <1>1, <2>1, <2>2
      <4> QED
        BY <3>1, <4>1 DEF ScanInv, GapIsEmpty
    <3>2. CASE base <= j
      BY <1>2, <1>5, <2>2, <3>2
    <3> QED
      BY <1>1, <3>1, <3>2
  <2> QED
    BY <1>1, <1>4, <2>1, <2>2
<1>6. CASE Hits # {}
  <2>1. Max(Hits) \in Hits /\ \A k \in Hits : k <= Max(Hits)
    BY <1>3, <1>6, LastHit
  <2>2. PICK m \in 0..Window - 1 : m = Max(Hits)
    BY <1>3, <2>1
  <2>3. GapAfter = Window - 1 - m
    BY <1>6, <2>2 DEF GapAfter
  <2>4. GapAfter \in Nat /\ GapAfter <= base + Window
    BY <1>1, <2>3
  <2>5. ASSUME NEW j \in Nat, base + Window - GapAfter <= j, j < base + Window
        PROVE  <<branch, j>> \notin Used
    <3>1. base + m + 1 <= j /\ base <= j
      BY <1>1, <2>3, <2>5
    <3>2. ASSUME <<branch, j>> \in Used PROVE FALSE
      <4>1. PICK k \in Hits : j = base + k
        BY <1>2, <2>5, <3>1, <3>2
      <4>2. k <= m /\ k \in Int
        BY <1>3, <2>1, <2>2
      <4> QED
        BY <1>1, <3>1, <4>1, <4>2
    <3> QED
      BY <3>2
  <2> QED
    BY <1>4, <2>4, <2>5
<1> QED
  BY <1>5, <1>6

\* A window is closed: either the branch goes on, or the gap it ends with hides
\* only what the gap limit gives up.
LEMMA WindowKeeps ==
    ASSUME ScanInv, Scan, CloseWindow
    PROVE  ScanInv'
<1>1. /\ UNCHANGED <<info, status, stage, unread, offered, steady, usedThen>>
      /\ stage = "scan" /\ Scanning /\ DOMAIN probes = 0..Window - 1
      /\ probes' = <<>>
      /\ IF GapAfter < GapLimit
         THEN branch' = branch /\ base' = base + Window /\ gap' = GapAfter
         ELSE branch' = branch + 1 /\ base' = 0 /\ gap' = 0
  BY DEF Scan, CloseWindow, history
<1>2. PICK hit : hit = {<<branch, base + k>> : k \in Hits}
  OBVIOUS
<1>3. found' = [a \in DOMAIN found \cup hit |->
                  IF a \in hit THEN probes[a[2] - base] ELSE found[a]]
  BY <1>2 DEF CloseWindow
<1>4. Used' = Used /\ WithinGap(Used)' = WithinGap(Used)
  BY <1>1 DEF Used, WithinGap
<1>5. /\ branch \in Nat /\ branch < Branches /\ Branches \in Nat
      /\ base \in Nat /\ gap \in Nat /\ Window \in Nat \ {0} /\ GapLimit \in Nat \ {0}
  BY <1>1, ScanAssumption DEF ScanInv, Place, Scanning
<1>6. /\ GapAfter \in Nat /\ GapAfter <= base + Window
      /\ \A j \in Nat : base + Window - GapAfter <= j /\ j < base + Window
                        => <<branch, j>> \notin Used
      /\ \A a \in Used : a[1] = branch /\ a[2] < base + Window => a \in DOMAIN found'
  BY <1>1, <1>2, <1>3, WindowRead
<1>7. \A a \in DOMAIN found' : \A o \in steady :
          AddrOf[o] = a => found'[a].confirmed > 0
  <2>1. ASSUME NEW a \in DOMAIN found', NEW o \in steady, AddrOf[o] = a
        PROVE  found'[a].confirmed > 0
    <3>1. CASE a \in hit
      <4>1. PICK k \in Hits : a = <<branch, base + k>>
        BY <1>2, <3>1
      <4>2. k \in DOMAIN probes /\ k \in Int
        BY <1>1, <4>1 DEF Hits
      <4>3. a[2] - base = k
        BY <1>5, <4>1, <4>2
      <4>4. found'[a] = probes[k]
        BY <1>3, <3>1, <4>3
      <4>5. probes[k].confirmed > 0
        BY <2>1, <4>1, <4>2 DEF ScanInv, Probed
      <4> QED
        BY <4>4, <4>5
    <3>2. CASE a \notin hit
      <4>1. a \in DOMAIN found /\ found'[a] = found[a]
        BY <1>3, <3>2
      <4> QED
        BY <2>1, <4>1 DEF ScanInv, Kept
    <3> QED
      BY <3>1, <3>2
  <2> QED
    BY <2>1
<1>8. DOMAIN found \subseteq DOMAIN found' /\ WithinGap(Used) \subseteq Used
  BY <1>3 DEF WithinGap
<1>9. \A a \in Used : a = <<a[1], a[2]>> /\ a[1] \in Nat /\ a[2] \in Nat
  BY ScanAssumption DEF ScanInv, History, Addresses
<1>10. Place' /\ Probed' /\ GapIsEmpty' /\ Kept'
  <2>1. DOMAIN probes' = {}
    BY <1>1
  <2>2. CASE GapAfter < GapLimit
    <3>1. branch' = branch /\ base' = base + Window /\ gap' = GapAfter
      BY <1>1, <2>2
    <3>2. Place'
      BY <1>5, <1>6, <2>1, <2>2, <3>1 DEF ScanInv, Place
    <3>3. Probed'
      BY <2>1 DEF Probed
    <3>4. GapIsEmpty'
      <4>1. PICK e \in Int, g \in Int : e = base + Window /\ g = GapAfter
        BY <1>5, <1>6
      <4>2. \A j \in Nat : e - g <= j /\ j < e => <<branch, j>> \notin Used
        BY <1>5, <1>6, <4>1
      <4>3. base' = e /\ gap' = g /\ branch' = branch
        BY <3>1, <4>1
      <4> QED
        BY <1>4, <4>2, <4>3 DEF GapIsEmpty
    <3>5. Kept'
      BY <1>1, <1>4, <1>6, <1>7, <1>8, <3>1 DEF ScanInv, Kept
    <3> QED
      BY <3>2, <3>3, <3>4, <3>5
  <2>3. CASE ~ (GapAfter < GapLimit)
    <3>1. branch' = branch + 1 /\ base' = 0 /\ gap' = 0
      BY <1>1, <2>3
    <3>2. Place'
      BY <1>5, <2>1, <3>1 DEF Place
    <3>3. Probed'
      BY <2>1 DEF Probed
    <3>4. GapIsEmpty'
      BY <3>1 DEF GapIsEmpty
    <3>5. ASSUME NEW a \in WithinGap(Used), a[1] < branch + 1
          PROVE  a \in DOMAIN found'
      <4>1. a \in Used /\ a = <<a[1], a[2]>> /\ a[1] \in Nat /\ a[2] \in Nat
        BY <1>8, <1>9
      <4>2. CASE a[1] < branch
        BY <1>8, <4>2 DEF ScanInv, Kept
      <4>3. CASE a[1] = branch /\ a[2] < base + Window
        BY <1>6, <4>1, <4>3
      <4>4. CASE a[1] = branch /\ ~ (a[2] < base + Window)
        <5>1. PICK j \in Int : j = base + Window - GapLimit
          BY <1>5
        <5>2. j \in 0..a[2] - GapLimit
          BY <1>5, <1>6, <2>3, <4>1, <4>4, <5>1
        <5>3. PICK i \in j..j + GapLimit - 1 : <<a[1], i>> \in Used
          BY <5>2 DEF WithinGap
        <5>4. i \in Nat /\ base + Window - GapAfter <= i /\ i < base + Window
          BY <1>5, <1>6, <2>3, <5>1, <5>2, <5>3
        <5> QED
          BY <1>6, <4>4, <5>3, <5>4
      <4> QED
        BY <1>5, <3>5, <4>1, <4>2, <4>3, <4>4
    <3>6. \A a \in Used : ~ (a[2] < 0)
      BY <1>9
    <3>7. Kept'
      BY <1>1, <1>4, <1>7, <3>1, <3>5, <3>6 DEF Kept
    <3> QED
      BY <3>2, <3>3, <3>4, <3>7
  <2> QED
    BY <2>2, <2>3
<1>11. History'
  BY <1>1, <1>4 DEF ScanInv, History
<1>12. Reading'
  BY <1>1 DEF ScanInv, Reading
<1> QED
  BY <1>10, <1>11, <1>12 DEF ScanInv

\* Steps that touch neither the scan nor the chain.
LEMMA ScanStays ==
    ASSUME ScanInv, UNCHANGED <<info, status, steady, usedThen, branch, base, gap,
                                probes, found>>
    PROVE  History' /\ Place' /\ Probed' /\ GapIsEmpty' /\ Kept'
<1>1. Used' = Used /\ WithinGap(Used)' = WithinGap(Used)
  BY DEF Used, WithinGap
<1>2. History' /\ Place'
  BY <1>1 DEF ScanInv, History, Place
<1>3. Probed' /\ GapIsEmpty' /\ Kept'
  BY <1>1 DEF ScanInv, Probed, GapIsEmpty, Kept
<1> QED
  BY <1>2, <1>3

\* The chain moves: mined history stays mined, and what is still steady still
\* shows.
LEMMA ChainMoves ==
    ASSUME ScanInv, NEW life,
           DOMAIN life = Outs,
           \A o \in Outs : status[o] \in Mined => life[o] \in Mined,
           NEW left \in SUBSET steady,
           \A o \in left : life[o] = "mined",
           status' = life, steady' = left,
           info' = [a \in Addresses |-> InfoWith(life, a)],
           UNCHANGED <<usedThen, branch, base, gap, probes, found>>
    PROVE  History' /\ Place' /\ Probed' /\ GapIsEmpty' /\ Kept'
<1>1. Used' = Used /\ WithinGap(Used)' = WithinGap(Used)
  BY DEF Used, WithinGap
<1>2. ASSUME NEW a \in Used PROVE \E o \in Outs : AddrOf[o] = a /\ life[o] \in Mined
  BY DEF ScanInv, History
<1>3. ASSUME NEW a \in Used PROVE info'[a].used
  <2>1. PICK o \in Outs : AddrOf[o] = a /\ life[o] \in Mined
    BY <1>2
  <2>2. InfoWith(life, a).used
    BY <2>1, InfoShows
  <2>3. a \in Addresses
    BY DEF ScanInv, History
  <2> QED
    BY <2>2, <2>3
<1>4. ASSUME NEW o \in left PROVE info'[AddrOf[o]].confirmed > 0
  <2>1. o \in Outs /\ AddrOf[o] \in Addresses
    BY SpendAssumption DEF ScanInv, History
  <2>2. InfoWith(life, AddrOf[o]).confirmed > 0
    BY <2>1, InfoShows
  <2> QED
    BY <2>1, <2>2
<1>5. History'
  BY <1>1, <1>2, <1>3, <1>4 DEF ScanInv, History
<1>6. Place' /\ Probed' /\ GapIsEmpty' /\ Kept'
  BY <1>1 DEF ScanInv, Place, Probed, GapIsEmpty, Kept
<1> QED
  BY <1>5, <1>6

\* The command's steps after the scan, and the chain's, keep the rest.
LEMMA SpendKeeps == ScanInv /\ [SpendNext]_spendVars => ScanInv'
<1> SUFFICES ASSUME ScanInv, [SpendNext]_spendVars PROVE ScanInv'
  OBVIOUS
<1>1. CASE Scan
  <2>1. CASE CloseWindow
    BY <1>1, <2>1, WindowKeeps
  <2>2. CASE \E k \in 0..Window - 1 : Probe(k)
    BY <1>1, <2>2, ProbeKeeps
  <2> QED
    BY <1>1, <2>1, <2>2 DEF Scan, ScanStep
<1>2. CASE ScanDone
  <2>1. /\ UNCHANGED <<info, status, offered, steady, usedThen, branch, base, gap,
                       probes, found>>
        /\ stage' = "read" /\ ~ Scanning
        /\ unread' = {a \in DOMAIN found : WorthReading(a)}
    BY <1>2 DEF ScanDone, scanVars, place, history
  <2>2. \A o \in steady : AddrOf[o] \in DOMAIN found => AddrOf[o] \in unread'
    BY <2>1 DEF ScanInv, Kept, WorthReading
  <2>3. Reading'
    BY <2>1, <2>2 DEF Reading, Scanning
  <2> QED
    BY <2>1, <2>3, ScanStays DEF ScanInv
<1>3. ASSUME NEW a \in Addresses, Read(a) PROVE ScanInv'
  <2>1. /\ UNCHANGED <<info, status, stage, steady, usedThen, branch, base, gap,
                       probes, found>>
        /\ stage = "read"
        /\ offered' = offered \cup {o \in At(a) : Spendable(o)}
        /\ unread' = unread \ {a}
    BY <1>3 DEF Read, scanVars, place, history
  <2>2. ASSUME NEW o \in steady, AddrOf[o] \in DOMAIN found
        PROVE  AddrOf[o] \in unread' \/ o \in offered'
    <3>1. AddrOf[o] \in unread \/ o \in offered
      BY <2>1, <2>2 DEF ScanInv, Reading
    <3>2. o \in Outs /\ status[o] = "mined"
      BY DEF ScanInv, History
    <3>3. AddrOf[o] = a => o \in At(a) /\ Spendable(o)
      BY <3>2 DEF At, Spendable
    <3> QED
      BY <2>1, <3>1, <3>3
  <2>3. Reading'
    BY <2>1, <2>2 DEF ScanInv, Reading, Scanning
  <2> QED
    BY <2>1, <2>3, ScanStays DEF ScanInv
<1>4. CASE ReadDone \/ Select \/ Decline
  <2>1. /\ UNCHANGED <<info, status, unread, offered, steady, usedThen,
                       branch, base, gap, probes, found>>
        /\ \/ stage = "read" /\ unread = {}
           \/ stage \in {"select", "gated"}
        /\ stage' \in {"nothing", "select", "gated", "declined"}
    BY <1>4 DEF ReadDone, Select, Decline, scanVars, place, history
  <2>2. Reading'
    BY <2>1 DEF ScanInv, Reading, Scanning
  <2> QED
    BY <2>1, <2>2, ScanStays DEF ScanInv
<1>5. CASE Broadcast
  <2>1. /\ UNCHANGED <<unread, offered, usedThen, branch, base, gap, probes, found>>
        /\ stage = "gated" /\ stage' \in {"posted", "rejected"}
        /\ \/ /\ status' = [o \in Outs |-> IF o \in chosen THEN "leaving"
                                           ELSE status[o]]
              /\ info' = [a \in Addresses |-> InfoWith(status', a)]
              /\ steady' = steady \ chosen
           \/ UNCHANGED <<info, status, steady>>
    BY <1>5 DEF Broadcast, scanVars, place
  <2>2. Reading'
    BY <2>1 DEF ScanInv, Reading, Scanning
  <2>3. CASE UNCHANGED <<info, status, steady>>
    BY <2>1, <2>2, <2>3, ScanStays DEF ScanInv
  <2>4. CASE /\ status' = [o \in Outs |-> IF o \in chosen THEN "leaving"
                                          ELSE status[o]]
             /\ info' = [a \in Addresses |-> InfoWith(status', a)]
             /\ steady' = steady \ chosen
    <3>1. PICK life : life = [o \in Outs |-> IF o \in chosen THEN "leaving"
                                             ELSE status[o]]
      OBVIOUS
    <3>2. DOMAIN life = Outs /\ \A o \in Outs : status[o] \in Mined => life[o] \in Mined
      BY <3>1 DEF Mined
    <3>3. \A o \in steady \ chosen : life[o] = "mined"
      BY <3>1 DEF ScanInv, History
    <3>4. status' = life /\ info' = [a \in Addresses |-> InfoWith(life, a)]
      BY <2>4, <3>1
    <3>5. PICK left : left = steady \ chosen
      OBVIOUS
    <3>6. History' /\ Place' /\ Probed' /\ GapIsEmpty' /\ Kept'
      BY <2>1, <2>4, <3>2, <3>3, <3>4, <3>5, ChainMoves
    <3> QED
      BY <2>2, <3>6 DEF ScanInv
  <2> QED
    BY <2>1, <2>3, <2>4
<1>6. ASSUME NEW o \in Outs, Move(o) PROVE ScanInv'
  <2>1. PICK s \in Statuses : <<status[o], s>> \in Life
                              /\ status' = [status EXCEPT ![o] = s]
    BY <1>6 DEF Move
  <2>2. /\ UNCHANGED <<stage, unread, offered, usedThen, branch, base, gap, probes,
                       found>>
        /\ steady' = steady \ {o}
        /\ info' = [a \in Addresses |-> InfoWith(status', a)]
    BY <1>6 DEF Move, progress, scanVars, place
  <2>3. PICK life : life = [status EXCEPT ![o] = s]
    OBVIOUS
  <2>4. DOMAIN status = Outs
    BY DEF ScanInv, History
  <2>5. status[o] \in Mined => s \in Mined
    BY <2>1 DEF Life, Mined
  <2>6. DOMAIN life = Outs /\ \A p \in Outs : status[p] \in Mined => life[p] \in Mined
    BY <2>3, <2>4, <2>5
  <2>7. \A p \in steady \ {o} : life[p] = "mined"
    BY <2>3, <2>4 DEF ScanInv, History
  <2>8. status' = life /\ info' = [a \in Addresses |-> InfoWith(life, a)]
    BY <2>1, <2>2, <2>3
  <2>9. PICK left : left = steady \ {o}
    OBVIOUS
  <2>10. History' /\ Place' /\ Probed' /\ GapIsEmpty' /\ Kept'
    BY <2>2, <2>6, <2>7, <2>8, <2>9, ChainMoves
  <2>11. Reading'
    BY <2>2 DEF ScanInv, Reading, Scanning
  <2> QED
    BY <2>10, <2>11 DEF ScanInv
<1>7. CASE UNCHANGED spendVars
  <2>1. UNCHANGED <<info, status, stage, unread, offered, steady, usedThen,
                    branch, base, gap, probes, found>>
    BY <1>7 DEF spendVars, progress, history, scanVars, place
  <2>2. Reading'
    BY <2>1 DEF ScanInv, Reading, Scanning
  <2> QED
    BY <2>1, <2>2, ScanStays DEF ScanInv
<1> QED
  BY <1>1, <1>2, <1>3, <1>4, <1>5, <1>6, <1>7 DEF SpendNext, SpendStep

\* A bump leaves the spend alone.
LEMMA NextScanInv == ScanInv /\ [Next]_vars => ScanInv'
<1>1. [Next]_vars => [SpendNext]_spendVars
  BY DEF Next, vars, Spend, Replace
<1> QED
  BY <1>1, SpendKeeps

\* The invariant of scans and spends holds with a bump running beside them.
LEMMA AlwaysScanInv == Spec => []ScanInv
<1>1. Init => ScanInv
  BY InitScanInv DEF Init
<1> QED
  BY <1>1, NextScanInv, PTL DEF Spec

\* scan_account finds every address whose history was mined before it began
\* and lies within the gap limit, for any window and any number of workers.
THEOREM UsedAlwaysFound == Spec => []UsedIsFound
<1>1. ScanInv => UsedIsFound
  <2> SUFFICES ASSUME ScanInv, stage \in {"read", "select", "gated"}
               PROVE  WithinGap(usedThen) \subseteq DOMAIN found
    BY DEF UsedIsFound
  <2>1. branch = Branches
    BY ScanAssumption DEF ScanInv, Reading, Place, Scanning
  <2>2. ASSUME NEW a \in WithinGap(Used) PROVE a[1] < branch
    <3>1. a \in Addresses
      BY DEF WithinGap, ScanInv, History
    <3> QED
      BY <2>1, <3>1, ScanAssumption DEF Addresses
  <2> QED
    BY <2>2 DEF ScanInv, Kept, Used
<1> QED
  BY <1>1, AlwaysScanInv, PTL

\* _spendable_utxos offers every output that was mined before the command began
\* and that nobody touched, although the balance that decides and the list of
\* outputs are read at different moments.
THEOREM OwnMoneyAlwaysOffered == Spec => []OwnMoneyIsOffered
<1>1. ScanInv => OwnMoneyIsOffered
  <2> SUFFICES ASSUME ScanInv, stage \in {"select", "gated", "nothing"},
                      NEW o \in steady, AddrOf[o] \in WithinGap(usedThen)
               PROVE  o \in offered
    BY DEF OwnMoneyIsOffered
  <2>1. branch = Branches
    BY ScanAssumption DEF ScanInv, Reading, Place, Scanning
  <2>2. AddrOf[o] \in Addresses
    BY DEF WithinGap, ScanInv, History, Used
  <2>3. AddrOf[o][1] < branch
    BY <2>1, <2>2, ScanAssumption DEF Addresses
  <2>4. AddrOf[o] \in DOMAIN found
    BY <2>3 DEF ScanInv, Kept, Used
  <2> QED
    BY <2>4 DEF ScanInv, Reading
<1> QED
  BY <1>1, AlwaysScanInv, PTL

-----------------------------------------------------------------------------
\* Products keep the order of their factors.
LEMMA TimesGrows ==
    ASSUME NEW n \in Nat, NEW a \in Int, NEW b \in Int, a <= b
    PROVE  n * a \in Int /\ n * b \in Int /\ n * a <= n * b
<1>1. PICK d \in Nat : b = a + d
  <2>1. b - a \in Nat /\ b = a + (b - a)
    OBVIOUS
  <2> QED
    BY <2>1
<1>2. n * b = n * a + n * d /\ n * d \in Nat /\ n * a \in Int
  BY <1>1
<1> QED
  BY <1>2

\* Rounding up: the smallest number whose product covers what is divided.
LEMMA CeilDivBounds ==
    ASSUME NEW a \in Nat, NEW b \in Nat \ {0}
    PROVE  /\ CeilDiv(a, b) \in Nat
           /\ \A m \in Int : a <= b * m => CeilDiv(a, b) <= m
           /\ a <= b * CeilDiv(a, b)
<1>1. PICK q \in Int : q = CeilDiv(a, b)
  BY DEF CeilDiv
<1>2. b * q <= a + b - 1 /\ a + b - 1 < b * q + b /\ q \in Nat
  BY <1>1 DEF CeilDiv
<1>3. b * q \in Int
  OBVIOUS
<1>4. a <= b * q
  BY <1>2, <1>3
<1>5. ASSUME NEW m \in Int, a <= b * m PROVE q <= m
  <2>1. ASSUME m + 1 <= q PROVE FALSE
    <3>1. b * (m + 1) <= b * q /\ b * (m + 1) = b * m + b /\ b * m \in Int
      BY <2>1, TimesGrows
    <3> QED
      BY <1>2, <1>3, <1>5, <3>1
  <2> QED
    BY <2>1
<1> QED
  BY <1>1, <1>2, <1>4, <1>5

\* Rounding up keeps the order.
LEMMA CeilDivGrows ==
    ASSUME NEW a \in Nat, NEW c \in Nat, a <= c, NEW b \in Nat \ {0}
    PROVE  CeilDiv(a, b) <= CeilDiv(c, b)
<1>1. c <= b * CeilDiv(c, b) /\ CeilDiv(c, b) \in Nat
  BY CeilDivBounds
<1>2. b * CeilDiv(c, b) \in Int
  BY <1>1
<1>3. a <= b * CeilDiv(c, b)
  BY <1>1, <1>2
<1> QED
  BY <1>1, <1>3, CeilDivBounds

\* What a float makes of a product: the product rounded up, or one more, and
\* still no less for a higher rate.
LEMMA CeilProductBounds ==
    ASSUME NEW n \in Nat \ {0}, NEW r \in Nat
    PROVE  /\ CeilProduct(n, r) \in Nat /\ CeilDiv(n * r, Den) \in Nat
           /\ <<n, r>> \notin Overshoot => CeilProduct(n, r) = CeilDiv(n * r, Den)
           /\ <<n, r>> \in Overshoot => CeilProduct(n, r) = CeilDiv(n * r, Den) + 1
<1>1. Den \in Nat \ {0} /\ n * r \in Nat
  BY BumpAssumption
<1>2. PICK c \in Nat : c = CeilDiv(n * r, Den)
  BY <1>1, CeilDivBounds
<1> QED
  BY <1>2 DEF CeilProduct

LEMMA CeilProductGrows ==
    ASSUME NEW n \in Nat \ {0}, NEW r \in Nat, NEW s \in Nat, r <= s
    PROVE  CeilProduct(n, r) <= CeilProduct(n, s)
<1>1. Den \in Nat \ {0}
  BY BumpAssumption
<1>2. PICK a \in Nat, b \in Nat : a = n * r /\ b = n * s /\ a <= b /\ (r < s => a < b)
  <2>1. n * r \in Nat /\ n * s \in Nat /\ n * r <= n * s
    BY TimesGrows
  <2>2. ASSUME r < s PROVE n * r < n * s
    <3>1. n * (r + 1) <= n * s /\ n * (r + 1) = n * r + n
      BY <2>2, TimesGrows
    <3> QED
      BY <2>1, <3>1
  <2> QED
    BY <2>1, <2>2
<1>3. PICK c \in Nat, d \in Nat : c = CeilDiv(a, Den) /\ d = CeilDiv(b, Den) /\ c <= d
  BY <1>1, <1>2, CeilDivBounds, CeilDivGrows
<1>4. CeilProduct(n, r) \in {c, c + 1} /\ CeilProduct(n, s) \in {d, d + 1}
  BY <1>2, <1>3, CeilProductBounds
<1>5. CASE <<n, r>> \notin Overshoot
  BY <1>2, <1>3, <1>4, <1>5, CeilProductBounds
<1>6. CASE r = s
  BY <1>4, <1>6
<1>7. CASE <<n, r>> \in Overshoot /\ r < s
  <2>1. a % Den = 0
    BY <1>2, <1>7, BumpAssumption
  <2>2. PICK q \in Nat : a = Den * q
    BY <1>1, <2>1
  <2>3. c <= q
    BY <1>1, <1>3, <2>2, CeilDivBounds
  <2>4. b <= Den * d
    BY <1>1, <1>3, CeilDivBounds
  <2>5. q < d
    <3>1. ASSUME d <= q PROVE FALSE
      <4>1. Den * d <= Den * q
        BY <1>1, <3>1, TimesGrows
      <4>2. Den * d \in Nat /\ a < b
        BY <1>1, <1>2, <1>7
      <4> QED
        BY <2>2, <2>4, <4>1, <4>2
    <3> QED
      BY <3>1
  <2> QED
    BY <1>4, <2>3, <2>5
<1> QED
  BY <1>5, <1>6, <1>7

\* The fee of a replacement: at least the relay floor, which is above the fee
\* of what it replaces, whatever size it comes out at.
LEMMA FeeAtBounds ==
    ASSUME NEW t \in Members, NEW r \in Nat, NEW x \in Nat
    PROVE  /\ FeeAt(t, r, x) \in Nat /\ Floor(t) \in Nat
           /\ FeeAt(t, r, x) >= Floor(t) /\ Floor(t) > t.fee
           /\ \A z \in Sizes : Relay * z \in Nat /\ Floor(t) >= t.fee + Relay * z
<1>1. /\ t.size \in Nat \ {0} /\ t.fee \in Nat /\ t.size <= Estimate
      /\ Estimate \in Nat /\ Relay \in Nat \ {0} /\ Den \in Nat \ {0}
  BY BumpAssumption DEF Members
<1>2. CeilProduct(t.size, r) \in Nat
  BY <1>1, CeilProductBounds
<1>3. Larger(t.size, Estimate) = Estimate
  BY <1>1 DEF Larger
<1>4. Relay * Estimate \in Nat /\ Floor(t) = t.fee + Relay * Estimate
  BY <1>1, <1>3 DEF Floor
<1>5. ASSUME NEW z \in Sizes PROVE Relay * z \in Nat /\ Relay * z <= Relay * Estimate
  <2>1. z \in Nat /\ z <= Estimate
    BY BumpAssumption
  <2> QED
    BY <1>1, <2>1, TimesGrows
<1>6. Relay * 1 <= Relay * Estimate
  BY <1>1, TimesGrows
<1>7. Floor(t) \in Nat /\ Floor(t) > t.fee
  BY <1>1, <1>4, <1>6
<1>8. FeeAt(t, r, x) \in Nat /\ FeeAt(t, r, x) >= Floor(t)
  BY <1>2, <1>7 DEF FeeAt, Larger
<1>9. \A z \in Sizes : Relay * z \in Nat /\ Floor(t) >= t.fee + Relay * z
  BY <1>1, <1>4, <1>5
<1> QED
  BY <1>7, <1>8, <1>9

\* A higher rate or surcharge never lowers the fee.
LEMMA FeeAtGrows ==
    ASSUME NEW t \in Members, NEW r \in Nat, NEW s \in Nat, r <= s,
           NEW x \in Nat, NEW y \in Nat, x <= y
    PROVE  FeeAt(t, r, x) <= FeeAt(t, s, y)
<1>1. t.size \in Nat \ {0}
  BY BumpAssumption DEF Members
<1>2. PICK a \in Nat, b \in Nat :
          a = CeilProduct(t.size, r) /\ b = CeilProduct(t.size, s) /\ a <= b
  BY <1>1, CeilProductBounds, CeilProductGrows
<1>3. PICK f \in Nat : f = Floor(t)
  BY FeeAtBounds
<1>4. FeeAt(t, r, x) = Larger(a + x, f) /\ FeeAt(t, s, y) = Larger(b + y, f)
  BY <1>2, <1>3 DEF FeeAt
<1> QED
  BY <1>2, <1>4 DEF Larger

\* What a replaceable transaction's change is.
LEMMA TheChange ==
    ASSUME shape \in Shapes, ~ Irreplaceable
    PROVE  \E c \in DOMAIN shape.val : Change = {c}
<1>1. shape.owned \subseteq DOMAIN shape.val /\ shape.internal \subseteq shape.owned
      /\ DOMAIN shape.val \subseteq Outputs
  BY BumpAssumption DEF ShapeOK
<1>2. Change \subseteq DOMAIN shape.val
  BY <1>1 DEF Change
<1>3. IsFiniteSet(Outputs)
  <2>1. IsFiniteSet({"change"})
    BY FS_Singleton
  <2>2. IsFiniteSet({"change"} \cup {"payee"})
    BY <2>1, FS_AddElement
  <2>3. IsFiniteSet(({"change"} \cup {"payee"}) \cup {"other"})
    BY <2>2, FS_AddElement
  <2>4. Outputs = ({"change"} \cup {"payee"}) \cup {"other"}
    BY DEF Outputs
  <2> QED
    BY <2>3, <2>4
<1>4. IsFiniteSet(Change)
  BY <1>1, <1>2, <1>3, FS_Subset
<1>5. Cardinality(Change) = 1
  BY DEF Irreplaceable
<1>6. PICK c : Change = {c}
  BY <1>4, <1>5, FS_Singleton
<1> QED
  BY <1>2, <1>6

\* What that change is worth, and what it means that it can pay.
LEMMA ChangePays ==
    ASSUME NEW t \in Members, NEW c \in DOMAIN shape.val, Change = {c},
           NEW r \in Nat, NEW x \in Nat
    PROVE  /\ ChangeOf(t) = t.val[c] /\ t.val[c] \in Nat /\ Dust \in Nat \ {0}
           /\ Affordable(t, r, x) <=>
                  t.val[c] - (FeeAt(t, r, x) - t.fee) >= Dust
<1>1. t.val[c] \in Nat /\ Dust \in Nat \ {0}
  BY BumpAssumption DEF Members
<1>2. (CHOOSE o \in Change : TRUE) = c
  OBVIOUS
<1> QED
  BY <1>1, <1>2 DEF ChangeOf, Affordable

\* A cheaper bump is as affordable.
LEMMA CheaperIsAffordable ==
    ASSUME NEW t \in Members, NEW c \in DOMAIN shape.val, Change = {c},
           NEW r \in Nat, NEW s \in Nat, r <= s,
           NEW x \in Nat, NEW y \in Nat, x <= y, Affordable(t, s, y)
    PROVE  Affordable(t, r, x)
<1>1. FeeAt(t, r, x) <= FeeAt(t, s, y)
  BY FeeAtGrows
<1>2. FeeAt(t, r, x) \in Nat /\ FeeAt(t, s, y) \in Nat /\ t.fee \in Nat
  BY FeeAtBounds DEF Members
<1>3. t.val[c] \in Nat /\ Dust \in Nat
  BY ChangePays
<1>4. t.val[c] - (FeeAt(t, s, y) - t.fee) >= Dust
  BY ChangePays
<1>5. t.val[c] - (FeeAt(t, r, x) - t.fee) >= Dust
  BY <1>1, <1>2, <1>3, <1>4
<1> QED
  BY <1>5, ChangePays

\* The rate a refusal suggests is one the change can pay, unless it overshoots.
LEMMA BestRatePays ==
    ASSUME NEW t \in Members, NEW c \in DOMAIN shape.val, Change = {c},
           NEW x \in Nat, NEW r \in BestRate(t, x)
    PROVE  /\ r \in Nat
           /\ <<t.size, r>> \notin Overshoot => Affordable(t, r, x)
<1>1. /\ t.size \in Nat \ {0} /\ Den \in Nat \ {0} /\ t.fee \in Nat
      /\ t.val[c] \in Nat /\ Dust \in Nat \ {0} /\ ChangeOf(t) = t.val[c]
  BY BumpAssumption, ChangePays DEF Members
<1>2. PICK k \in Int : k = Ceiling(t)
  BY <1>1 DEF Ceiling
<1>3. PICK f \in Nat : f = Floor(t)
  BY FeeAtBounds
<1>4. x <= k /\ f <= k /\ r = ((k - x) * Den) \div t.size
  BY <1>2, <1>3 DEF BestRate
<1>5. k - x \in Nat /\ (k - x) * Den \in Nat
  BY <1>1, <1>4
<1>6. PICK n \in Nat : n = (k - x) * Den
  BY <1>5
<1>7. r = n \div t.size /\ r \in Nat
  BY <1>1, <1>4, <1>6
<1>8. t.size * r <= n /\ t.size * r \in Nat
  BY <1>1, <1>7
<1>9. t.size * r <= Den * (k - x)
  BY <1>1, <1>5, <1>6, <1>8
<1>10. CeilDiv(t.size * r, Den) <= k - x /\ CeilDiv(t.size * r, Den) \in Nat
  BY <1>1, <1>5, <1>8, <1>9, CeilDivBounds
<1>11. ASSUME <<t.size, r>> \notin Overshoot PROVE Affordable(t, r, x)
  <2>1. CeilProduct(t.size, r) <= k - x /\ CeilProduct(t.size, r) \in Nat
    BY <1>1, <1>7, <1>10, <1>11, CeilProductBounds
  <2>2. FeeAt(t, r, x) <= k
    BY <1>3, <1>4, <2>1 DEF FeeAt, Larger
  <2>3. k = t.fee + t.val[c] - Dust
    BY <1>1, <1>2 DEF Ceiling
  <2>4. FeeAt(t, r, x) \in Nat
    BY <1>7, FeeAtBounds
  <2>5. t.val[c] - (FeeAt(t, r, x) - t.fee) >= Dust
    BY <1>1, <2>2, <2>3, <2>4
  <2> QED
    BY <1>7, <2>5, ChangePays
<1> QED
  BY <1>7, <1>11

\* A lower rate leaves the parent with no larger a deficit.
LEMMA DeficitGrows ==
    ASSUME parent \in [at : {"pool", "mined"}, fee : ParentFees],
           NEW r \in Nat, NEW s \in Nat, r <= s
    PROVE  Deficit(r) \in Nat /\ Deficit(s) \in Nat /\ Deficit(r) <= Deficit(s)
<1>1. ParentSize \in Nat \ {0} /\ parent.fee \in Nat
  BY BumpAssumption
<1>2. PICK a \in Nat, b \in Nat :
          a = CeilProduct(ParentSize, r) /\ b = CeilProduct(ParentSize, s) /\ a <= b
  BY <1>1, CeilProductBounds, CeilProductGrows
<1> QED
  BY <1>1, <1>2 DEF Deficit, Larger

\* The user has not run the command yet: nothing was read or planned.
LEMMA InitBumpInv == BumpInit => BumpInv
<1> SUFFICES ASSUME BumpInit PROVE BumpInv
  OBVIOUS
<1>1. /\ shape \in Shapes /\ pool = Original(shape) /\ mined = NoTx
      /\ parent \in [at : {"pool", "mined"}, fee : ParentFees]
      /\ child = FALSE /\ step = "idle" /\ tx = NoTx /\ asked = 0 /\ extra = 0
      /\ suggested = {} /\ followed = "own"
  BY DEF BumpInit
<1>2. Original(shape) \in Members
  BY <1>1, BumpAssumption DEF ShapeOK, Original, Members
<1>3. BumpTyped
  BY <1>1, <1>2 DEF BumpTyped, BumpSteps, Active, Planned
<1>4. PlanIsEnough /\ Surcharge /\ Suggesting
  BY <1>1 DEF PlanIsEnough, Surcharge, Suggesting, InformedRatePlans, Active, Planned,
     RefusedOnlyIfOvertaken
<1> QED
  BY <1>3, <1>4 DEF BumpInv

\* No member of the family is the absent transaction.
LEMMA MembersAreThere == NoTx \notin Members
<1>1. 0 \notin Sizes
  BY BumpAssumption
<1> QED
  BY <1>1 DEF NoTx, Members

\* What a suggestion plans depends on the transaction read and the parent.
LEMMA PlansStay ==
    ASSUME UNCHANGED <<shape, tx, parent>>
    PROVE  /\ \A r : Exact(r)' = Exact(r)
           /\ \A r : Plans(r)' = Plans(r)
           /\ \A r : Settled(r)' = Settled(r)
           /\ \A r : Deficit(r)' = Deficit(r)
           /\ Floor(tx)' = Floor(tx) /\ Members' = Members
<1>1. /\ \A r : Affordable(tx, r, 0)' = Affordable(tx, r, 0)
      /\ \A r : Affordable(tx, r, Deficit(r))' = Affordable(tx, r, Deficit(r))
  BY DEF Affordable, ChangeOf, Change, FeeAt, Floor, CeilProduct, CeilDiv, Larger, Deficit
<1>2. \A r : Exact(r)' = Exact(r)
  BY DEF Exact
<1>3. ASSUME NEW r PROVE Plans(r)' = Plans(r) /\ Settled(r)' = Settled(r)
  BY <1>1, <1>2 DEF Plans, Settled
<1>4. /\ \A r : Deficit(r)' = Deficit(r)
      /\ Floor(tx)' = Floor(tx) /\ Members' = Members
  BY DEF Deficit, Floor, CeilProduct, CeilDiv, Larger, Members
<1> QED
  BY <1>2, <1>3, <1>4

\* And while they stay, what is known of the rate of this run and of the rate
\* suggested stays known.
LEMMA SuggestingStays ==
    ASSUME Suggesting, UNCHANGED <<shape, tx, parent, asked>>
    PROVE  /\ Plans(asked)' = Plans(asked) /\ Settled(asked)' = Settled(asked)
           /\ Deficit(asked)' = Deficit(asked)
           /\ UNCHANGED <<suggested, extra>> =>
                  (\A r \in suggested : Plans(r) /\ (extra > 0 => Settled(r)))'
<1>1. PICK a : a = asked /\ a = asked'
  OBVIOUS
<1>2. Plans(asked)' = Plans(a)' /\ Settled(asked)' = Settled(a)'
      /\ Deficit(asked)' = Deficit(a)'
  BY <1>1
<1>3. /\ Plans(a)' = Plans(a) /\ Settled(a)' = Settled(a) /\ Deficit(a)' = Deficit(a)
      /\ \A r : Plans(r)' = Plans(r) /\ Settled(r)' = Settled(r)
  BY PlansStay
<1> QED
  BY <1>1, <1>2, <1>3 DEF Suggesting

\* A run begins: what the user asks for is a rate of theirs or the suggestion.
LEMMA FetchKeeps ==
    ASSUME BumpInv, NEW r \in Rates \cup suggested, Fetch(r)
    PROVE  BumpInv'
<1>1. /\ step \in {"idle", "refused", "short", "rejected", "posted"}
      /\ asked' = r /\ overtaken' = FALSE /\ extra' = 0 /\ suggested' = {}
      /\ followed' = (IF r \notin suggested THEN "own"
                      ELSE IF extra > 0 THEN "informed" ELSE "blind")
      /\ IF r = 0 \/ pool = NoTx THEN step' = "refused" /\ tx' = NoTx
                                 ELSE step' = "fetched" /\ tx' = pool
      /\ UNCHANGED <<shape, pool, mined, parent, child>>
  BY DEF Fetch, ledger
<1>2. BumpTyped /\ PlanIsEnough /\ Surcharge /\ Suggesting
  BY DEF BumpInv
<1>3. r \in Nat /\ extra \in Nat
  BY <1>2, BumpAssumption DEF BumpTyped
<1>4. Members' = Members
  BY <1>1 DEF Members
<1>5. BumpTyped'
  BY <1>1, <1>2, <1>3, <1>4 DEF BumpTyped, BumpSteps, Active, Planned
<1>6. PlanIsEnough' /\ Surcharge'
  BY <1>1, <1>2 DEF PlanIsEnough, Surcharge, Active, Planned, RefusedOnlyIfOvertaken
<1>7. ASSUME step' = "fetched", followed' # "own"
      PROVE  Plans(r)' /\ (followed' = "informed" => Settled(r)')
  <2>1. r \in suggested /\ (followed' = "informed" => extra > 0)
    BY <1>1, <1>7
  <2>2. pool \in {tx, NoTx} /\ Plans(r) /\ (extra > 0 => Settled(r))
    BY <1>2, <2>1 DEF Suggesting
  <2>3. tx' = tx
    BY <1>1, <1>7, <2>2
  <2> QED
    BY <1>1, <2>1, <2>2, <2>3, PlansStay
<1>8. Plans(asked)' = Plans(r)' /\ Settled(asked)' = Settled(r)'
  BY <1>1
<1>9. Suggesting'
  <2>1. step' \in {"fetched", "refused"} /\ suggested' = {}
    BY <1>1
  <2>2. step' \in Active => step' = "fetched"
    BY <2>1 DEF Active
  <2> QED
    BY <1>7, <1>8, <2>1, <2>2 DEF Suggesting, InformedRatePlans
<1> QED
  BY <1>5, <1>6, <1>9 DEF BumpInv

\* A plan: refused for good, refused for want of change, or made.
LEMMA PlanKeeps ==
    ASSUME BumpInv, NEW from, NEW to, Plan(from, to),
           (from = "fetched" /\ to = "planned") \/ (from = "priced" /\ to = "prompt")
    PROVE  BumpInv'
<1>1. /\ step = from /\ from \in Active /\ to \in Planned
      /\ UNCHANGED <<shape, pool, mined, parent, child, tx, asked, extra, followed,
                     overtaken>>
  BY DEF Plan, ledger, Active, Planned
<1>2. BumpTyped /\ PlanIsEnough /\ Surcharge /\ Suggesting
  BY DEF BumpInv
<1>3. Members' = Members
  BY <1>1 DEF Members
<1>4. tx \in Members /\ suggested = {} /\ asked \in Nat /\ extra \in Nat
      /\ shape \in Shapes
  BY <1>1, <1>2 DEF BumpTyped, Suggesting, Active
<1>5. /\ \A r : Plans(r)' = Plans(r)
      /\ \A r : Settled(r)' = Settled(r)
      /\ Plans(asked)' = Plans(asked) /\ Settled(asked)' = Settled(asked)
      /\ Deficit(asked)' = Deficit(asked)
  BY <1>1, <1>2, PlansStay, SuggestingStays
<1>6. Floor(tx)' = Floor(tx)
  BY <1>1 DEF Floor, Larger
<1>7. CASE Irreplaceable /\ step' = "refused" /\ UNCHANGED <<plan, suggested>>
  <2>1. BumpTyped'
    BY <1>1, <1>2, <1>3, <1>7 DEF BumpTyped, BumpSteps, Active, Planned
  <2>2. PlanIsEnough'
    BY <1>1, <1>2, <1>7 DEF PlanIsEnough, Active, Planned, RefusedOnlyIfOvertaken
  <2>3. Surcharge' /\ Suggesting'
    BY <1>4, <1>7 DEF Surcharge, Suggesting, InformedRatePlans, Active
  <2> QED
    BY <2>1, <2>2, <2>3 DEF BumpInv
<1>8. CASE /\ ~ Irreplaceable /\ ~ Affordable(tx, asked, extra)
           /\ step' = "short" /\ suggested' = BestRate(tx, extra) /\ UNCHANGED plan
  <2>1. PICK c \in DOMAIN shape.val : Change = {c}
    BY <1>4, <1>8, TheChange
  <2>2. \A r \in BestRate(tx, extra) : r \in Nat /\ (Exact(r) => Affordable(tx, r, extra))
    BY <1>4, <2>1, BestRatePays DEF Exact
  <2>3. BumpTyped'
    BY <1>1, <1>2, <1>3, <1>8, <2>2 DEF BumpTyped, BumpSteps, Active, Planned
  <2>4. PlanIsEnough' /\ Surcharge'
    BY <1>1, <1>2, <1>8 DEF PlanIsEnough, Surcharge, Active, Planned,
       RefusedOnlyIfOvertaken
  <2>5. extra > 0 => extra = Deficit(asked)
    BY <1>1, <1>2 DEF Surcharge
  <2>6. ASSUME NEW r \in BestRate(tx, extra) PROVE Plans(r)
    BY <1>4, <2>1, <2>2, CheaperIsAffordable DEF Plans
  <2>7. ASSUME NEW r \in BestRate(tx, extra), extra > 0 PROVE Settled(r)
    <3>1. SUFFICES ASSUME Exact(r) PROVE Affordable(tx, r, Deficit(r))
      BY DEF Settled
    <3>2. r \in Nat /\ Affordable(tx, r, extra)
      BY <2>2, <3>1
    <3>3. r <= asked
      <4>1. ASSUME asked <= r PROVE FALSE
        <5>1. Affordable(tx, asked, extra)
          BY <1>4, <2>1, <3>2, <4>1, CheaperIsAffordable
        <5> QED
          BY <1>8, <5>1
      <4> QED
        BY <1>4, <3>2, <4>1
    <3>4. parent \in [at : {"pool", "mined"}, fee : ParentFees]
      BY <1>2 DEF BumpTyped
    <3>5. Deficit(r) \in Nat /\ Deficit(r) <= extra
      BY <1>4, <2>5, <2>7, <3>2, <3>3, <3>4, DeficitGrows
    <3> QED
      BY <1>4, <2>1, <3>2, <3>5, CheaperIsAffordable
  <2>8. ASSUME followed # "own", Exact(asked) PROVE followed = "blind" /\ extra > 0
    <3>1. Plans(asked) /\ (followed = "informed" => Settled(asked))
      BY <1>1, <1>2, <2>8 DEF Suggesting
    <3>2. extra # 0
      BY <1>8, <2>8, <3>1 DEF Plans
    <3>3. ~ Settled(asked)
      BY <1>4, <1>8, <2>5, <2>8, <3>2 DEF Settled
    <3> QED
      BY <1>2, <1>4, <2>8, <3>1, <3>2, <3>3 DEF BumpTyped
  <2>9. InformedRatePlans'
    <3>1. followed # "own" =>
              <<tx.size, asked>> \in Overshoot \/ (followed = "blind" /\ extra > 0)
      BY <2>8 DEF Exact
    <3> QED
      BY <1>1, <3>1 DEF InformedRatePlans
  <2>10. pool \in {tx, NoTx}
    BY <1>1, <1>2 DEF PlanIsEnough
  <2>11. \A r \in suggested' : Plans(r)' /\ (extra' > 0 => Settled(r)')
    BY <1>1, <1>5, <1>8, <2>6, <2>7
  <2>12. Suggesting'
    BY <1>1, <1>3, <1>4, <1>8, <2>9, <2>10, <2>11 DEF Suggesting, Active
  <2> QED
    BY <2>3, <2>4, <2>12 DEF BumpInv
<1>9. CASE /\ ~ Irreplaceable /\ Affordable(tx, asked, extra)
           /\ step' = to /\ plan' = Rebuilt(tx, asked, extra) /\ UNCHANGED suggested
  <2>1. PICK c \in DOMAIN shape.val : Change = {c}
    BY <1>4, <1>9, TheChange
  <2>2. PICK f \in Nat : f = FeeAt(tx, asked, extra)
    BY <1>4, FeeAtBounds
  <2>3. f >= Floor(tx) /\ Floor(tx) > tx.fee /\ Floor(tx) \in Nat
    BY <1>4, <2>2, FeeAtBounds
  <2>4. tx.val[c] - (f - tx.fee) >= Dust /\ Dust \in Nat /\ tx.val[c] \in Nat
    BY <1>4, <1>9, <2>1, <2>2, ChangePays
  <2>5. PICK v : v = [o \in DOMAIN tx.val |->
                         IF o \in Change THEN tx.val[o] - (f - tx.fee) ELSE tx.val[o]]
    OBVIOUS
  <2>6. DOMAIN tx.val = DOMAIN shape.val /\ tx.val \in [DOMAIN shape.val -> Nat]
        /\ tx.fee \in Nat
    BY <1>4 DEF Members
  <2>7. v \in [DOMAIN shape.val -> Nat]
    <3>1. tx.val[c] - (f - tx.fee) \in Nat
      BY <2>4, <2>6
    <3> QED
      BY <2>1, <2>5, <2>6, <3>1
  <2>8. plan' = [tx EXCEPT !.fee = f, !.val = v]
    BY <1>9, <2>2, <2>5 DEF Rebuilt
  <2>9. plan' \in Members /\ plan'.fee = f
    BY <1>4, <2>7, <2>8 DEF Members
  <2>10. BumpTyped'
    BY <1>1, <1>2, <1>3, <1>4, <1>9, <2>9 DEF BumpTyped, BumpSteps, Active, Planned
  <2>11. PlanIsEnough'
    BY <1>1, <1>2, <1>6, <1>9, <2>3, <2>9
       DEF PlanIsEnough, Active, Planned, RefusedOnlyIfOvertaken
  <2>12. Surcharge'
    BY <1>1, <1>2, <1>9 DEF Surcharge
  <2>13. Suggesting'
    BY <1>1, <1>2, <1>4, <1>5, <1>9 DEF Suggesting, InformedRatePlans, Planned
  <2> QED
    BY <2>10, <2>11, <2>12, <2>13 DEF BumpInv
<1> QED
  BY <1>7, <1>8, <1>9 DEF Plan

\* The parent is priced.
LEMMA PriceKeeps == ASSUME BumpInv, Price PROVE BumpInv'
<1>1. /\ step = "planned" /\ step' \in {"prompt", "priced", "refused"}
      /\ UNCHANGED <<shape, pool, mined, parent, child, tx, asked, plan, suggested,
                     followed, overtaken>>
      /\ \/ /\ extra' = IF parent.at = "mined" THEN 0 ELSE Deficit(asked)
            /\ step' = IF extra' = 0 THEN "prompt" ELSE "priced"
         \/ extra' = 0 /\ step' = "refused"
  BY DEF Price, ledger
<1>2. BumpTyped /\ PlanIsEnough /\ Surcharge /\ Suggesting
  BY DEF BumpInv
<1>3. /\ Plans(asked)' = Plans(asked) /\ Settled(asked)' = Settled(asked)
      /\ Deficit(asked)' = Deficit(asked) /\ Floor(tx)' = Floor(tx)
      /\ Members' = Members
  BY <1>1, <1>2, PlansStay, SuggestingStays
<1>4. Deficit(asked) \in Nat /\ suggested = {}
  BY <1>1, <1>2, DeficitGrows DEF BumpTyped, Suggesting
<1>5. extra' \in Nat
  BY <1>1, <1>4
<1>6. BumpTyped'
  BY <1>1, <1>2, <1>3, <1>5 DEF BumpTyped, BumpSteps, Active, Planned
<1>7. PlanIsEnough'
  BY <1>1, <1>2, <1>3 DEF PlanIsEnough, Active, Planned, RefusedOnlyIfOvertaken
<1>8. Surcharge'
  BY <1>1, <1>3, <1>5 DEF Surcharge
<1>9. Suggesting'
  BY <1>1, <1>2, <1>3, <1>4 DEF Suggesting, InformedRatePlans, Active
<1> QED
  BY <1>6, <1>7, <1>8, <1>9 DEF BumpInv

\* The gate or the user says no.
LEMMA StopKeeps == ASSUME BumpInv, Stop PROVE BumpInv'
<1>1. /\ step = "prompt" /\ step' = "refused"
      /\ UNCHANGED <<shape, pool, mined, parent, child, tx, asked, extra, plan,
                     suggested, followed, overtaken>>
  BY DEF Stop, ledger
<1>2. Members' = Members
  BY <1>1, PlansStay
<1>3. suggested = {}
  BY <1>1 DEF BumpInv, Suggesting
<1> QED
  BY <1>1, <1>2, <1>3 DEF BumpInv, BumpTyped, PlanIsEnough, Surcharge, Suggesting,
     InformedRatePlans, BumpSteps, Active, Planned, RefusedOnlyIfOvertaken

\* The replacement is sent: the node refuses it only if something overtook it.
LEMMA PostKeeps == ASSUME BumpInv, Post PROVE BumpInv'
<1>1. PICK z \in Sizes :
        /\ plan' = [plan EXCEPT !.size = z]
        /\ IF Admitted(plan')
           THEN pool' = plan' /\ child' = FALSE /\ step' = "posted"
           ELSE step' = "rejected" /\ UNCHANGED <<pool, child>>
  BY DEF Post
<1>2. /\ step = "prompt"
      /\ UNCHANGED <<shape, mined, parent, tx, asked, extra, suggested, followed,
                     overtaken>>
  BY DEF Post
<1>3. BumpTyped /\ PlanIsEnough /\ Surcharge /\ Suggesting
  BY DEF BumpInv
<1>4. Members' = Members
  BY <1>2, PlansStay
<1>5. plan \in Members /\ tx \in Members /\ suggested = {} /\ plan.fee >= Floor(tx)
  BY <1>2, <1>3 DEF BumpTyped, PlanIsEnough, Suggesting, Active, Planned
<1>6. plan' \in Members /\ plan'.fee = plan.fee /\ plan'.size = z
  BY <1>1, <1>5 DEF Members
<1>7. BumpTyped'
  BY <1>1, <1>2, <1>3, <1>4, <1>6 DEF BumpTyped, BumpSteps, Active, Planned
<1>8. Surcharge' /\ Suggesting'
  BY <1>1, <1>2, <1>5 DEF Surcharge, Suggesting, InformedRatePlans, Active
<1>9. step' = "rejected" => overtaken' \/ child'
  <2>1. ASSUME step' = "rejected", ~ overtaken, ~ child PROVE FALSE
    <3>1. ~ Admitted(plan')
      BY <1>1, <2>1
    <3>2. pool = tx /\ pool # NoTx /\ mined = NoTx
      BY <1>2, <1>3, <1>5, <2>1, MembersAreThere DEF PlanIsEnough, Active
    <3>3. Evicted = tx.fee + 0
      BY <2>1, <3>2 DEF Evicted
    <3>4. Relay * z \in Nat /\ Floor(tx) >= tx.fee + Relay * z /\ Floor(tx) \in Nat
      BY <1>5, FeeAtBounds
    <3>5. tx.fee \in Nat /\ plan.fee \in Nat
      BY <1>5 DEF Members
    <3>6. plan'.fee >= Evicted + Relay * plan'.size
      BY <1>5, <1>6, <3>3, <3>4, <3>5
    <3> QED
      BY <3>1, <3>2, <3>6 DEF Admitted
  <2>2. step' = "rejected" => UNCHANGED child
    BY <1>1
  <2> QED
    BY <1>2, <2>1, <2>2
<1>10. pool' # NoTx => mined' = NoTx
  BY <1>1, <1>2, <1>3 DEF Admitted, PlanIsEnough
<1>11. PlanIsEnough'
  BY <1>1, <1>9, <1>10 DEF PlanIsEnough, Active, Planned, RefusedOnlyIfOvertaken
<1> QED
  BY <1>7, <1>8, <1>11 DEF BumpInv

\* The mempool moves: what was read is out of date, and no suggestion stands.
LEMMA MovesKeep == ASSUME BumpInv, Moves PROVE BumpInv'
<1>1. /\ overtaken' = TRUE /\ followed' = "own" /\ suggested' = {}
      /\ UNCHANGED <<shape, step, tx, asked, extra, plan>>
      /\ parent' \in {parent, [parent EXCEPT !.at = "mined"]}
      /\ \/ pool' = pool /\ mined' = mined
         \/ pool' = NoTx /\ mined' \in {pool, mined}
  BY DEF Moves, MineParent, MineIt, DropIt, SpendChange
<1>2. BumpTyped /\ PlanIsEnough /\ Surcharge /\ Suggesting
  BY DEF BumpInv
<1>3. Members' = Members /\ Floor(tx)' = Floor(tx)
  BY <1>1 DEF Members, Floor, Larger
<1>4. parent' \in [at : {"pool", "mined"}, fee : ParentFees]
  BY <1>1, <1>2 DEF BumpTyped
<1>5. BumpTyped'
  BY <1>1, <1>2, <1>3, <1>4 DEF BumpTyped
<1>6. PlanIsEnough'
  BY <1>1, <1>2, <1>3 DEF PlanIsEnough, RefusedOnlyIfOvertaken
<1>7. Deficit(asked)' = Deficit(asked)
  <2>1. parent'.fee = parent.fee
    BY <1>1, <1>2 DEF BumpTyped
  <2> QED
    BY <1>1, <2>1 DEF Deficit, CeilProduct, CeilDiv, Larger
<1>8. Surcharge' /\ Suggesting'
  BY <1>1, <1>2, <1>7 DEF Surcharge, Suggesting, InformedRatePlans
<1> QED
  BY <1>5, <1>6, <1>8 DEF BumpInv

\* A spend leaves the bump alone.
LEMMA BumpStays == ASSUME BumpInv, UNCHANGED bumpVars PROVE BumpInv'
<1>1. UNCHANGED <<shape, pool, mined, parent, child, step, tx, asked, extra, plan,
                  suggested, followed, overtaken>>
  BY DEF bumpVars
<1>2. BumpTyped /\ PlanIsEnough /\ Surcharge /\ Suggesting
  BY DEF BumpInv
<1>3. /\ Plans(asked)' = Plans(asked) /\ Settled(asked)' = Settled(asked)
      /\ Deficit(asked)' = Deficit(asked) /\ Floor(tx)' = Floor(tx)
      /\ Members' = Members
      /\ (\A r \in suggested : Plans(r) /\ (extra > 0 => Settled(r)))'
  BY <1>1, <1>2, PlansStay, SuggestingStays
<1>4. BumpTyped' /\ PlanIsEnough' /\ Surcharge'
  BY <1>1, <1>2, <1>3 DEF BumpTyped, PlanIsEnough, Surcharge, RefusedOnlyIfOvertaken
<1>5. InformedRatePlans'
  BY <1>1, <1>2 DEF Suggesting, InformedRatePlans
<1>6. Suggesting'
  BY <1>1, <1>2, <1>3, <1>5 DEF Suggesting
<1> QED
  BY <1>4, <1>6 DEF BumpInv

\* Every step of a bump keeps what is known of its plan, and every step of a spend
\* leaves the bump alone.
LEMMA NextBumpInv == BumpInv /\ [Next]_vars => BumpInv'
<1> SUFFICES ASSUME BumpInv, [Next]_vars PROVE BumpInv'
  OBVIOUS
<1>1. BumpNext \/ UNCHANGED bumpVars
  BY DEF Next, vars, Spend, Replace
<1>2. CASE BumpNext
  <2>1. ASSUME NEW r \in Rates \cup suggested, Fetch(r) PROVE BumpInv'
    BY <2>1, FetchKeeps
  <2>2. CASE PlanFirst \/ PlanAgain
    BY <2>2, PlanKeeps DEF PlanFirst, PlanAgain
  <2> QED
    BY <1>2, <2>1, <2>2, PriceKeeps, StopKeeps, PostKeeps, MovesKeep DEF BumpNext, BumpStep
<1> QED
  BY <1>1, <1>2, BumpStays

\* A run of the program keeps the bump's invariant, whichever command it is.
LEMMA AlwaysBumpInv == Spec => []BumpInv
<1>1. Init => BumpInv
  BY InitBumpInv DEF Init
<1> QED
  BY <1>1, NextBumpInv, PTL DEF Spec

\* A node refuses a replacement only if something overtook it or its change
\* is spent: replacement_fee is enough for every size the signatures give it.
THEOREM RefusedOnlyWhenOvertaken == Spec => []RefusedOnlyIfOvertaken
<1>1. BumpInv => RefusedOnlyIfOvertaken
  BY DEF BumpInv, PlanIsEnough
<1> QED
  BY <1>1, AlwaysBumpInv, PTL

\* A rate suggested once the parent was priced (_too_little_change allows for the
\* surcharge) is never refused for want of change while nothing moves, whatever
\* the transaction and its parent, unless its float product overshoots; and a
\* rate suggested before is so only for the surcharge.
THEOREM InformedRateAlwaysPlans == Spec => []InformedRatePlans
<1>1. BumpInv => InformedRatePlans
  BY DEF BumpInv, Suggesting
<1> QED
  BY <1>1, AlwaysBumpInv, PTL

-----------------------------------------------------------------------------
\* A transaction this wallet built without change has one output besides its
\* memo (UtxoTxBuilder pays one payee): there is nothing a bump could take from.
WalletBuilt == \A s \in Shapes :
                   "change" \notin DOMAIN s.val => Cardinality(DOMAIN s.val) <= 1

\* What such a transaction's bump takes from is its change, never a payment to
\* the wallet's own address.
LEMMA TheChangeIsChange ==
    ASSUME WalletBuilt, shape \in Shapes, tx \in Members, ~ Irreplaceable
    PROVE  "change" \in DOMAIN shape.val /\ Change = {"change"}
<1>1. PICK c \in DOMAIN shape.val : Change = {c}
  BY TheChange
<1>2. PICK D : D = DOMAIN shape.val
  OBVIOUS
<1>3. DOMAIN tx.val = D /\ c \in D
  BY <1>1, <1>2 DEF Members
<1>4. shape.internal \subseteq shape.owned
      /\ ("change" \in D => "change" \in shape.internal)
      /\ shape.owned \subseteq D
  BY <1>2, BumpAssumption DEF ShapeOK
<1>5. CASE "change" \in D
  <2>1. "change" \in Change
    BY <1>4, <1>5 DEF Change
  <2> QED
    BY <1>1, <1>2, <1>5, <2>1
<1>6. CASE "change" \notin D
  <2>1. Cardinality(D) <= 1
    BY <1>2, <1>6 DEF WalletBuilt
  <2>2. Cardinality(D \ {c}) = 1
    BY <1>1, <1>3 DEF Irreplaceable
  <2>3. IsFiniteSet(D)
    <3>1. D \subseteq {"payee", "other"}
      BY <1>2, <1>6, BumpAssumption DEF ShapeOK, Outputs
    <3>2. IsFiniteSet({"payee"} \cup {"other"})
      BY FS_Singleton, FS_AddElement
    <3>3. {"payee", "other"} = {"payee"} \cup {"other"}
      OBVIOUS
    <3> QED
      BY <3>1, <3>2, <3>3, FS_Subset
  <2>4. Cardinality(D \ {c}) = Cardinality(D) - 1 /\ Cardinality(D) \in Nat
    BY <1>3, <2>3, FS_RemoveElement, FS_CardinalityType
  <2> QED
    BY <2>1, <2>2, <2>4
<1> QED
  BY <1>5, <1>6

\* The higher fee leaves the change, to the last satoshi.
LEMMA RebuiltReplaces ==
    ASSUME WalletBuilt, shape \in Shapes, tx \in Members,
           asked \in Nat, extra \in Nat,
           tx = Original(shape) \/ Replaces(tx),
           ~ Irreplaceable, Affordable(tx, asked, extra)
    PROVE  Replaces(Rebuilt(tx, asked, extra))
<1>1. "change" \in DOMAIN shape.val /\ Change = {"change"}
  BY TheChangeIsChange
<1>2. PICK D : D = DOMAIN shape.val
  OBVIOUS
<1>3. PICK f \in Nat : f = FeeAt(tx, asked, extra)
  BY FeeAtBounds
<1>4. f > tx.fee
  BY <1>3, FeeAtBounds DEF Members
<1>5. PICK w : w = tx.val
  OBVIOUS
<1>6. w \in [D -> Nat] /\ tx.fee \in Nat
  BY <1>2, <1>5 DEF Members
<1>7. PICK cut \in Int : cut = w["change"] - (f - tx.fee)
  BY <1>1, <1>2, <1>6
<1>8. PICK v : v = [o \in D |-> IF o = "change" THEN cut ELSE w[o]]
  OBVIOUS
<1>9. PICK t : t = Rebuilt(tx, asked, extra)
  OBVIOUS
<1>10. t.fee = f /\ t.val = v
  <2>1. v = [o \in DOMAIN tx.val |-> IF o \in Change THEN tx.val[o] - (f - tx.fee)
                                     ELSE tx.val[o]]
    BY <1>1, <1>5, <1>6, <1>7, <1>8
  <2>2. t = [tx EXCEPT !.fee = f, !.val = v]
    BY <1>3, <1>9, <2>1 DEF Rebuilt
  <2> QED
    BY <2>2 DEF Members
<1>11. t.val["change"] = cut /\ cut >= Dust
  <2>1. cut >= Dust
    BY <1>1, <1>3, <1>5, <1>7, ChangePays
  <2> QED
    BY <1>1, <1>2, <1>8, <1>10, <2>1
<1>12. ASSUME NEW o \in D \ {"change"} PROVE t.val[o] = shape.val[o]
  <2>1. t.val[o] = w[o]
    BY <1>8, <1>10
  <2>2. w[o] = shape.val[o]
    BY <1>2, <1>5 DEF Replaces, Original
  <2> QED
    BY <2>1, <2>2
<1>13. tx.fee >= shape.fee /\ shape.fee \in Nat /\ Paid(tx) = Paid(Original(shape))
  <2>1. shape.fee \in Nat
    BY BumpAssumption DEF ShapeOK
  <2>2. CASE tx = Original(shape)
    BY <2>1, <2>2 DEF Original
  <2>3. CASE Replaces(tx)
    BY <1>6, <2>1, <2>3 DEF Replaces
  <2> QED
    BY <2>1, <2>2, <2>3
<1>14. Paid(t) = Paid(tx)
  <2>1. IsFiniteSet(D)
    <3>1. D \subseteq Outputs
      BY <1>2, BumpAssumption DEF ShapeOK
    <3>2. Outputs = ({"change"} \cup {"payee"}) \cup {"other"}
      BY DEF Outputs
    <3>3. IsFiniteSet({"change"} \cup {"payee"})
      BY FS_Singleton, FS_AddElement
    <3>4. IsFiniteSet(Outputs)
      BY <3>2, <3>3, FS_AddElement
    <3> QED
      BY <3>1, <3>4, FS_Subset
  <2>2. PICK R : R = D \ {"change"}
    OBVIOUS
  <2>3. IsFiniteSet(R) /\ \A o \in R : v[o] = w[o] /\ w[o] \in Int
    BY <1>6, <1>8, <2>1, <2>2, FS_Subset
  <2>4. Total(v, R) = Total(w, R) /\ Total(w, R) \in Int
    BY <2>3, TotalOfSame, TotalIsInt
  <2>5. (\A o \in D : v[o] \in Int) /\ (\A o \in D : w[o] \in Int)
    BY <1>6, <1>8
  <2>6. "change" \in D
    BY <1>1, <1>2
  <2>7. /\ Total(v, D) = v["change"] + Total(v, R)
        /\ Total(w, D) = w["change"] + Total(w, R)
    BY <2>1, <2>2, <2>5, <2>6, TotalTakeOut
  <2>8. SumFunction(v) = Total(v, D) /\ SumFunction(w) = Total(w, D)
    <3>1. DOMAIN v = D /\ DOMAIN w = D
      BY <1>6, <1>8
    <3> QED
      BY <3>1, SumFunctionIsTotal
  <2>9. v["change"] = w["change"] - (f - tx.fee) /\ w["change"] \in Nat
    BY <1>6, <1>7, <1>8, <2>6
  <2>10. f + Total(v, D) = tx.fee + Total(w, D)
    BY <1>6, <2>4, <2>7, <2>9
  <2> QED
    BY <1>5, <1>10, <2>8, <2>10 DEF Paid
<1>15. t.fee > shape.fee
  BY <1>4, <1>6, <1>10, <1>13
<1> QED
  BY <1>1, <1>2, <1>9, <1>11, <1>12, <1>13, <1>14, <1>15 DEF Replaces

\* Every step keeps the family one.
LEMMA NextFamilyInv ==
    ASSUME WalletBuilt
    PROVE  BumpInv /\ FamilyInv /\ [Next]_vars => FamilyInv'
<1> SUFFICES ASSUME BumpInv, FamilyInv, [Next]_vars PROVE FamilyInv'
  OBVIOUS
<1>1. BumpTyped
  BY DEF BumpInv
<1>2. ASSUME UNCHANGED <<shape, pool, mined, tx>>, step' \in Planned => Replaces(plan')
      PROVE  FamilyInv'
  BY <1>2 DEF FamilyInv, Replaces, Paid, Original
<1>3. BumpNext \/ UNCHANGED bumpVars
  BY DEF Next, vars, Spend, Replace
<1>4. ASSUME NEW r \in Rates \cup suggested, Fetch(r) PROVE FamilyInv'
  <2>1. UNCHANGED <<shape, pool, mined>> /\ tx' \in {pool, NoTx}
        /\ step' \in {"refused", "fetched"}
    BY <1>4 DEF Fetch, ledger
  <2> QED
    BY <2>1 DEF FamilyInv, Replaces, Paid, Original, Planned
<1>5. ASSUME NEW from \in Active, NEW to, Plan(from, to) PROVE FamilyInv'
  <2>1. UNCHANGED <<shape, pool, mined, tx>> /\ step = from
    BY <1>5 DEF Plan, ledger
  <2>2. CASE step' \in {"refused", "short"}
    BY <1>2, <2>1, <2>2 DEF Planned
  <2>3. CASE ~ Irreplaceable /\ Affordable(tx, asked, extra)
             /\ plan' = Rebuilt(tx, asked, extra)
    <3>1. tx \in Members /\ shape \in Shapes /\ asked \in Nat /\ extra \in Nat
      BY <1>1, <1>5, <2>1 DEF BumpTyped
    <3>2. tx = Original(shape) \/ Replaces(tx)
      BY <3>1, MembersAreThere DEF FamilyInv
    <3>3. Replaces(plan')
      BY <2>3, <3>1, <3>2, RebuiltReplaces
    <3> QED
      BY <1>2, <2>1, <3>3
  <2> QED
    BY <1>5, <2>2, <2>3 DEF Plan
<1>6. CASE Price
  <2>1. UNCHANGED <<shape, pool, mined, tx, plan>> /\ step = "planned"
    BY <1>6 DEF Price, ledger
  <2> QED
    BY <1>2, <2>1 DEF FamilyInv, Planned
<1>7. CASE Stop
  <2>1. UNCHANGED <<shape, pool, mined, tx, plan>> /\ step' = "refused"
    BY <1>7 DEF Stop, ledger
  <2> QED
    BY <1>2, <2>1 DEF Planned
<1>8. CASE Post
  <2>1. PICK z \in Sizes :
          /\ plan' = [plan EXCEPT !.size = z]
          /\ pool' \in {plan', pool}
    BY <1>8 DEF Post
  <2>2. UNCHANGED <<shape, mined, tx>> /\ step' \in {"posted", "rejected"}
        /\ step = "prompt"
    BY <1>8 DEF Post
  <2>3. Replaces(plan) /\ plan \in Members
    BY <1>1, <2>2 DEF FamilyInv, Planned, BumpTyped
  <2>4. plan'.fee = plan.fee /\ plan'.val = plan.val
    BY <2>1, <2>3 DEF Members
  <2>5. Replaces(plan')
    BY <2>3, <2>4 DEF Replaces, Paid
  <2>6. PICK p : p = plan'
    OBVIOUS
  <2>7. Replaces(p)' /\ Original(shape)' = Original(shape)
        /\ \A t : Replaces(t) => Replaces(t)'
    BY <2>2, <2>5, <2>6 DEF Replaces, Paid, Original
  <2>8. ASSUME NEW t \in {pool', mined', tx'} \ {NoTx}
        PROVE  t = Original(shape) \/ Replaces(t)'
    <3>1. t = p \/ t \in {pool, mined, tx} \ {NoTx}
      BY <2>1, <2>2, <2>6
    <3> QED
      BY <2>7, <3>1 DEF FamilyInv
  <2> QED
    BY <2>2, <2>7, <2>8 DEF FamilyInv, Planned
<1>9. CASE Moves
  <2>1. UNCHANGED <<shape, step, tx, plan>> /\ pool' \in {pool, NoTx}
        /\ mined' \in {pool, mined}
    BY <1>9 DEF Moves, MineParent, MineIt, DropIt, SpendChange
  <2> QED
    BY <2>1 DEF FamilyInv, Replaces, Paid, Original
<1>10. CASE UNCHANGED bumpVars
  <2>1. UNCHANGED <<shape, pool, mined, tx, plan, step>>
    BY <1>10 DEF bumpVars
  <2> QED
    BY <1>2, <2>1 DEF FamilyInv
<1>11. "fetched" \in Active /\ "priced" \in Active
  BY DEF Active
<1> QED
  BY <1>3, <1>4, <1>5, <1>6, <1>7, <1>8, <1>9, <1>10, <1>11
     DEF BumpNext, BumpStep, PlanFirst, PlanAgain

\* However many bumps follow each other, the family pays the same outputs from
\* the same inputs, and its higher fee comes out of the wallet's own change
\* (plan_replacement), for every transaction of this wallet.
THEOREM OnlyTheChangeEverPays ==
    ASSUME WalletBuilt
    PROVE  Spec => []OnlyTheChangePays
<1>1. Init => FamilyInv
  <2>1. Init => /\ pool = Original(shape) /\ mined = NoTx /\ tx = NoTx
                /\ step = "idle"
    BY DEF Init, BumpInit
  <2> QED
    BY <2>1 DEF FamilyInv, Planned
<1>2. BumpInv /\ FamilyInv => OnlyTheChangePays
  <2> SUFFICES ASSUME BumpInv, FamilyInv,
                      NEW t \in {pool, mined} \ {NoTx, Original(shape)}
               PROVE  /\ DOMAIN t.val = DOMAIN shape.val /\ t.memo = shape.memo
                      /\ \A o \in DOMAIN t.val \ {"change"} : t.val[o] = shape.val[o]
                      /\ Paid(t) = Paid(Original(shape))
                      /\ t.fee > shape.fee /\ t.val["change"] >= Dust
    BY DEF OnlyTheChangePays
  <2>1. Replaces(t)
    BY DEF FamilyInv
  <2>2. DOMAIN t.val = DOMAIN shape.val /\ t.memo = shape.memo
    BY DEF BumpInv, BumpTyped, Members
  <2> QED
    BY <2>1, <2>2 DEF Replaces
<1>3. BumpInv /\ FamilyInv /\ [Next]_vars => FamilyInv'
  BY NextFamilyInv
<1> QED
  BY <1>1, <1>2, <1>3, AlwaysBumpInv, PTL DEF Spec
=============================================================================
