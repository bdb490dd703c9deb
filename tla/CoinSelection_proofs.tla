------------------------ MODULE CoinSelection_proofs ------------------------
(***************************************************************************)
(* What holds of CoinSelection for every wallet, amount, fee rate, fee      *)
(* model and dust threshold.                                                *)
(***************************************************************************)
EXTENDS CoinSelection, SetSums

\* Rounding a fee up yields a natural number (math.ceil).
LEMMA CeilDivNat ==
    ASSUME NEW a \in Nat, NEW b \in Nat \ {0}
    PROVE  CeilDiv(a, b) \in Nat
  BY DEF CeilDiv

\* Both fee models price a spend at a natural number.
LEMMA BaseFeeNat ==
    ASSUME NEW n \in Nat, NEW k \in Nat, NEW memo \in Nat
    PROVE  BaseFee(n, k, memo) \in Nat
<1> USE CoinAssumption
<1>1. ActionFee(n, k) \in Nat
  BY DEF ActionFee, Larger
<1>2. VSize(n, k, memo) * RateNum \in Nat
  BY DEF VSize
<1>3. CeilDiv(VSize(n, k, memo) * RateNum, RateDen) \in Nat
  BY <1>2, CeilDivNat
<1> QED
  BY <1>1, <1>3 DEF BaseFee

\* A parent's deficit is a natural number (cpfp_deficit never goes below 0).
LEMMA DeficitNat ==
    ASSUME NEW t \in Txs
    PROVE  Deficit(t) \in Nat
<1> USE CoinAssumption
<1>1. CeilDiv(ParentSize * RateNum, RateDen) \in Nat
  BY CeilDivNat
<1> QED
  BY <1>1 DEF Deficit, Larger

\* What a spend of n inputs, k outputs and a memo costs, parents included.
LEMMA FeeForNat ==
    ASSUME NEW S \in SUBSET Coins, NEW surcharge \in Nat, NEW k \in Nat
    PROVE  FeeFor(S, surcharge, k) \in Nat
<1>1. Cardinality(S) \in Nat
  BY CoinAssumption, FS_Subset, FS_CardinalityType
<1>2. BaseFee(Cardinality(S), k, MemoSize) \in Nat
  BY <1>1, BaseFeeNat, CoinAssumption
<1> QED
  BY <1>2 DEF FeeFor

\* One verdict of the loop: whatever it selects accounts for every unit and is
\* priced between the two bounds of FeeBounded.
LEMMA SettleFair ==
    ASSUME NEW S \in SUBSET Coins, NEW sum \in Nat, NEW surcharge \in Nat,
           TypeOK, Settle(S, sum, surcharge)
    PROVE  \/ UNCHANGED <<stage, fee, change>>
           \/ /\ stage' = "selected" /\ fee' \in Nat /\ change' \in Nat
              /\ sum = send + fee' + change'
              /\ change' > 0 => change' >= Dust /\ fee' = FeeFor(S, surcharge, 2)
              /\ change' = 0 => /\ fee' >= FeeFor(S, surcharge, 1)
                                /\ fee' < FeeFor(S, surcharge, 2) + Dust
<1> DEFINE F1 == FeeFor(S, surcharge, 1)
           F2 == FeeFor(S, surcharge, 2)
<1>1. F1 \in Nat /\ F2 \in Nat /\ Dust \in Nat \ {0} /\ send \in Nat
  BY FeeForNat, CoinAssumption DEF TypeOK
<1> HIDE DEF F1, F2
<1>2. CASE sum - send - F2 >= Dust
  BY <1>1, <1>2 DEF Settle, Select, F1, F2
<1>3. CASE ~(sum - send - F2 >= Dust) /\ sum >= send + F1
  <2>1. stage' = "selected" /\ fee' = sum - send /\ change' = 0
    BY <1>3 DEF Settle, Select, F1, F2
  <2>2. fee' >= F1 /\ fee' < F2 + Dust
    BY <1>1, <1>3, <2>1
  <2> QED
    BY <1>1, <2>1, <2>2 DEF F1, F2
<1>4. CASE ~(sum - send - F2 >= Dust) /\ ~(sum >= send + F1)
  BY <1>4 DEF Settle, F1, F2
<1> QED
  BY <1>2, <1>3, <1>4

-----------------------------------------------------------------------------
\* A sum over every input is only worked out for a sweep.
SweepStage == stage = "sweeping" => sweep

\* The invariants carry each other: the types make the arithmetic of a verdict
\* exact, and a selected spend is never touched again.
IInv == TypeOK /\ NothingLost /\ FeeBounded /\ SweepStage

\* It holds before the wallet is listed: no coin is selected and no fee charged.
LEMMA InitIInv == Init => IInv
<1> SUFFICES ASSUME Init PROVE IInv
  OBVIOUS
<1>1. stage = "scan" /\ send \in Nat /\ value \in [Coins -> Nat]
  <2>1. value \in [Coins -> Values] /\ Values \subseteq Nat
    BY CoinAssumption DEF Init
  <2>2. value \in [Coins -> Nat]
    BY <2>1
  <2>3. send \in Nat
    <3>1. send \in Sends \/ send = 0
      BY DEF Init
    <3>2. Sends \subseteq Nat
      BY CoinAssumption
    <3>3. CASE send \in Sends
      BY <3>2, <3>3
    <3>4. CASE send = 0
      BY <3>4
    <3> QED
      BY <3>1, <3>3, <3>4
  <2> QED
    BY <2>2, <2>3 DEF Init
<1>2. allow \in BOOLEAN /\ sweep \in BOOLEAN
  BY DEF Init
<1>3. TypeOK
  BY <1>1, <1>2 DEF Init, TypeOK, Stages
<1> QED
  BY <1>1, <1>3 DEF IInv, NothingLost, FeeBounded, SweepStage

\* Every step of the selection keeps it: a coin taken, a verdict, a sweep.
LEMMA NextIInv == IInv /\ [Next]_vars => IInv'
<1> SUFFICES ASSUME IInv, [Next]_vars PROVE IInv'
  OBVIOUS
<1> USE DEF IInv
<1>1. CASE Scan
  BY <1>1 DEF Scan, TypeOK, NothingLost, FeeBounded, SweepStage, Stages, intent
<1>2. CASE Price
  <2>1. deficit' \in [Txs -> Nat]
    BY <1>2, DeficitNat DEF Price, TypeOK
  <2>2. stage' \in Stages /\ stage' # "selected" /\ (stage' = "sweeping" => sweep)
    BY <1>2 DEF Price, Stages
  <2> QED
    BY <1>2, <2>1, <2>2 DEF Price, TypeOK, NothingLost, FeeBounded, SweepStage, intent
<1>3. ASSUME NEW c \in Coins, Take(c) PROVE IInv'
  <2>1. /\ chosen' \in SUBSET Coins /\ rest' \subseteq Coins
        /\ total' \in Nat /\ owed' \in Nat
    BY <1>3, CoinAssumption DEF Take, TypeOK, Surcharge
  <2>2. UNCHANGED <<intent, send, deficit>> /\ stage # "selected"
    BY <1>3 DEF Take
  <2>3. CASE UNCHANGED <<stage, fee, change>>
    BY <2>1, <2>2, <2>3 DEF TypeOK, NothingLost, FeeBounded, SweepStage, intent
  <2>4. CASE Settle(chosen', total', owed')
    <3>1. \/ UNCHANGED <<stage, fee, change>>
          \/ /\ stage' = "selected" /\ fee' \in Nat /\ change' \in Nat
             /\ total' = send + fee' + change'
             /\ change' > 0 => /\ change' >= Dust
                               /\ fee' = FeeFor(chosen', owed', 2)
             /\ change' = 0 => /\ fee' >= FeeFor(chosen', owed', 1)
                               /\ fee' < FeeFor(chosen', owed', 2) + Dust
      BY <2>1, <2>4, SettleFair
    <3>2. CASE stage' = "selected" /\ ~UNCHANGED <<stage, fee, change>>
      <4>1. TypeOK'
        BY <2>1, <2>2, <3>1, <3>2 DEF TypeOK, Stages, intent
      <4>2. NothingLost'
        BY <2>2, <3>1, <3>2 DEF NothingLost
      <4>3. FeeBounded'
        <5>1. change' > 0 \/ change' = 0
          BY <3>1, <3>2
        <5>2. FeeFor(chosen, owed, 1)' = FeeFor(chosen', owed', 1)
              /\ FeeFor(chosen, owed, 2)' = FeeFor(chosen', owed', 2)
          BY <2>2 DEF FeeFor, BaseFee, VSize, ActionFee, Larger, CeilDiv, intent
        <5> QED
          BY <3>1, <3>2, <5>1, <5>2 DEF FeeBounded
      <4> QED
        BY <3>2, <4>1, <4>2, <4>3 DEF SweepStage
    <3> QED
      BY <2>3, <3>1, <3>2
  <2> QED
    BY <1>3, <2>3, <2>4 DEF Take
<1>4. CASE RunOut
  BY <1>4 DEF RunOut, TypeOK, NothingLost, FeeBounded, SweepStage, Stages, intent
<1>5. CASE Sweep
  <2> DEFINE price == BaseFee(Cardinality(chosen), 1, MaxMemoSize)
             amount == total - price - owed
  <2>1. price \in Nat /\ Dust \in Nat \ {0}
    <3>1. Cardinality(chosen) \in Nat
      BY CoinAssumption, FS_Subset, FS_CardinalityType DEF TypeOK
    <3> QED
      BY <3>1, BaseFeeNat, CoinAssumption
  <2>2. sweep /\ UNCHANGED <<intent, deficit, rest, chosen, total, owed>>
    BY <1>5 DEF Sweep, SweepStage
  <2> HIDE DEF price
  <2>3. CASE amount < Dust
    BY <1>5, <2>2, <2>3 DEF Sweep, TypeOK, NothingLost, FeeBounded, SweepStage, Stages, intent, price
  <2>4. CASE ~(amount < Dust)
    <3>1. stage' = "selected" /\ send' = amount /\ fee' = total - amount /\ change' = 0
      BY <1>5, <2>4 DEF Sweep, Select, price
    <3>2. send' \in Nat /\ fee' \in Nat /\ total = send' + fee' + change'
      BY <2>1, <2>4, <3>1 DEF TypeOK
    <3> QED
      BY <2>2, <3>1, <3>2 DEF TypeOK, NothingLost, FeeBounded, SweepStage, Stages, intent
  <2> QED
    BY <2>3, <2>4
<1>6. CASE UNCHANGED vars
  <2>1. FeeFor(chosen, owed, 1)' = FeeFor(chosen, owed, 1)
        /\ FeeFor(chosen, owed, 2)' = FeeFor(chosen, owed, 2)
    BY <1>6 DEF vars, intent, FeeFor, BaseFee, VSize, ActionFee, Larger, CeilDiv
  <2>2. TypeOK' /\ NothingLost'
    BY <1>6 DEF vars, intent, TypeOK, NothingLost
  <2>3. FeeBounded'
    BY <1>6, <2>1 DEF vars, intent, FeeBounded
  <2> QED
    BY <1>6, <2>2, <2>3 DEF vars, intent, SweepStage
<1> QED
  BY <1>1, <1>2, <1>3, <1>4, <1>5, <1>6 DEF Next

\* Every variable keeps its type: no fee, change, amount or deficit is ever
\* negative, whatever the wallet holds.
THEOREM TypeCorrect == Spec => []TypeOK
<1>1. IInv => TypeOK
  BY DEF IInv
<1> QED
  BY <1>1, InitIInv, NextIInv, PTL DEF Spec

\* coins._select and coins.sweep_amount account for every unit of the inputs.
THEOREM SpendIsAccounted == Spec => []NothingLost
<1>1. IInv => NothingLost
  BY DEF IInv
<1> QED
  BY <1>1, InitIInv, NextIInv, PTL DEF Spec

\* coins._select never underpays and never overpays by more than a change
\* output that was not worth keeping.
THEOREM SpendIsFairlyPriced == Spec => []FeeBounded
<1>1. IInv => FeeBounded
  BY DEF IInv
<1> QED
  BY <1>1, InitIInv, NextIInv, PTL DEF Spec

-----------------------------------------------------------------------------
\* What the running sums stand for: the inputs' value, and what their parents
\* owe, each parent once; a parent owes its deficit or nothing, and only while
\* it is in the mempool.
Totals == /\ total = Total(value, chosen)
          /\ owed = Total(deficit, Parents(chosen))
Owing  == \A t \in Txs : deficit[t] = 0
                         \/ (deficit[t] = Deficit(t) /\ t \in mempool)
Begun  == stage \in {"scan", "price"} => chosen = {} /\ total = 0 /\ owed = 0

\* Whatever was selected, a sweep too, is priced for its shape.
Outlets == IF change > 0 THEN 2 ELSE 1
Priced  == stage = "selected" => fee >= FeeFor(chosen, owed, Outlets)

\* A coin is taken once.
Apart == rest \cap chosen = {}

SumInv == IInv /\ Totals /\ Owing /\ Begun /\ Priced /\ Apart

\* The value of a set of coins is the sum over it.
LEMMA SpentIsTotal == \A S : Spent(S) = Total(value, S)
BY DEF Spent, Total

\* The parents of the coins taken are finitely many.
LEMMA ParentsFinite ==
    ASSUME NEW S \in SUBSET Coins
    PROVE  IsFiniteSet(Parents(S)) /\ Parents(S) \subseteq Txs
<1>1. IsFiniteSet(S)
  BY CoinAssumption, FS_Subset
<1>2. PICK P : P = {TxOf[c] : c \in S}
  OBVIOUS
<1>3. [c \in S |-> TxOf[c]] \in Surjection(S, P)
  BY <1>2 DEF Surjection
<1>4. IsFiniteSet(P)
  BY <1>1, <1>3, FS_Surjection
<1> QED
  BY <1>2, <1>4, CoinAssumption, FS_Subset DEF Parents

\* Rounding up covers what is divided.
LEMMA CeilDivCovers ==
    ASSUME NEW a \in Nat, NEW b \in Nat \ {0}
    PROVE  CeilDiv(a, b) * b >= a
<1>1. PICK q \in Int : q = (a + b - 1) \div b
  OBVIOUS
<1>2. b * q <= a + b - 1 /\ a + b - 1 < b * q + b
  BY <1>1
<1>3. q * b = b * q /\ b * q \in Int
  OBVIOUS
<1> QED
  BY <1>1, <1>2, <1>3 DEF CeilDiv

\* Two bounds on products, added.
LEMMA SumOfProducts ==
    ASSUME NEW x \in Int, NEW y \in Int, NEW r \in Nat, NEW n \in Nat, NEW c \in Nat,
           x * r >= c, y * r >= (n - 1) * c
    PROVE  (x + y) * r >= n * c
<1>1. (x + y) * r = x * r + y * r /\ (n - 1) * c = n * c - c
  OBVIOUS
<1>2. x * r \in Int /\ y * r \in Int /\ n * c \in Int
  OBVIOUS
<1> QED
  BY <1>1, <1>2

\* A parent's price reaches the rate together with what it already pays.
LEMMA DeficitCovers ==
    ASSUME NEW t \in Txs, Deficit(t) > 0
    PROVE  (Deficit(t) + ParentFee[t]) * RateDen >= ParentSize * RateNum
<1>1. ParentSize * RateNum \in Nat /\ ParentFee[t] \in Nat /\ RateDen \in Nat \ {0}
  BY CoinAssumption
<1>2. PICK p \in Nat : p = ParentSize * RateNum
  BY <1>1
<1>3. Deficit(t) = CeilDiv(p, RateDen) - ParentFee[t]
  BY <1>1, <1>2, CeilDivNat DEF Deficit, Larger
<1>4. CeilDiv(p, RateDen) * RateDen >= p
  BY <1>1, CeilDivCovers
<1> QED
  BY <1>1, <1>2, <1>3, <1>4, CeilDivNat

\* So do several of them, each by itself.
LEMMA DeficitsCover ==
    ASSUME NEW S \in SUBSET Txs, IsFiniteSet(S), NEW d,
           \A t \in S : d[t] = Deficit(t) /\ d[t] > 0
    PROVE  (Total(d, S) + Total(ParentFee, S)) * RateDen
               >= Cardinality(S) * (ParentSize * RateNum)
<1>1. PICK c \in Nat : c = ParentSize * RateNum
  BY CoinAssumption
<1>2. PICK r \in Nat : r = RateDen
  BY CoinAssumption
<1>3. PICK F : F = {s \in SUBSET S :
           ~ ((Total(d, s) + Total(ParentFee, s)) * r >= Cardinality(s) * c)}
  OBVIOUS
<1>4. ASSUME S \in F PROVE FALSE
  <2>1. \A s \in F : IsFiniteSet(s)
    BY <1>3, FS_Subset
  <2>2. PICK s \in F : \A u \in F : Cardinality(s) <= Cardinality(u)
    BY <1>4, <2>1, SmallestOf
  <2>3. /\ s \subseteq S /\ IsFiniteSet(s)
        /\ ~ ((Total(d, s) + Total(ParentFee, s)) * r >= Cardinality(s) * c)
    BY <1>3, <2>1
  <2>4. s # {}
    <3>1. ASSUME s = {} PROVE FALSE
      <4>1. Total(d, s) = 0 /\ Total(ParentFee, s) = 0 /\ Cardinality(s) = 0
        BY <2>3, <3>1, TotalStep, FS_EmptySet
      <4> QED
        BY <2>3, <4>1
    <3> QED
      BY <3>1
  <2>5. PICK t \in s : TRUE
    BY <2>4
  <2>6. s \ {t} \notin F
    BY <2>2, <2>3, Smaller
  <2>7. (Total(d, s \ {t}) + Total(ParentFee, s \ {t})) * r
            >= Cardinality(s \ {t}) * c
    BY <1>3, <2>3, <2>6
  <2>8. \A u \in s : d[u] \in Int /\ ParentFee[u] \in Int
    BY <2>3, DeficitNat, CoinAssumption
  <2>9. /\ Total(d, s) = d[t] + Total(d, s \ {t})
        /\ Total(ParentFee, s) = ParentFee[t] + Total(ParentFee, s \ {t})
    BY <2>3, <2>8, TotalTakeOut
  <2>10. Cardinality(s \ {t}) = Cardinality(s) - 1 /\ Cardinality(s) \in Nat
    BY <2>3, FS_RemoveElement, FS_CardinalityType
  <2>11. (d[t] + ParentFee[t]) * r >= c
    BY <1>1, <1>2, <2>3, DeficitCovers
  <2>12. IsFiniteSet(s \ {t}) /\ \A u \in s \ {t} : d[u] \in Int /\ ParentFee[u] \in Int
    BY <2>3, <2>8, FS_Subset
  <2>13. Total(d, s \ {t}) \in Int /\ Total(ParentFee, s \ {t}) \in Int
    BY <2>12, TotalIsInt
  <2>14. PICK x \in Int, y \in Int : x = d[t] + ParentFee[t]
            /\ y = Total(d, s \ {t}) + Total(ParentFee, s \ {t})
    BY <2>8, <2>13
  <2>15. Total(d, s) + Total(ParentFee, s) = x + y
    BY <2>8, <2>9, <2>13, <2>14
  <2>16. PICK n \in Nat : n = Cardinality(s)
    BY <2>10
  <2>17. x * r >= c /\ y * r >= (n - 1) * c
    BY <2>7, <2>10, <2>11, <2>14, <2>16
  <2>18. (x + y) * r >= n * c
    BY <2>17, SumOfProducts
  <2> QED
    BY <2>3, <2>15, <2>16, <2>18
<1> QED
  BY <1>1, <1>2, <1>3, <1>4

\* It holds before the wallet is listed: both sums are over nothing.
LEMMA InitSumInv == Init => SumInv
<1> SUFFICES ASSUME Init PROVE SumInv
  OBVIOUS
<1>1. /\ chosen = {} /\ total = 0 /\ owed = 0 /\ stage = "scan"
      /\ deficit = [t \in Txs |-> 0]
  BY DEF Init
<1>2. Parents(chosen) = {}
  BY <1>1 DEF Parents
<1>3. Total(value, chosen) = 0 /\ Total(deficit, Parents(chosen)) = 0
  BY <1>1, <1>2, FS_EmptySet, TotalStep
<1> QED
  BY <1>1, <1>3, InitIInv DEF SumInv, Totals, Owing, Begun, Priced, Apart

\* A coin taken adds its value to the one sum, and what its parent owes to the
\* other, unless the parent is in it already.
LEMMA TakeAdds ==
    ASSUME SumInv, NEW c \in Coins, Take(c), c \notin chosen
    PROVE  Totals'
<1>1. /\ chosen' = chosen \cup {c}
      /\ total' = total + value[c] /\ owed' = owed + Surcharge(c)
      /\ UNCHANGED <<value, mempool, deficit>>
  BY DEF Take, intent
<1>2. /\ total = Total(value, chosen) /\ owed = Total(deficit, Parents(chosen))
      /\ total \in Nat /\ owed \in Nat
      /\ value \in [Coins -> Nat] /\ deficit \in [Txs -> Nat] /\ chosen \subseteq Coins
  BY DEF SumInv, IInv, TypeOK, Totals
<1>3. IsFiniteSet(chosen)
  BY <1>2, CoinAssumption, FS_Subset
<1>4. total' = Total(value', chosen')
  <2>1. value[c] \in Int /\ \A x \in chosen : value[x] \in Int
    BY <1>2
  <2>2. Total(value, chosen \cup {c}) = value[c] + Total(value, chosen)
    BY <1>3, <2>1, TotalPutIn
  <2> QED
    BY <1>1, <1>2, <2>1, <2>2
<1>5. owed' = Total(deficit', Parents(chosen)')
  <2>1. PICK P : P = Parents(chosen)
    OBVIOUS
  <2>2. PICK t : t = TxOf[c]
    OBVIOUS
  <2>3. Parents(chosen)' = IF t \in mempool THEN P \cup {t} ELSE P
    BY <1>1, <2>1, <2>2 DEF Parents
  <2>4. IsFiniteSet(P) /\ P \subseteq Txs /\ t \in Txs
    BY <1>2, <2>1, <2>2, ParentsFinite, CoinAssumption
  <2>5. deficit[t] \in Int /\ \A u \in P : deficit[u] \in Int
    BY <1>2, <2>4
  <2>6. t \notin mempool => deficit[t] = 0
    BY <2>4 DEF SumInv, Owing
  <2>7. Surcharge(c) = IF t \in P THEN 0 ELSE deficit[t]
    BY <2>1, <2>2 DEF Surcharge
  <2>8. CASE t \in P \/ t \notin mempool
    <3>1. Parents(chosen)' = P
      BY <2>3, <2>8
    <3>2. Surcharge(c) = 0
      BY <2>6, <2>7, <2>8
    <3> QED
      BY <1>1, <1>2, <2>1, <3>1, <3>2
  <2>9. CASE t \notin P /\ t \in mempool
    <3>1. Total(deficit, P \cup {t}) = deficit[t] + Total(deficit, P)
      BY <2>4, <2>5, <2>9, TotalPutIn
    <3>2. Parents(chosen)' = P \cup {t} /\ Surcharge(c) = deficit[t]
      BY <2>3, <2>7, <2>9
    <3>3. owed' = deficit[t] + owed
      BY <1>1, <1>2, <2>5, <3>2
    <3>4. owed = Total(deficit, P) /\ deficit' = deficit
      BY <1>1, <1>2, <2>1
    <3> QED
      BY <3>1, <3>2, <3>3, <3>4, Zenon
  <2> QED
    BY <2>8, <2>9
<1> QED
  BY <1>4, <1>5 DEF Totals

\* Rounding up keeps the order.
LEMMA CeilDivGrows ==
    ASSUME NEW a \in Nat, NEW b \in Nat, a <= b, NEW r \in Nat \ {0}
    PROVE  CeilDiv(a, r) <= CeilDiv(b, r)
<1>1. PICK p \in Int, q \in Int : p = CeilDiv(a, r) /\ q = CeilDiv(b, r)
  BY DEF CeilDiv
<1>2. /\ r * p <= a + r - 1
      /\ b + r - 1 < r * q + r
  BY <1>1 DEF CeilDiv
<1>3. r * p < r * (q + 1)
  <2>1. r * (q + 1) = r * q + r /\ r * p \in Int /\ r * q \in Int
    OBVIOUS
  <2> QED
    BY <1>2, <2>1
<1>4. p < q + 1
  <2>1. ASSUME q + 1 <= p PROVE FALSE
    <3>1. PICK d \in Nat : p = (q + 1) + d
      <4>1. p - (q + 1) \in Nat /\ p = (q + 1) + (p - (q + 1))
        BY <2>1
      <4> QED
        BY <4>1
    <3>2. r * p = r * (q + 1) + r * d /\ r * d \in Nat /\ r * (q + 1) \in Int
      BY <3>1
    <3> QED
      BY <1>3, <3>2
  <2> QED
    BY <2>1
<1> QED
  BY <1>1, <1>4

\* A larger memo is not cheaper.
LEMMA MemoCosts ==
    ASSUME NEW n \in Nat, NEW k \in Nat
    PROVE  BaseFee(n, k, MemoSize) <= BaseFee(n, k, MaxMemoSize)
<1>1. /\ VSize(n, k, MemoSize) \in Nat /\ VSize(n, k, MaxMemoSize) \in Nat
      /\ VSize(n, k, MemoSize) <= VSize(n, k, MaxMemoSize)
  BY CoinAssumption DEF VSize
<1>2. PICK a \in Nat, b \in Nat :
          a = VSize(n, k, MemoSize) /\ b = VSize(n, k, MaxMemoSize) /\ a <= b
  BY <1>1
<1>3. PICK e \in Nat : b = a + e
  <2>1. b - a \in Nat /\ b = a + (b - a)
    BY <1>2
  <2> QED
    BY <2>1
<1>4. b * RateNum = a * RateNum + e * RateNum /\ e * RateNum \in Nat
      /\ a * RateNum \in Nat /\ b * RateNum \in Nat
  BY <1>3, CoinAssumption
<1>5. CeilDiv(a * RateNum, RateDen) <= CeilDiv(b * RateNum, RateDen)
  BY <1>4, CeilDivGrows, CoinAssumption
<1>6. CASE model = "zip317"
  <2>1. ActionFee(n, k) \in Nat
    BY CoinAssumption DEF ActionFee, Larger
  <2> QED
    BY <1>6, <2>1 DEF BaseFee
<1> QED
  BY <1>2, <1>5, <1>6 DEF BaseFee

\* Steps that leave the coins and their parents alone leave the sums alone.
LEMMA SumsStay ==
    ASSUME SumInv, UNCHANGED <<model, value, mempool, deficit, chosen, total, owed>>
    PROVE  Totals' /\ Owing'
<1>1. Parents(chosen)' = Parents(chosen)
  BY DEF Parents
<1> QED
  BY <1>1 DEF SumInv, Totals, Owing, Deficit, Larger, CeilDiv

\* The price of a shape depends on the fee model only.
LEMMA FeeForStays ==
    ASSUME UNCHANGED model, NEW S, NEW x, NEW k
    PROVE  FeeFor(S, x, k)' = FeeFor(S, x, k)
BY DEF FeeFor, BaseFee, VSize, ActionFee, Larger, CeilDiv

\* One verdict of the loop prices what it selects for its shape.
LEMMA SettlePrices ==
    ASSUME IInv, NEW c \in Coins, Take(c), stage' = "selected"
    PROVE  Priced'
<1>1. UNCHANGED <<intent, send, deficit>> /\ stage # "selected" /\ ~ sweep
  BY DEF Take
<1>2. ~ UNCHANGED <<stage, fee, change>>
  BY <1>1
<1>3. IInv'
  BY NextIInv DEF Next
<1>4. change' \in Nat /\ sweep' = FALSE
  BY <1>1, <1>3 DEF IInv, TypeOK, intent
<1>5. CASE change' = 0
  <2>1. (fee >= FeeFor(chosen, owed, 1))'
    BY <1>3, <1>4, <1>5 DEF IInv, FeeBounded
  <2> QED
    BY <1>5, <2>1 DEF Priced, Outlets
<1>6. CASE change' > 0
  <2>1. (fee = FeeFor(chosen, owed, 2))'
    BY <1>3, <1>4, <1>6 DEF IInv, FeeBounded
  <2>2. fee' \in Nat
    BY <1>3 DEF IInv, TypeOK
  <2> QED
    BY <1>6, <2>1, <2>2 DEF Priced, Outlets
<1> QED
  BY <1>4, <1>5, <1>6

\* Every step keeps the sums.
LEMMA NextSumInv == SumInv /\ [Next]_vars => SumInv'
<1> SUFFICES ASSUME SumInv, [Next]_vars PROVE SumInv'
  OBVIOUS
<1>1. IInv /\ IInv'
  BY NextIInv DEF SumInv
<1>2. CASE Scan
  <2>1. UNCHANGED <<intent, send, deficit, chosen, total, owed, fee, change>>
        /\ stage = "scan" /\ stage' \in {"nothing", "price"}
    BY <1>2 DEF Scan
  <2>2. Totals' /\ Owing'
    BY <2>1, SumsStay DEF intent
  <2>3. Begun' /\ Priced' /\ Apart'
    BY <2>1 DEF SumInv, Begun, Priced, Apart
  <2> QED
    BY <1>1, <2>2, <2>3 DEF SumInv
<1>3. CASE Price
  <2>1. UNCHANGED <<intent, send, rest, chosen, total, owed, fee, change>>
        /\ stage = "price" /\ stage' \in {"sweeping", "choosing", "aborted"}
    BY <1>3 DEF Price
  <2>2. chosen = {} /\ total = 0 /\ owed = 0
    BY <2>1 DEF SumInv, Begun
  <2>3. Parents(chosen)' = {}
    BY <2>1, <2>2 DEF Parents
  <2>4. Totals'
    BY <2>1, <2>2, <2>3, FS_EmptySet, TotalStep DEF Totals
  <2>5. Owing'
    <3>1. ASSUME NEW t \in Txs
          PROVE  deficit'[t] = 0 \/ (deficit'[t] = Deficit(t) /\ t \in mempool)
      <4>1. CASE UNCHANGED deficit
        BY <4>1 DEF SumInv, Owing
      <4>2. CASE \E mined \in SUBSET Parents(rest) :
                    deficit' = [u \in Txs |-> IF u \in Parents(rest) \ mined
                                              THEN Deficit(u) ELSE 0]
        BY <4>2 DEF Parents
      <4> QED
        BY <1>3, <4>1, <4>2 DEF Price
    <3> QED
      BY <2>1, <3>1 DEF Owing, intent, Deficit, Larger, CeilDiv
  <2>6. Begun' /\ Priced' /\ Apart'
    BY <2>1 DEF SumInv, Begun, Priced, Apart
  <2> QED
    BY <1>1, <2>4, <2>5, <2>6 DEF SumInv
<1>4. ASSUME NEW c \in Coins, Take(c) PROVE SumInv'
  <2>1. /\ UNCHANGED <<intent, send, deficit>>
        /\ stage \in {"choosing", "sweeping"} /\ c \in rest
        /\ rest' = rest \ {c} /\ chosen' = chosen \cup {c}
    BY <1>4 DEF Take
  <2>2. Totals'
    BY <1>4, <2>1, TakeAdds DEF SumInv, Apart
  <2>3. Owing'
    BY <2>1 DEF SumInv, Owing, intent, Deficit, Larger, CeilDiv
  <2>4. stage' = stage \/ stage' = "selected"
    BY <1>4 DEF Take, Settle, Select
  <2>5. Begun'
    BY <2>1, <2>4 DEF Begun
  <2>6. Priced'
    BY <1>1, <1>4, <2>1, <2>4, SettlePrices DEF Priced
  <2>7. Apart'
    BY <2>1 DEF SumInv, Apart
  <2> QED
    BY <1>1, <2>2, <2>3, <2>5, <2>6, <2>7 DEF SumInv
<1>5. CASE RunOut
  <2>1. UNCHANGED <<intent, send, deficit, rest, chosen, total, owed, fee, change>>
        /\ stage' = "insufficient"
    BY <1>5 DEF RunOut
  <2>2. Totals' /\ Owing'
    BY <2>1, SumsStay DEF intent
  <2> QED
    BY <1>1, <2>1, <2>2 DEF SumInv, Begun, Priced, Apart
<1>6. CASE Sweep
  <2>1. UNCHANGED <<intent, deficit, rest, chosen, total, owed>>
        /\ stage' \in {"insufficient", "selected"}
    BY <1>6 DEF Sweep, Select
  <2>2. Totals' /\ Owing'
    BY <2>1, SumsStay DEF intent
  <2>3. ASSUME stage' = "selected" PROVE Priced'
    <3>1. PICK b : b = BaseFee(Cardinality(chosen), 1, MaxMemoSize)
      OBVIOUS
    <3>2. change' = 0 /\ fee' = total - (total - b - owed)
      BY <1>6, <2>3, <3>1 DEF Sweep, Select
    <3>3. Cardinality(chosen) \in Nat
      BY <1>1, CoinAssumption, FS_Subset, FS_CardinalityType DEF IInv, TypeOK
    <3>4. b \in Nat /\ BaseFee(Cardinality(chosen), 1, MemoSize) \in Nat
          /\ BaseFee(Cardinality(chosen), 1, MemoSize) <= b
      BY <3>1, <3>3, BaseFeeNat, MemoCosts, CoinAssumption
    <3>5. total \in Nat /\ owed \in Nat
      BY <1>1 DEF IInv, TypeOK
    <3>6. fee' = b + owed
      BY <3>2, <3>4, <3>5
    <3>7. fee' >= FeeFor(chosen, owed, 1)
      BY <3>4, <3>5, <3>6 DEF FeeFor
    <3>8. FeeFor(chosen, owed, Outlets)' = FeeFor(chosen, owed, 1)
      BY <2>1, <3>2 DEF Outlets, FeeFor, BaseFee, VSize, ActionFee, Larger, CeilDiv, intent
    <3> QED
      BY <3>7, <3>8 DEF Priced
  <2>4. Priced'
    BY <2>3 DEF Priced
  <2> QED
    BY <1>1, <2>1, <2>2, <2>4 DEF SumInv, Begun, Apart
<1>7. CASE UNCHANGED vars
  <2>1. Totals' /\ Owing'
    BY <1>7, SumsStay DEF vars, intent
  <2>2. FeeFor(chosen, owed, Outlets)' = FeeFor(chosen, owed, Outlets)
    BY <1>7 DEF vars, intent, Outlets, FeeFor, BaseFee, VSize, ActionFee, Larger, CeilDiv
  <2>3. Priced'
    BY <1>7, <2>2 DEF vars, SumInv, Priced
  <2>4. Begun' /\ Apart'
    BY <1>7 DEF vars, SumInv, Begun, Apart
  <2> QED
    BY <1>1, <2>1, <2>3, <2>4 DEF SumInv
<1> QED
  BY <1>2, <1>3, <1>4, <1>5, <1>6, <1>7 DEF Next

\* The same in numbers: a fee that covers the spend's own size and the
\* parents' deficits brings the package to the rate.
LEMMA PackageArithmetic ==
    ASSUME NEW f \in Nat, NEW d \in Int, NEW p \in Int, NEW b \in Nat,
           NEW r \in Nat, NEW own \in Nat, NEW parents \in Nat, NEW n \in Nat,
           f >= b + d, b * r >= own * n, (d + p) * r >= parents * n
    PROVE  (f + p) * r >= (own + parents) * n
<1>1. PICK e \in Nat : f + p = (b + (d + p)) + e
  <2>1. f - (b + d) \in Nat /\ f + p = (b + (d + p)) + (f - (b + d))
    OBVIOUS
  <2> QED
    BY <2>1
<1>2. PICK q \in Int : q = d + p
  OBVIOUS
<1>3. /\ (f + p) * r = (b * r + q * r) + e * r
      /\ b * r \in Int /\ q * r \in Int /\ e * r \in Nat
  BY <1>1, <1>2
<1>4. (own + parents) * n = own * n + parents * n
      /\ own * n \in Int /\ parents * n \in Int
  OBVIOUS
<1> QED
  BY <1>2, <1>3, <1>4

\* The fee of a spend brings it and its short parents to the rate
\* (cpfp_surcharge, zip317_fee has no parents): each parent's deficit is in the
\* fee once, however many of its outputs are spent.
THEOREM PackageAlwaysReachesRate == Spec => []PackageReachesRate
<1>1. SumInv => PackageReachesRate
  <2> SUFFICES ASSUME SumInv, stage = "selected", model = "vbytes"
               PROVE  PackageReachesRate
    BY DEF PackageReachesRate
  <2>1. PICK short : short = {t \in Parents(chosen) : deficit[t] > 0}
    OBVIOUS
  <2>2. PICK P : P = Parents(chosen)
    OBVIOUS
  <2>3. /\ chosen \in SUBSET Coins /\ deficit \in [Txs -> Nat] /\ owed \in Nat
        /\ fee \in Nat /\ change \in Nat
    BY DEF SumInv, IInv, TypeOK
  <2>4. /\ IsFiniteSet(P) /\ P \subseteq Txs /\ short \subseteq P
        /\ IsFiniteSet(short) /\ short \subseteq Txs
    BY <2>1, <2>2, <2>3, ParentsFinite, FS_Subset
  <2>5. owed = Total(deficit, short)
    <3>1. \A t \in P : deficit[t] \in Int
      BY <2>3, <2>4
    <3>2. \A t \in P \ short : deficit[t] = 0
      BY <2>1, <2>2, <2>3, <2>4
    <3>3. Total(deficit, P) = Total(deficit, short)
      BY <2>4, <3>1, <3>2, TotalWithoutZeros
    <3> QED
      BY <2>2, <3>3 DEF SumInv, Totals
  <2>6. \A t \in short : deficit[t] = Deficit(t) /\ deficit[t] > 0
    <3>1. \A t \in short : deficit[t] > 0 /\ t \in Txs
      BY <2>1, <2>4
    <3> QED
      BY <3>1 DEF SumInv, Owing
  <2>7. PICK d \in Int, p \in Int, c \in Nat :
            d = owed /\ p = Total(ParentFee, short) /\ c = Cardinality(short)
    <3>1. \A t \in short : ParentFee[t] \in Int
      BY <2>4, CoinAssumption
    <3>2. Total(ParentFee, short) \in Int
      BY <2>4, <3>1, TotalIsInt
    <3> QED
      BY <2>3, <2>4, <3>2, FS_CardinalityType
  <2>8. (d + p) * RateDen >= c * (ParentSize * RateNum)
    BY <2>4, <2>5, <2>6, <2>7, DeficitsCover
  <2>9. PICK own \in Nat : own = VSize(Cardinality(chosen), Outlets, MemoSize)
    <3>1. Cardinality(chosen) \in Nat
      BY <2>3, CoinAssumption, FS_Subset, FS_CardinalityType
    <3> QED
      BY <3>1, CoinAssumption DEF VSize, Outlets
  <2>10. PICK b \in Nat : b = CeilDiv(own * RateNum, RateDen)
    BY CeilDivNat, CoinAssumption
  <2>11. b * RateDen >= own * RateNum
    BY <2>10, CeilDivCovers, CoinAssumption
  <2>12. fee >= b + d
    <3>1. FeeFor(chosen, owed, Outlets) = b + d
      BY <2>7, <2>9, <2>10 DEF FeeFor, BaseFee
    <3> QED
      BY <3>1 DEF SumInv, Priced
  <2>13. PICK r \in Nat, n \in Nat, s \in Nat :
             r = RateDen /\ n = RateNum /\ s = ParentSize
    BY CoinAssumption
  <2>14. c * (s * n) = (c * s) * n /\ c * s \in Nat
    OBVIOUS
  <2>15. (fee + p) * r >= (own + c * s) * n
    BY <2>3, <2>8, <2>11, <2>12, <2>13, <2>14, PackageArithmetic
  <2>16. p = MapThenSumSet(LAMBDA t : ParentFee[t], short)
    BY <2>7 DEF Total
  <2> QED
    BY <2>1, <2>7, <2>9, <2>13, <2>15, <2>16 DEF PackageReachesRate, Outlets
<1> QED
  BY <1>1, InitSumInv, NextSumInv, PTL DEF Spec

-----------------------------------------------------------------------------
\* Why the loop never risks unconfirmed money without need: it takes the mined
\* coins first and the largest of them first, so the mined coins it holds are
\* the best of their number, and while it goes on they were not enough.
Asked      == ~ sweep => send > 0
Listed     == /\ stage \in {"price", "choosing"} => Mined \subseteq rest \cup chosen
              /\ stage = "choosing" => ~ sweep
MinedFirst == stage = "choosing" => chosen \subseteq Mined \/ rest \cap Mined = {}
Largest    == stage = "choosing" =>
                  \A c \in chosen \cap Mined : \A d \in rest \cap Mined :
                      value[c] >= value[d]
TooLittle(n) == \A S \in SUBSET Mined : Cardinality(S) <= n => ~ Affords(S)
StillShort == stage = "choosing" => TooLittle(Cardinality(chosen \cap Mined))

GreedyInv == /\ SumInv /\ Asked /\ Listed /\ MinedFirst /\ Largest /\ StillShort
             /\ RiskOnlyWhenNeeded

\* It holds before the wallet is listed.
LEMMA InitGreedyInv == Init => GreedyInv
<1> SUFFICES ASSUME Init PROVE GreedyInv
  OBVIOUS
<1>1. stage = "scan" /\ ((send \in Sends /\ sweep = FALSE) \/ (send = 0 /\ sweep = TRUE))
  BY DEF Init
<1>2. Asked
  <2>1. \A s \in Sends : s > 0
    BY CoinAssumption
  <2> QED
    BY <1>1, <2>1 DEF Asked
<1> QED
  BY <1>1, <1>2, InitSumInv DEF GreedyInv, Listed, MinedFirst, Largest,
     StillShort, RiskOnlyWhenNeeded

\* What a set of mined coins can pay for depends on values, amount and model.
LEMMA AffordsStays ==
    ASSUME UNCHANGED <<model, value, mempool, send>>
    PROVE  /\ Mined' = Mined
           /\ \A S : Affords(S)' <=> Affords(S)
           /\ \A n : TooLittle(n)' <=> TooLittle(n)
<1>1. Mined' = Mined
  BY DEF Mined
<1>2. ASSUME NEW S PROVE Affords(S)' <=> Affords(S)
  <2>1. Spent(S)' = Spent(S)
    BY DEF Spent, MapThenSumSet, MapThenFoldSet
  <2>2. BaseFee(Cardinality(S), 1, MemoSize)' = BaseFee(Cardinality(S), 1, MemoSize)
    BY DEF BaseFee, VSize, ActionFee, Larger, CeilDiv
  <2> QED
    BY <2>1, <2>2 DEF Affords
<1>3. ASSUME NEW n PROVE TooLittle(n)' <=> TooLittle(n)
  BY <1>1, <1>2 DEF TooLittle
<1> QED
  BY <1>1, <1>2, <1>3

\* When every mined coin is taken and was not enough, no set of them is.
LEMMA AllShort ==
    ASSUME Mined \subseteq chosen, TooLittle(Cardinality(chosen \cap Mined)),
           NEW S \in SUBSET Mined
    PROVE  ~ Affords(S)
<1>1. IsFiniteSet(Mined) /\ chosen \cap Mined = Mined
  BY CoinAssumption, FS_Subset DEF Mined
<1>2. Cardinality(S) <= Cardinality(Mined)
  BY <1>1, FS_Subset
<1> QED
  BY <1>1, <1>2 DEF TooLittle

\* A mined coin is taken: if the loop goes on, neither the mined coins it
\* holds nor any others of that number were enough.
LEMMA MinedTaken ==
    ASSUME GreedyInv, SumInv', NEW c \in Coins, Take(c), stage = "choosing", c \in Mined
    PROVE  /\ chosen' \subseteq Mined
           /\ stage' = "choosing" => Largest' /\ StillShort'
<1>1. /\ UNCHANGED <<intent, send, deficit>> /\ ~ sweep
      /\ c \in rest /\ ComesFirst(c)
      /\ rest' = rest \ {c} /\ chosen' = chosen \cup {c}
      /\ Settle(chosen', total', owed')
  BY DEF Take, GreedyInv, Listed
<1>2. /\ Mined' = Mined /\ (\A S : Affords(S)' <=> Affords(S))
  BY <1>1, AffordsStays DEF intent
<1>3. chosen \subseteq Mined /\ chosen' \subseteq Mined
  BY <1>1 DEF GreedyInv, MinedFirst
<1>4. ASSUME stage' = "choosing" PROVE Largest' /\ StillShort'
  <2>1. value \in [Coins -> Nat] /\ value' = value
    BY <1>1 DEF GreedyInv, SumInv, IInv, TypeOK, intent
  <2>2. \A d \in rest \cap Mined : value[c] >= value[d]
    BY <1>1 DEF ComesFirst, Mined
  <2>3. \A b \in chosen' : \A d \in rest' \cap Mined : value[b] >= value[d]
    BY <1>1, <1>3, <2>2 DEF GreedyInv, Largest
  <2>4. Largest'
    BY <1>2, <1>3, <2>1, <2>3 DEF Largest
  <2>5. ~ (total' >= send + FeeFor(chosen', owed', 1))
    BY <1>1, <1>4 DEF Settle, Select
  <2>6. owed' = 0 /\ total' = Total(value, chosen')
    <3>1. Parents(chosen)' = {}
      BY <1>1, <1>3 DEF Parents, Mined, intent
    <3>2. owed' = Total(deficit', {}) /\ total' = Total(value', chosen')
      BY <3>1 DEF SumInv, Totals
    <3> QED
      BY <2>1, <3>2, FS_EmptySet, TotalStep
  <2>7. /\ IsFiniteSet(chosen) /\ IsFiniteSet(chosen') /\ c \notin chosen
        /\ Cardinality(chosen') = Cardinality(chosen) + 1
        /\ Cardinality(chosen) \in Nat /\ IsFiniteSet(Mined) /\ Mined \subseteq Coins
    <3>1. IsFiniteSet(Mined) /\ Mined \subseteq Coins
      BY CoinAssumption, FS_Subset DEF Mined
    <3>2. IsFiniteSet(chosen) /\ c \notin chosen
      BY <1>1, <1>3, <3>1, FS_Subset DEF GreedyInv, SumInv, Apart
    <3> QED
      BY <1>1, <3>1, <3>2, FS_AddElement, FS_CardinalityType
  <2>8. PICK n \in Nat : n = Cardinality(chosen')
    BY <2>7
  <2>9. ASSUME NEW S \in SUBSET Mined, Cardinality(S) <= n PROVE ~ Affords(S)
    <3>1. IsFiniteSet(S) /\ Cardinality(S) \in Nat /\ S \subseteq Coins
      BY <2>7, FS_Subset, FS_CardinalityType
    <3>2. CASE Cardinality(S) <= Cardinality(chosen)
      <4>1. chosen \cap Mined = chosen
        BY <1>3
      <4> QED
        BY <3>2, <4>1 DEF GreedyInv, StillShort, TooLittle
    <3>3. CASE ~ (Cardinality(S) <= Cardinality(chosen))
      <4>1. Cardinality(S) = n
        BY <2>7, <2>8, <2>9, <3>1, <3>3
      <4>2. \A x \in S \cup chosen' : value[x] \in Nat
        BY <1>3, <2>1, <2>7, <3>1
      <4>3. \A a \in S \ chosen' : \A b \in chosen' \ S : value[a] <= value[b]
        <5>1. Mined \subseteq rest' \cup chosen'
          BY <1>1 DEF GreedyInv, Listed
        <5>2. ASSUME NEW a \in S \ chosen', NEW b \in chosen' \ S
              PROVE  value[a] <= value[b]
          <6>1. a \in rest' \cap Mined
            BY <5>1
          <6>2. value[b] >= value[a]
            BY <2>3, <6>1
          <6>3. value[a] \in Nat /\ value[b] \in Nat
            BY <4>2
          <6> QED
            BY <6>2, <6>3
        <5> QED
          BY <5>2
      <4>4. Total(value, S) <= Total(value, chosen')
        BY <2>7, <2>8, <3>1, <4>1, <4>2, <4>3, TotalExchange
      <4>5. PICK b \in Nat : b = BaseFee(n, 1, MemoSize)
        BY BaseFeeNat, CoinAssumption
      <4>6. ~ (total' >= send + b)
        <5>1. FeeFor(chosen', owed', 1) = b
          BY <2>6, <2>8, <4>5 DEF FeeFor
        <5> QED
          BY <2>5, <5>1
      <4>7. Total(value, S) \in Nat /\ Total(value, chosen') \in Nat /\ send \in Nat
        BY <2>7, <3>1, <4>2, TotalIsNat DEF GreedyInv, SumInv, IInv, TypeOK
      <4>8. ~ (Total(value, S) >= send + b)
        BY <2>6, <4>4, <4>5, <4>6, <4>7
      <4> QED
        BY <4>1, <4>5, <4>8, SpentIsTotal DEF Affords
    <3> QED
      BY <3>2, <3>3
  <2>10. TooLittle(n)
    BY <2>9 DEF TooLittle
  <2>11. TooLittle(n)'
    BY <1>1, <2>10, AffordsStays DEF intent
  <2>12. (chosen \cap Mined)' = chosen'
    BY <1>2, <1>3
  <2>13. StillShort'
    BY <1>2, <2>8, <2>9, <2>12 DEF StillShort, TooLittle
  <2> QED
    BY <2>4, <2>13
<1> QED
  BY <1>3, <1>4

\* A coin is taken, mined or not: what the loop is left with, and what it
\* selects.
LEMMA TakeKeepsGreedy ==
    ASSUME GreedyInv, SumInv', NEW c \in Coins, Take(c)
    PROVE  GreedyInv'
<1>1. /\ UNCHANGED <<intent, send, deficit>>
      /\ c \in rest /\ ComesFirst(c)
      /\ rest' = rest \ {c} /\ chosen' = chosen \cup {c}
      /\ stage \in {"choosing", "sweeping"}
      /\ stage' = stage \/ (stage' = "selected" /\ ~ sweep)
  BY DEF Take, Settle, Select
<1>2. /\ Mined' = Mined /\ (\A S : Affords(S)' <=> Affords(S))
      /\ (\A n : TooLittle(n)' <=> TooLittle(n))
  BY <1>1, AffordsStays DEF intent
<1>3. Asked'
  BY <1>1 DEF GreedyInv, Asked, intent
<1>4. CASE stage = "sweeping"
  <2>1. sweep /\ sweep'
    BY <1>1, <1>4 DEF GreedyInv, SumInv, IInv, SweepStage, intent
  <2>2. stage' = "sweeping"
    BY <1>1, <1>4, <2>1
  <2> QED
    BY <1>3, <2>1, <2>2 DEF GreedyInv, Listed, MinedFirst, Largest, StillShort,
       RiskOnlyWhenNeeded
<1>5. CASE stage = "choosing"
  <2>1. ~ sweep /\ Mined \subseteq rest \cup chosen
    BY <1>5 DEF GreedyInv, Listed
  <2>2. Listed'
    BY <1>1, <1>2, <2>1 DEF Listed, intent
  <2>3. CASE c \in Mined
    <3>1. /\ chosen' \subseteq Mined
          /\ stage' = "choosing" => Largest' /\ StillShort'
      BY <1>5, <2>3, MinedTaken
    <3>2. MinedFirst'
      BY <1>2, <3>1 DEF MinedFirst
    <3>3. Parents(chosen)' = {}
      BY <1>1, <3>1 DEF Parents, Mined, intent
    <3>4. RiskOnlyWhenNeeded'
      BY <1>1, <1>5, <3>3 DEF RiskOnlyWhenNeeded
    <3>5. Largest' /\ StillShort'
      BY <3>1 DEF Largest, StillShort
    <3> QED
      BY <1>3, <2>2, <3>2, <3>4, <3>5 DEF GreedyInv
  <2>4. CASE c \notin Mined
    <3>1. rest \cap Mined = {}
      BY <1>1, <2>4 DEF ComesFirst, Mined
    <3>2. /\ rest' \cap Mined' = {} /\ chosen' \cap Mined' = chosen \cap Mined
          /\ Mined \subseteq chosen
      BY <1>1, <1>2, <2>1, <2>4, <3>1
    <3>3. TooLittle(Cardinality(chosen \cap Mined))
      BY <1>5 DEF GreedyInv, StillShort
    <3>4. \A S \in SUBSET Mined : ~ Affords(S)
      BY <3>2, <3>3, AllShort
    <3>5. MinedFirst' /\ Largest'
      BY <3>2 DEF MinedFirst, Largest
    <3>6. StillShort' /\ RiskOnlyWhenNeeded'
      BY <1>2, <3>4 DEF StillShort, TooLittle, RiskOnlyWhenNeeded
    <3> QED
      BY <1>3, <2>2, <3>5, <3>6 DEF GreedyInv
  <2> QED
    BY <2>3, <2>4
<1> QED
  BY <1>1, <1>4, <1>5

\* Every step keeps it.
LEMMA NextGreedyInv == GreedyInv /\ [Next]_vars => GreedyInv'
<1> SUFFICES ASSUME GreedyInv, [Next]_vars PROVE GreedyInv'
  OBVIOUS
<1>1. SumInv /\ SumInv'
  BY NextSumInv DEF GreedyInv
<1>2. CASE Scan
  <2>1. /\ UNCHANGED <<intent, send>> /\ stage' \in {"nothing", "price"}
        /\ rest' = {c \in Coins : allow \/ TxOf[c] \notin mempool}
    BY <1>2 DEF Scan
  <2>2. Mined' \subseteq rest'
    BY <2>1 DEF Mined, intent
  <2> QED
    BY <1>1, <2>1, <2>2 DEF GreedyInv, Asked, Listed, MinedFirst, Largest,
       StillShort, RiskOnlyWhenNeeded, intent
<1>3. CASE Price
  <2>1. /\ UNCHANGED <<intent, send, rest, chosen>> /\ stage = "price"
        /\ stage' = (IF sweep THEN "sweeping" ELSE "choosing") \/ stage' = "aborted"
    BY <1>3 DEF Price
  <2>2. chosen = {} /\ chosen' = {} /\ Mined' = Mined /\ Mined \subseteq rest'
    BY <1>1, <2>1 DEF GreedyInv, SumInv, Begun, Listed, Mined, intent
  <2>3. Asked' /\ Listed' /\ MinedFirst' /\ Largest' /\ RiskOnlyWhenNeeded'
    BY <2>1, <2>2 DEF GreedyInv, Asked, Listed, MinedFirst, Largest,
       RiskOnlyWhenNeeded, intent
  <2>4. ASSUME ~ sweep, NEW S \in SUBSET Mined, Cardinality(S) <= 0
        PROVE  ~ Affords(S)
    <3>1. IsFiniteSet(S) /\ Cardinality(S) \in Nat
      BY CoinAssumption, FS_Subset, FS_CardinalityType DEF Mined
    <3>2. S = {} /\ Cardinality(S) = 0
      BY <2>4, <3>1, FS_EmptySet
    <3>3. Spent(S) = 0
      BY <3>1, <3>2, SpentIsTotal, TotalStep
    <3>4. BaseFee(0, 1, MemoSize) \in Nat /\ send \in Nat /\ send > 0
      BY <1>1, <2>4, BaseFeeNat, CoinAssumption DEF GreedyInv, Asked, SumInv, IInv, TypeOK
    <3> QED
      BY <3>2, <3>3, <3>4 DEF Affords
  <2>5. StillShort'
    <3>1. (chosen \cap Mined)' = {} /\ Cardinality({}) = 0
      BY <2>2, FS_EmptySet
    <3>2. \A S : Affords(S)' <=> Affords(S)
      BY <2>1, AffordsStays DEF intent
    <3>3. CASE ~ sweep
      BY <2>2, <2>4, <3>1, <3>2, <3>3 DEF StillShort, TooLittle
    <3>4. CASE sweep
      BY <2>1, <3>4 DEF StillShort
    <3> QED
      BY <3>3, <3>4
  <2> QED
    BY <1>1, <2>3, <2>5 DEF GreedyInv
<1>4. ASSUME NEW c \in Coins, Take(c) PROVE GreedyInv'
  BY <1>1, <1>4, TakeKeepsGreedy
<1>5. CASE RunOut
  <2>1. /\ UNCHANGED <<intent, send, rest, chosen>> /\ rest = {}
        /\ stage = "choosing" /\ stage' = "insufficient"
    BY <1>5 DEF RunOut
  <2>2. Mined \subseteq chosen /\ TooLittle(Cardinality(chosen \cap Mined))
    BY <2>1 DEF GreedyInv, Listed, StillShort
  <2>3. \A S \in SUBSET Mined : ~ Affords(S)
    BY <2>2, AllShort
  <2>4. Mined' = Mined /\ \A S : Affords(S)' <=> Affords(S)
    BY <2>1, AffordsStays DEF intent
  <2>5. RiskOnlyWhenNeeded'
    BY <2>3, <2>4 DEF RiskOnlyWhenNeeded
  <2> QED
    BY <1>1, <2>1, <2>5 DEF GreedyInv, Asked, Listed, MinedFirst, Largest,
       StillShort, intent
<1>6. CASE Sweep
  <2>1. sweep' /\ stage' \in {"insufficient", "selected"}
    BY <1>1, <1>6 DEF Sweep, Select, intent, SumInv, IInv, SweepStage
  <2> QED
    BY <1>1, <2>1 DEF GreedyInv, Asked, Listed, MinedFirst, Largest,
       StillShort, RiskOnlyWhenNeeded
<1>7. CASE UNCHANGED vars
  <2>1. /\ Mined' = Mined /\ (\A S : Affords(S)' <=> Affords(S))
        /\ Parents(chosen)' = Parents(chosen)
    BY <1>7, AffordsStays DEF vars, intent, Parents
  <2>2. Asked' /\ Listed' /\ MinedFirst' /\ Largest'
    BY <1>7, <2>1 DEF vars, intent, GreedyInv, Asked, Listed, MinedFirst, Largest
  <2>3. StillShort' /\ RiskOnlyWhenNeeded'
    BY <1>7, <2>1 DEF vars, intent, GreedyInv, StillShort, TooLittle, RiskOnlyWhenNeeded
  <2> QED
    BY <1>1, <2>2, <2>3 DEF GreedyInv
<1> QED
  BY <1>2, <1>3, <1>4, <1>5, <1>6, <1>7 DEF Next

\* coins._select spends unconfirmed money, or refuses a spend, only when no
\* combination of the confirmed outputs could pay for it.
THEOREM RiskOnlyWhenItMust == Spec => []RiskOnlyWhenNeeded
<1>1. GreedyInv => RiskOnlyWhenNeeded
  BY DEF GreedyInv
<1> QED
  BY <1>1, InitGreedyInv, NextGreedyInv, PTL DEF Spec
=============================================================================
