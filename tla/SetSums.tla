------------------------------- MODULE SetSums ------------------------------
(***************************************************************************)
(* Sums over finite sets.  The model adds amounts up with MapThenSumSet and *)
(* SumFunction, which take the elements of a set one by one in an order     *)
(* nobody fixes; the lemmas here say that the order does not matter: any    *)
(* element can be taken out of a sum, and sums of integers are integers.    *)
(***************************************************************************)
EXTENDS Integers, FiniteSets, FiniteSetsExt, Functions,
        FiniteSetTheorems, WellFoundedInduction, TLAPS

\* The sum of v over S.
Total(v, S) == MapThenSumSet(LAMBDA x : v[x], S)

\* The element the definition takes out of a set first, and what it leaves.
First(s) == CHOOSE x \in s : TRUE
Rest(s)  == s \ {First(s)}

\* The recursive function the definition chooses, for the subsets of S.
Sums(v, S, f) ==
    f = [s \in SUBSET S |-> IF s = {} THEN 0 ELSE v[First(s)] + f[Rest(s)]]

\* A set of natural numbers has a least one.
LEMMA LeastOf ==
    ASSUME NEW T, T \subseteq Nat, NEW top \in T
    PROVE  \E x \in T : \A y \in T : x <= y
<1>1. \E x \in T : \A y \in T : ~ (<<y, x>> \in OpToRel(<, Nat))
  BY NatLessThanWellFounded, WFMin
<1>2. PICK x \in T : \A y \in T : ~ (<<y, x>> \in OpToRel(<, Nat))
  BY <1>1
<1>3. ASSUME NEW y \in T PROVE x <= y
  <2>1. x \in Nat /\ y \in Nat
    OBVIOUS
  <2>2. ~ (<<y, x>> \in OpToRel(<, Nat))
    BY <1>2
  <2>3. ~ (y < x)
    BY <2>1, <2>2 DEF OpToRel
  <2> QED
    BY <2>1, <2>3
<1> QED
  BY <1>2, <1>3

\* A family of finite sets that is not empty has a member of least
\* cardinality: no smaller set is in it.
LEMMA SmallestOf ==
    ASSUME NEW F, NEW G \in F, \A s \in F : IsFiniteSet(s)
    PROVE  \E s \in F : \A t \in F : Cardinality(s) <= Cardinality(t)
<1>1. PICK T : T = {Cardinality(s) : s \in F}
  OBVIOUS
<1>2. T \subseteq Nat /\ Cardinality(G) \in T
  BY <1>1, FS_CardinalityType
<1>3. PICK n \in T : \A m \in T : n <= m
  BY <1>2, LeastOf
<1>4. PICK s \in F : n = Cardinality(s)
  BY <1>1
<1> QED
  BY <1>1, <1>3, <1>4

\* What is left of a finite set without one of its elements is smaller.
LEMMA Smaller ==
    ASSUME NEW S, IsFiniteSet(S), NEW x \in S
    PROVE  /\ IsFiniteSet(S \ {x})
           /\ Cardinality(S \ {x}) \in Nat /\ Cardinality(S) \in Nat
           /\ ~ (Cardinality(S) <= Cardinality(S \ {x}))
<1>1. IsFiniteSet(S \ {x}) /\ Cardinality(S \ {x}) = Cardinality(S) - 1
  BY FS_RemoveElement
<1>2. Cardinality(S \ {x}) \in Nat /\ Cardinality(S) \in Nat
  BY <1>1, FS_CardinalityType
<1> QED
  BY <1>1, <1>2

\* A set that is not empty has a first element.
LEMMA FirstIn ==
    ASSUME NEW S, S # {} PROVE First(S) \in S /\ Rest(S) \subseteq S
BY DEF First, Rest

-----------------------------------------------------------------------------
\* The sum is what the chosen recursive function says of the whole set.
LEMMA TotalIsChosen ==
    ASSUME NEW v, NEW S
    PROVE  Total(v, S) = (CHOOSE f : Sums(v, S, f))[S]
BY DEF Total, MapThenSumSet, MapThenFoldSet, Sums, First, Rest

\* The sum of a function's values is the sum over its domain.
LEMMA SumFunctionIsTotal ==
    ASSUME NEW v PROVE SumFunction(v) = Total(v, DOMAIN v)
BY DEF SumFunction, SumFunctionOnSet, FoldFunctionOnSet, Total,
       MapThenSumSet, MapThenFoldSet

\* Two such functions agree on the sets both of them cover.
LEMMA SumsAgree ==
    ASSUME NEW v, NEW A, NEW B, NEW f, NEW g, NEW s,
           Sums(v, A, f), Sums(v, B, g), IsFiniteSet(s),
           s \subseteq A, s \subseteq B
    PROVE  f[s] = g[s]
<1>1. PICK F : F = {t \in SUBSET s : f[t] # g[t]}
  OBVIOUS
<1>2. ASSUME f[s] # g[s] PROVE FALSE
  <2>1. s \in F /\ \A t \in F : IsFiniteSet(t)
    BY <1>1, <1>2, FS_Subset
  <2>2. PICK t \in F : \A u \in F : Cardinality(t) <= Cardinality(u)
    BY <2>1, SmallestOf
  <2>3. t \subseteq s /\ f[t] # g[t] /\ t \in SUBSET A /\ t \in SUBSET B
    BY <1>1
  <2>4. /\ f[t] = IF t = {} THEN 0 ELSE v[First(t)] + f[Rest(t)]
        /\ g[t] = IF t = {} THEN 0 ELSE v[First(t)] + g[Rest(t)]
    BY <2>3 DEF Sums
  <2>5. t # {}
    BY <2>3, <2>4
  <2>6. First(t) \in t /\ Rest(t) \subseteq t
    BY <2>5, FirstIn
  <2>7. ~ (Cardinality(t) <= Cardinality(Rest(t)))
    BY <2>1, <2>6, Smaller DEF Rest
  <2>8. Rest(t) \notin F
    BY <2>2, <2>7
  <2>9. f[Rest(t)] = g[Rest(t)]
    BY <1>1, <2>3, <2>6, <2>8
  <2> QED
    BY <2>3, <2>4, <2>5, <2>9
<1> QED
  BY <1>2

\* A function for a set serves its subsets.
LEMMA SumsRestrict ==
    ASSUME NEW v, NEW A, NEW B \in SUBSET A, NEW f, Sums(v, A, f)
    PROVE  Sums(v, B, [s \in SUBSET B |-> f[s]])
<1>1. PICK g : g = [s \in SUBSET B |-> f[s]]
  OBVIOUS
<1>2. ASSUME NEW s \in SUBSET B
      PROVE  g[s] = IF s = {} THEN 0 ELSE v[First(s)] + g[Rest(s)]
  <2>1. f[s] = IF s = {} THEN 0 ELSE v[First(s)] + f[Rest(s)]
    BY DEF Sums
  <2>2. s # {} => Rest(s) \in SUBSET B
    BY DEF Rest
  <2> QED
    BY <1>1, <2>1, <2>2
<1>3. g = [s \in SUBSET B |-> g[s]]
  BY <1>1
<1>4. g = [s \in SUBSET B |-> IF s = {} THEN 0 ELSE v[First(s)] + g[Rest(s)]]
  BY <1>2, <1>3
<1> QED
  BY <1>1, <1>4 DEF Sums

\* Where a function exists for a set, the sum is that function's.
LEMMA TotalIsAny ==
    ASSUME NEW v, NEW A, NEW S \in SUBSET A, NEW f, Sums(v, A, f), IsFiniteSet(S)
    PROVE  Total(v, S) = f[S]
<1>1. \E g : Sums(v, S, g)
  BY SumsRestrict
<1>2. PICK g : g = CHOOSE h : Sums(v, S, h)
  OBVIOUS
<1>3. Sums(v, S, g)
  BY <1>1, <1>2
<1>4. g[S] = f[S]
  BY <1>3, SumsAgree
<1> QED
  BY <1>2, <1>4, TotalIsChosen

\* Every finite set has such a function.
LEMMA SumsExist ==
    ASSUME NEW v, NEW S, IsFiniteSet(S)
    PROVE  \E f : Sums(v, S, f)
<1>1. PICK F : F = {t \in SUBSET S : ~ \E f : Sums(v, t, f)}
  OBVIOUS
<1>2. ASSUME ~ \E f : Sums(v, S, f) PROVE FALSE
  <2>1. S \in F /\ \A t \in F : IsFiniteSet(t)
    BY <1>1, <1>2, FS_Subset
  <2>2. PICK T \in F : \A u \in F : Cardinality(T) <= Cardinality(u)
    BY <2>1, SmallestOf
  <2>3. IsFiniteSet(T) /\ T \subseteq S /\ ~ \E f : Sums(v, T, f)
    BY <1>1, <2>1
  <2>4. ASSUME NEW t \in SUBSET T, t # T
        PROVE  \E f : Sums(v, t, f)
    <3>1. Cardinality(t) <= Cardinality(T) /\ Cardinality(t) # Cardinality(T)
      BY <2>3, <2>4, FS_Subset
    <3>2. Cardinality(t) \in Nat /\ Cardinality(T) \in Nat
      BY <2>3, FS_Subset, FS_CardinalityType
    <3>3. t \notin F
      BY <2>2, <3>1, <3>2
    <3> QED
      BY <1>1, <2>3, <3>3
  <2>5. PICK f : f = [s \in SUBSET T |-> IF s = {} THEN 0
                                       ELSE v[First(s)] + Total(v, Rest(s))]
    OBVIOUS
  <2>6. ASSUME NEW s \in SUBSET T, s # T
        PROVE  f[s] = Total(v, s)
    <3>1. PICK g : Sums(v, s, g)
      BY <2>4, <2>6
    <3>2. IsFiniteSet(s) /\ s \in SUBSET s
      BY <2>3, FS_Subset
    <3>3. Total(v, s) = g[s]
      BY <3>1, <3>2, TotalIsAny
    <3>4. g[s] = IF s = {} THEN 0 ELSE v[First(s)] + g[Rest(s)]
      BY <3>1, <3>2 DEF Sums
    <3>5. ASSUME s # {} PROVE g[Rest(s)] = Total(v, Rest(s))
      <4>1. Rest(s) \in SUBSET s
        BY DEF Rest
      <4>2. IsFiniteSet(Rest(s))
        BY <3>2, <4>1, FS_Subset
      <4> QED
        BY <3>1, <4>1, <4>2, TotalIsAny
    <3> QED
      BY <2>5, <3>3, <3>4, <3>5
  <2>7. ASSUME NEW s \in SUBSET T, s # {}
        PROVE  f[Rest(s)] = Total(v, Rest(s))
    <3>1. First(s) \in s
      BY <2>7, FirstIn
    <3>2. Rest(s) \in SUBSET T /\ Rest(s) # T
      BY <3>1 DEF Rest
    <3> QED
      BY <2>6, <3>2
  <2>8. f = [s \in SUBSET T |-> IF s = {} THEN 0 ELSE v[First(s)] + f[Rest(s)]]
    BY <2>5, <2>7
  <2> QED
    BY <2>3, <2>8 DEF Sums
<1> QED
  BY <1>2

-----------------------------------------------------------------------------
\* The definition, unfolded once.
LEMMA TotalStep ==
    ASSUME NEW v, NEW S, IsFiniteSet(S)
    PROVE  Total(v, S) = IF S = {} THEN 0
                         ELSE v[First(S)] + Total(v, Rest(S))
<1>1. PICK f : Sums(v, S, f)
  BY SumsExist
<1>2. S \in SUBSET S /\ (S # {} => Rest(S) \in SUBSET S)
  BY DEF Rest
<1>3. S # {} => IsFiniteSet(Rest(S))
  BY <1>2, FS_Subset
<1>4. Total(v, S) = f[S] /\ (S # {} => Total(v, Rest(S)) = f[Rest(S)])
  BY <1>1, <1>2, <1>3, TotalIsAny
<1>5. f[S] = IF S = {} THEN 0 ELSE v[First(S)] + f[Rest(S)]
  BY <1>1, <1>2 DEF Sums
<1> QED
  BY <1>4, <1>5

\* A sum of integers is an integer.
LEMMA TotalIsInt ==
    ASSUME NEW v, NEW S, IsFiniteSet(S), \A x \in S : v[x] \in Int
    PROVE  Total(v, S) \in Int
<1>1. PICK F : F = {t \in SUBSET S : Total(v, t) \notin Int}
  OBVIOUS
<1>2. ASSUME Total(v, S) \notin Int PROVE FALSE
  <2>1. S \in F /\ \A t \in F : IsFiniteSet(t)
    BY <1>1, <1>2, FS_Subset
  <2>2. PICK t \in F : \A u \in F : Cardinality(t) <= Cardinality(u)
    BY <2>1, SmallestOf
  <2>3. t \subseteq S /\ Total(v, t) \notin Int /\ IsFiniteSet(t)
    BY <1>1, <2>1
  <2>4. t # {}
    BY <2>3, TotalStep
  <2>5. First(t) \in t
    BY <2>4, FirstIn
  <2>6. Rest(t) \notin F
    BY <2>2, <2>3, <2>5, Smaller DEF Rest
  <2>7. Total(v, Rest(t)) \in Int
    BY <1>1, <2>3, <2>6 DEF Rest
  <2>8. Total(v, t) = v[First(t)] + Total(v, Rest(t))
    BY <2>3, <2>4, TotalStep
  <2>9. v[First(t)] \in Int
    BY <2>3, <2>5
  <2> QED
    BY <2>3, <2>7, <2>8, <2>9
<1> QED
  BY <1>2

\* Any element can be taken out of a sum, whichever the definition takes first.
LEMMA TotalTakeOut ==
    ASSUME NEW v, NEW S, IsFiniteSet(S), \A x \in S : v[x] \in Int, NEW x \in S
    PROVE  Total(v, S) = v[x] + Total(v, S \ {x})
<1>1. PICK F : F = {t \in SUBSET S : \E y \in t :
                       Total(v, t) # v[y] + Total(v, t \ {y})}
  OBVIOUS
<1>2. ASSUME Total(v, S) # v[x] + Total(v, S \ {x}) PROVE FALSE
  <2>1. S \in F /\ \A t \in F : IsFiniteSet(t)
    BY <1>1, <1>2, FS_Subset
  <2>2. PICK t \in F : \A u \in F : Cardinality(t) <= Cardinality(u)
    BY <2>1, SmallestOf
  <2>3. t \subseteq S /\ IsFiniteSet(t)
    BY <1>1, <2>1
  <2>4. PICK y \in t : Total(v, t) # v[y] + Total(v, t \ {y})
    BY <1>1
  <2>5. PICK c : c = First(t)
    OBVIOUS
  <2>6. c \in t /\ Rest(t) = t \ {c}
    BY <2>4, <2>5, FirstIn DEF Rest
  <2>7. Total(v, t) = v[c] + Total(v, t \ {c})
    BY <2>3, <2>4, <2>5, <2>6, TotalStep
  <2>8. c # y
    BY <2>4, <2>7
  <2>9. ASSUME NEW z \in t, NEW w \in t \ {z}
        PROVE  Total(v, t \ {z}) = v[w] + Total(v, (t \ {z}) \ {w})
    <3>1. t \ {z} \notin F
      BY <2>2, <2>3, Smaller
    <3>2. t \ {z} \in SUBSET S
      BY <2>3
    <3> QED
      BY <1>1, <2>9, <3>1, <3>2
  <2>10. Total(v, t \ {c}) = v[y] + Total(v, (t \ {c}) \ {y})
    BY <2>4, <2>6, <2>8, <2>9
  <2>11. Total(v, t \ {y}) = v[c] + Total(v, (t \ {y}) \ {c})
    BY <2>4, <2>6, <2>8, <2>9
  <2>12. PICK r : r = (t \ {c}) \ {y}
    OBVIOUS
  <2>13. (t \ {y}) \ {c} = r /\ r \subseteq S
    BY <2>3, <2>12
  <2>14. IsFiniteSet(r) /\ \A e \in r : v[e] \in Int
    BY <2>13, FS_Subset
  <2>15. Total(v, r) \in Int
    BY <2>14, TotalIsInt
  <2>16. v[c] \in Int /\ v[y] \in Int
    BY <2>3, <2>4, <2>6
  <2>17. /\ Total(v, t) = v[c] + (v[y] + Total(v, r))
         /\ Total(v, t \ {y}) = v[c] + Total(v, r)
    BY <2>7, <2>10, <2>11, <2>12, <2>13
  <2> QED
    BY <2>4, <2>15, <2>16, <2>17
<1> QED
  BY <1>2

\* Functions that agree on a set have the same sum over it.
LEMMA TotalOfSame ==
    ASSUME NEW v, NEW w, NEW S, IsFiniteSet(S), \A x \in S : v[x] = w[x]
    PROVE  Total(v, S) = Total(w, S)
<1>1. PICK F : F = {t \in SUBSET S : Total(v, t) # Total(w, t)}
  OBVIOUS
<1>2. ASSUME Total(v, S) # Total(w, S) PROVE FALSE
  <2>1. S \in F /\ \A t \in F : IsFiniteSet(t)
    BY <1>1, <1>2, FS_Subset
  <2>2. PICK t \in F : \A u \in F : Cardinality(t) <= Cardinality(u)
    BY <2>1, SmallestOf
  <2>3. t \subseteq S /\ Total(v, t) # Total(w, t) /\ IsFiniteSet(t)
    BY <1>1, <2>1
  <2>4. /\ Total(v, t) = IF t = {} THEN 0 ELSE v[First(t)] + Total(v, Rest(t))
        /\ Total(w, t) = IF t = {} THEN 0 ELSE w[First(t)] + Total(w, Rest(t))
    BY <2>3, TotalStep
  <2>5. t # {}
    BY <2>3, <2>4
  <2>6. First(t) \in t
    BY <2>5, FirstIn
  <2>7. Rest(t) \notin F
    BY <2>2, <2>3, <2>6, Smaller DEF Rest
  <2>8. Total(v, Rest(t)) = Total(w, Rest(t))
    BY <1>1, <2>3, <2>7 DEF Rest
  <2>9. v[First(t)] = w[First(t)]
    BY <2>3, <2>6
  <2> QED
    BY <2>3, <2>4, <2>5, <2>8, <2>9
<1> QED
  BY <1>2

\* A sum of natural numbers is one, and at least each of its terms.
LEMMA TotalIsNat ==
    ASSUME NEW v, NEW S, IsFiniteSet(S), \A x \in S : v[x] \in Nat
    PROVE  /\ Total(v, S) \in Nat
           /\ \A x \in S : v[x] <= Total(v, S)
<1>1. PICK F : F = {t \in SUBSET S : Total(v, t) \notin Nat}
  OBVIOUS
<1>2. ASSUME NEW s \in SUBSET S, Total(v, s) \notin Nat PROVE FALSE
  <2>1. s \in F /\ \A t \in F : IsFiniteSet(t)
    BY <1>1, <1>2, FS_Subset
  <2>2. PICK t \in F : \A u \in F : Cardinality(t) <= Cardinality(u)
    BY <2>1, SmallestOf
  <2>3. t \subseteq S /\ Total(v, t) \notin Nat /\ IsFiniteSet(t)
    BY <1>1, <2>1
  <2>4. t # {}
    BY <2>3, TotalStep
  <2>5. First(t) \in t
    BY <2>4, FirstIn
  <2>6. Rest(t) \notin F
    BY <2>2, <2>3, <2>5, Smaller DEF Rest
  <2>7. Total(v, Rest(t)) \in Nat
    BY <1>1, <2>3, <2>6 DEF Rest
  <2>8. Total(v, t) = v[First(t)] + Total(v, Rest(t))
    BY <2>3, <2>4, TotalStep
  <2>9. v[First(t)] \in Nat
    BY <2>3, <2>5
  <2> QED
    BY <2>3, <2>7, <2>8, <2>9
<1>3. Total(v, S) \in Nat
  BY <1>2
<1>4. ASSUME NEW x \in S PROVE v[x] <= Total(v, S)
  <2>1. Total(v, S) = v[x] + Total(v, S \ {x})
    BY TotalTakeOut
  <2>2. Total(v, S \ {x}) \in Nat
    BY <1>2
  <2>3. v[x] \in Nat
    OBVIOUS
  <2> QED
    BY <2>1, <2>2, <2>3
<1> QED
  BY <1>3, <1>4

\* An element that joins a set adds its value.
LEMMA TotalPutIn ==
    ASSUME NEW v, NEW S, IsFiniteSet(S), NEW x, x \notin S,
           v[x] \in Int, \A y \in S : v[y] \in Int
    PROVE  Total(v, S \cup {x}) = v[x] + Total(v, S)
<1>1. IsFiniteSet(S \cup {x}) /\ (S \cup {x}) \ {x} = S /\ x \in S \cup {x}
  BY FS_AddElement
<1>2. \A y \in S \cup {x} : v[y] \in Int
  OBVIOUS
<1>3. Total(v, S \cup {x}) = v[x] + Total(v, (S \cup {x}) \ {x})
  BY <1>1, <1>2, TotalTakeOut
<1> QED
  BY <1>1, <1>3

\* Terms that are zero can be left out of a sum.
LEMMA TotalWithoutZeros ==
    ASSUME NEW v, NEW S, IsFiniteSet(S), \A x \in S : v[x] \in Int,
           NEW T \in SUBSET S, \A x \in S \ T : v[x] = 0
    PROVE  Total(v, S) = Total(v, T)
<1>1. PICK F : F = {s \in SUBSET S : T \subseteq s /\ Total(v, s) # Total(v, T)}
  OBVIOUS
<1>2. ASSUME Total(v, S) # Total(v, T) PROVE FALSE
  <2>1. S \in F /\ \A s \in F : IsFiniteSet(s)
    BY <1>1, <1>2, FS_Subset
  <2>2. PICK s \in F : \A u \in F : Cardinality(s) <= Cardinality(u)
    BY <2>1, SmallestOf
  <2>3. s \subseteq S /\ T \subseteq s /\ Total(v, s) # Total(v, T) /\ IsFiniteSet(s)
    BY <1>1, <2>1
  <2>4. PICK x \in s : x \notin T
    BY <2>3
  <2>5. s \ {x} \notin F
    BY <2>2, <2>3, Smaller
  <2>6. Total(v, s \ {x}) = Total(v, T)
    BY <1>1, <2>3, <2>4, <2>5
  <2>7. Total(v, s) = v[x] + Total(v, s \ {x}) /\ v[x] = 0
    BY <2>3, <2>4, TotalTakeOut
  <2>8. Total(v, s \ {x}) \in Int
    <3>1. IsFiniteSet(s \ {x}) /\ \A y \in s \ {x} : v[y] \in Int
      BY <2>3, FS_Subset
    <3> QED
      BY <3>1, TotalIsInt
  <2> QED
    BY <2>3, <2>6, <2>7, <2>8
<1> QED
  BY <1>2

\* A part of a sum of natural numbers is no more than the whole.
LEMMA TotalOfPart ==
    ASSUME NEW v, NEW S, IsFiniteSet(S), \A x \in S : v[x] \in Nat,
           NEW T \in SUBSET S
    PROVE  Total(v, T) <= Total(v, S)
<1>1. PICK F : F = {s \in SUBSET S : T \subseteq s /\ ~ (Total(v, T) <= Total(v, s))}
  OBVIOUS
<1>2. ASSUME ~ (Total(v, T) <= Total(v, S)) PROVE FALSE
  <2>1. S \in F /\ \A s \in F : IsFiniteSet(s)
    BY <1>1, <1>2, FS_Subset
  <2>2. PICK s \in F : \A u \in F : Cardinality(s) <= Cardinality(u)
    BY <2>1, SmallestOf
  <2>3. s \subseteq S /\ T \subseteq s /\ ~ (Total(v, T) <= Total(v, s)) /\ IsFiniteSet(s)
    BY <1>1, <2>1
  <2>4. IsFiniteSet(T) /\ \A x \in T : v[x] \in Nat
    BY <2>3, FS_Subset
  <2>5. Total(v, T) \in Nat
    BY <2>4, TotalIsNat
  <2>6. PICK x \in s : x \notin T
    BY <2>3, <2>5
  <2>7. s \ {x} \notin F
    BY <2>2, <2>3, Smaller
  <2>8. Total(v, T) <= Total(v, s \ {x})
    BY <1>1, <2>3, <2>6, <2>7
  <2>9. Total(v, s) = v[x] + Total(v, s \ {x}) /\ v[x] \in Nat
    BY <2>3, TotalTakeOut
  <2>10. IsFiniteSet(s \ {x}) /\ \A y \in s \ {x} : v[y] \in Nat
    BY <2>3, FS_Subset
  <2>11. Total(v, s \ {x}) \in Nat
    BY <2>10, TotalIsNat
  <2> QED
    BY <2>3, <2>5, <2>8, <2>9, <2>11
<1> QED
  BY <1>2

\* Of two sets the one that is no larger, and whose own elements are worth no
\* more than the other's, has the smaller sum.
LEMMA TotalExchange ==
    ASSUME NEW v, NEW A, NEW B, IsFiniteSet(A), IsFiniteSet(B),
           \A x \in A \cup B : v[x] \in Nat,
           Cardinality(A) <= Cardinality(B),
           \A a \in A \ B : \A b \in B \ A : v[a] <= v[b]
    PROVE  Total(v, A) <= Total(v, B)
<1>1. PICK F : F = {s \in SUBSET A : \E t \in SUBSET B :
                        /\ Cardinality(s) <= Cardinality(t)
                        /\ \A a \in s \ t : \A b \in t \ s : v[a] <= v[b]
                        /\ ~ (Total(v, s) <= Total(v, t))}
  OBVIOUS
<1>2. ASSUME ~ (Total(v, A) <= Total(v, B)) PROVE FALSE
  <2>1. A \in F /\ \A s \in F : IsFiniteSet(s)
    BY <1>1, <1>2, FS_Subset
  <2>2. PICK s \in F : \A u \in F : Cardinality(s) <= Cardinality(u)
    BY <2>1, SmallestOf
  <2>3. PICK t \in SUBSET B :
            /\ Cardinality(s) <= Cardinality(t)
            /\ \A a \in s \ t : \A b \in t \ s : v[a] <= v[b]
            /\ ~ (Total(v, s) <= Total(v, t))
    BY <1>1
  <2>4. s \subseteq A /\ IsFiniteSet(s) /\ IsFiniteSet(t)
    BY <1>1, <2>1, FS_Subset
  <2>5. PICK a \in s : a \notin t
    <3>1. ASSUME s \subseteq t PROVE FALSE
      <4>1. \A x \in t : v[x] \in Nat
        OBVIOUS
      <4> QED
        BY <2>3, <2>4, <3>1, <4>1, TotalOfPart
    <3> QED
      BY <3>1
  <2>6. PICK b \in t : b \notin s
    <3>1. ASSUME t \subseteq s PROVE FALSE
      <4>1. /\ Cardinality(t) <= Cardinality(s)
            /\ Cardinality(s) = Cardinality(t) => s = t
        BY <2>4, <3>1, FS_Subset
      <4>2. Cardinality(s) \in Nat /\ Cardinality(t) \in Nat
        BY <2>4, FS_CardinalityType
      <4> QED
        BY <2>3, <2>5, <4>1, <4>2
    <3> QED
      BY <3>1
  <2>7. /\ Cardinality(s \ {a}) = Cardinality(s) - 1
        /\ Cardinality(t \ {b}) = Cardinality(t) - 1
        /\ Cardinality(s) \in Nat /\ Cardinality(t) \in Nat
    BY <2>4, <2>5, <2>6, FS_RemoveElement, FS_CardinalityType
  <2>8. s \ {a} \notin F
    BY <2>2, <2>4, Smaller
  <2>9. Cardinality(s \ {a}) <= Cardinality(t \ {b})
    BY <2>3, <2>7
  <2>10. \A x \in (s \ {a}) \ (t \ {b}) : \A y \in (t \ {b}) \ (s \ {a}) : v[x] <= v[y]
    BY <2>3, <2>5, <2>6
  <2>11. Total(v, s \ {a}) <= Total(v, t \ {b})
    <3>1. s \ {a} \in SUBSET A /\ t \ {b} \in SUBSET B
      BY <2>4
    <3> QED
      BY <1>1, <2>8, <2>9, <2>10, <3>1
  <2>12. v[a] \in Nat /\ v[b] \in Nat /\ v[a] <= v[b]
    BY <2>3, <2>4, <2>5, <2>6
  <2>13. /\ Total(v, s) = v[a] + Total(v, s \ {a})
         /\ Total(v, t) = v[b] + Total(v, t \ {b})
    <3>1. /\ \A x \in s : v[x] \in Int
          /\ \A x \in t : v[x] \in Int
      BY <2>4
    <3> QED
      BY <2>4, <2>5, <2>6, <3>1, TotalTakeOut
  <2>14. Total(v, s \ {a}) \in Nat /\ Total(v, t \ {b}) \in Nat
    <3>1. /\ IsFiniteSet(s \ {a}) /\ IsFiniteSet(t \ {b})
          /\ \A x \in s \ {a} : v[x] \in Nat
          /\ \A x \in t \ {b} : v[x] \in Nat
      BY <2>4, FS_Subset
    <3> QED
      BY <3>1, TotalIsNat
  <2> QED
    BY <2>3, <2>11, <2>12, <2>13, <2>14
<1> QED
  BY <1>2
=============================================================================
