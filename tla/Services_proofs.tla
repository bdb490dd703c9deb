-------------------------- MODULE Services_proofs ---------------------------
(***************************************************************************)
(* What the program learns from the services it asks.                      *)
(*                                                                         *)
(* HttpFailover, for any number of endpoints, laps and threads, and wherever *)
(* the threads leave the pin: a read that gives up has asked every endpoint *)
(* evenly, none fails while an endpoint answers, the pauses are the granted *)
(* ones, and the pin never moves to a dead endpoint.                        *)
(*                                                                         *)
(* TxHistory, for any addresses, transactions, page size, limit and number *)
(* of attempts, at explorers whose cursors or totals tell that the list has *)
(* moved: a walk that does not call itself truncated has everything, and an *)
(* output reported as unspent was not spent.  The inductive invariant says  *)
(* what a walk under way has read, of a list that keeps changing.           *)
(*                                                                         *)
(* CowSwap, for any number of runs, order life, wait and token, for a user  *)
(* who runs the command again as the reports advise: a late approval is not *)
(* sent twice, and no approval that is still pending takes away what an      *)
(* order was approved.                                                      *)
(***************************************************************************)
EXTENDS HttpFailover, TxHistory, CowSwap, FiniteSetTheorems, WellFoundedInduction, TLAPS

-----------------------------------------------------------------------------
(* HttpFailover.                                                           *)

\* What a thread holds of its request.
Record == [stage : Stages, made : Nat, start : Hosts, lap : Nat, pos : 0..N,
           wait : Nat, host : Hosts, asked : [Hosts -> Nat],
           throttled : BOOLEAN, floor : Nat]
Typed  == pin \in Hosts /\ condition \in [Hosts -> Conditions] /\ req \in [Threads -> Record]

\* The endpoints before the one at hand were asked once more than the others,
\* in the order of the rotation, and none of them is healthy.
Rotated(q) == \A i \in Hosts :
    q.asked[Ordered(q.start, i)] = q.lap + (IF i < q.pos THEN 1 ELSE 0)
Tried(q)   == \A i \in Hosts : i < q.pos => condition[Ordered(q.start, i)] # "healthy"

\* The pause so far: what was asked for, up to the cap, over the backoff.
Granted(q) ==
    /\ q.wait >= Smaller(q.floor, MaxRetryAfter)
    /\ q.wait >= Backoff * 2 ^ q.lap
    /\ q.wait <= Larger(MaxRetryAfter, Backoff * 2 ^ q.lap)

GivesUp == {"ratelimited", "unreachable"}

\* What a request in each of its stages has behind it.
Good(q) ==
    /\ q.stage = "asking" => Rotated(q) /\ Tried(q) /\ Granted(q) /\ q.lap <= Retries
    /\ q.stage = "sleeping" => /\ \A h \in Hosts : q.asked[h] = q.lap + 1
                               /\ Granted(q) /\ q.lap < Retries
    /\ q.stage \in GivesUp => \A h \in Hosts : /\ q.asked[h] = Retries + 1
                                               /\ condition[h] # "healthy"
    /\ q.stage = "answered" => condition[q.host] # "dead"

FailoverInv == Typed /\ \A t \in Threads : Good(req[t])

\* A rotation of the endpoints passes each of them once.
LEMMA Rotation ==
    ASSUME NEW start \in Hosts
    PROVE  /\ \A i \in Hosts : Ordered(start, i) \in Hosts
           /\ \A i, j \in Hosts : Ordered(start, i) = Ordered(start, j) => i = j
           /\ \A h \in Hosts : \E i \in Hosts : Ordered(start, i) = h
<1>1. N \in Nat /\ N >= 1 /\ start \in 0..(N - 1)
  BY HttpAssumption DEF Hosts
<1>2. ASSUME NEW i \in 0..(N - 1), start + i < N PROVE Ordered(start, i) = start + i
  BY <1>1, <1>2 DEF Ordered
<1>3. ASSUME NEW i \in 0..(N - 1), start + i >= N PROVE Ordered(start, i) = start + i - N
  BY <1>1, <1>3 DEF Ordered
<1>4. \A i \in Hosts : start + i < N \/ start + i >= N
  BY <1>1 DEF Hosts
<1>5. \A i \in Hosts : Ordered(start, i) \in Hosts
  BY <1>1, <1>2, <1>3, <1>4 DEF Hosts
<1>6. \A i, j \in Hosts : Ordered(start, i) = Ordered(start, j) => i = j
  BY <1>1, <1>2, <1>3, <1>4 DEF Hosts
<1>7. ASSUME NEW h \in Hosts PROVE \E i \in Hosts : Ordered(start, i) = h
  <2>1. CASE h >= start
    <3>1. h - start \in 0..(N - 1) /\ start + (h - start) = h /\ h < N
      BY <1>1, <2>1 DEF Hosts
    <3> QED
      BY <1>2, <3>1 DEF Hosts
  <2>2. CASE h < start
    <3>1. h + N - start \in 0..(N - 1) /\ start + (h + N - start) = h + N /\ h + N >= N
      BY <1>1, <2>2 DEF Hosts
    <3>2. Ordered(start, h + N - start) = h + N - N
      BY <1>1, <1>3, <3>1
    <3>3. h + N - N = h
      BY <1>1 DEF Hosts
    <3> QED
      BY <3>1, <3>2, <3>3 DEF Hosts
  <2> QED
    BY <1>1, <2>1, <2>2 DEF Hosts
<1> QED
  BY <1>5, <1>6, <1>7

\* A power of two is a number: it counts the subsets of a set.
LEMMA PowerOfTwo ==
    ASSUME NEW k \in Nat
    PROVE  2 ^ k \in Nat
<1>1. IsFiniteSet(1..k) /\ Cardinality(1..k) = k
  BY FS_Interval
<1>2. IsFiniteSet(SUBSET (1..k)) /\ Cardinality(SUBSET (1..k)) = 2 ^ k
  BY <1>1, FS_SUBSET
<1> QED
  BY <1>2, FS_CardinalityType

\* The exponential backoff between two laps is a natural number of seconds.
LEMMA BackoffIsNat ==
    ASSUME NEW k \in Nat
    PROVE  Backoff * 2 ^ k \in Nat
<1>1. Backoff \in Nat /\ 2 ^ k \in Nat
  BY PowerOfTwo, HttpAssumption
<1> QED
  BY <1>1

\* What an endpoint asks for raises the pause, never above the cap.
LEMMA WaitStaysGranted ==
    ASSUME NEW q \in Record, Granted(q), NEW ra \in RetryAfters
    PROVE  LET wait == WaitFor(q.wait, ra)
               floor == Larger(q.floor, ra)
           IN  /\ wait \in Nat /\ floor \in Nat
               /\ wait >= Smaller(floor, MaxRetryAfter)
               /\ wait >= Backoff * 2 ^ q.lap
               /\ wait <= Larger(MaxRetryAfter, Backoff * 2 ^ q.lap)
<1>1. PICK b \in Nat : b = Backoff * 2 ^ q.lap
  BY BackoffIsNat DEF Record
<1>2. q.wait \in Nat /\ q.floor \in Nat /\ ra \in Nat /\ MaxRetryAfter \in Nat
  BY HttpAssumption DEF Record
<1>3. /\ q.wait >= Smaller(q.floor, MaxRetryAfter)
      /\ q.wait >= b /\ q.wait <= Larger(MaxRetryAfter, b)
  BY <1>1 DEF Granted
<1> QED
  BY <1>1, <1>2, <1>3 DEF WaitFor, Larger, Smaller

\* A request is begun at the pin, and has asked nobody.
LEMMA BeginsGood ==
    ASSUME Typed, NEW q \in Record
    PROVE  LET new == [stage |-> "asking", made |-> q.made + 1, start |-> pin, lap |-> 0,
                       pos |-> 0, wait |-> Backoff, host |-> 0,
                       asked |-> [h \in Hosts |-> 0],
                       throttled |-> FALSE, floor |-> 0]
           IN  new \in Record /\ Good(new)
<1> DEFINE new == [stage |-> "asking", made |-> q.made + 1, start |-> pin, lap |-> 0,
                   pos |-> 0, wait |-> Backoff, host |-> 0,
                   asked |-> [h \in Hosts |-> 0],
                   throttled |-> FALSE, floor |-> 0]
<1>1. Backoff \in Nat /\ N \in Nat \ {0} /\ MaxRetryAfter \in Nat /\ Retries \in Nat
  BY HttpAssumption
<1>2. pin \in Hosts /\ 0 \in Hosts /\ 0 \in 0..N /\ q.made + 1 \in Nat
  BY <1>1 DEF Typed, Hosts, Record
<1>3. new \in Record
  BY <1>1, <1>2 DEF Record, Stages
<1>4. Rotated(new)
  <2>1. \A i \in Hosts : Ordered(pin, i) \in Hosts
    BY <1>2, Rotation
  <2>2. \A i \in Hosts : ~ (i < 0)
    BY <1>1 DEF Hosts
  <2> QED
    BY <2>1, <2>2 DEF Rotated
<1>5. Tried(new)
  BY <1>1 DEF Tried, Hosts
<1>6. Granted(new)
  <2>1. Backoff * 2 ^ 0 = Backoff
    BY <1>1
  <2> QED
    BY <1>1, <2>1 DEF Granted, Smaller, Larger
<1> QED
  BY <1>1, <1>3, <1>4, <1>5, <1>6 DEF Good, GivesUp

\* An endpoint that stalls or throttles moves the request to the next one.
LEMMA NextHostGood ==
    ASSUME Typed, NEW q \in Record, Good(q), q.stage = "asking", q.pos < N,
           condition[Ordered(q.start, q.pos)] # "healthy",
           NEW new \in Record, Granted(new),
           new.stage = "asking", new.start = q.start, new.lap = q.lap,
           new.pos = q.pos + 1,
           new.asked = [q.asked EXCEPT ![Ordered(q.start, q.pos)] = @ + 1]
    PROVE  Good(new)
<1>1. q.start \in Hosts /\ q.lap \in Nat /\ q.asked \in [Hosts -> Nat]
  BY DEF Record
<1>2. q.pos \in Hosts /\ N \in Nat
  BY HttpAssumption DEF Record, Hosts
<1>3. Rotated(q) /\ Tried(q) /\ q.lap <= Retries
  BY DEF Good
<1>4. Rotated(new)
  <2> SUFFICES ASSUME NEW i \in Hosts
               PROVE  new.asked[Ordered(q.start, i)]
                          = q.lap + (IF i < q.pos + 1 THEN 1 ELSE 0)
    BY DEF Rotated
  <2>1. Ordered(q.start, i) \in Hosts
    BY <1>1, Rotation
  <2>2. q.asked[Ordered(q.start, i)] = q.lap + (IF i < q.pos THEN 1 ELSE 0)
    BY <1>3 DEF Rotated
  <2>3. CASE i = q.pos
    <3>1. new.asked[Ordered(q.start, i)] = q.asked[Ordered(q.start, i)] + 1
      BY <1>1, <2>1, <2>3
    <3> QED
      BY <1>1, <1>2, <2>2, <2>3, <3>1 DEF Hosts
  <2>4. CASE i # q.pos
    <3>1. Ordered(q.start, i) # Ordered(q.start, q.pos)
      <4>1. \A j, k \in Hosts : Ordered(q.start, j) = Ordered(q.start, k) => j = k
        BY <1>1, Rotation
      <4> QED
        BY <1>2, <2>4, <4>1
    <3>2. new.asked[Ordered(q.start, i)] = q.asked[Ordered(q.start, i)]
      BY <1>1, <2>1, <3>1
    <3> QED
      BY <1>1, <1>2, <2>2, <2>4, <3>2 DEF Hosts
  <2> QED
    BY <2>3, <2>4
<1>5. Tried(new)
  BY <1>2, <1>3 DEF Tried, Hosts
<1> QED
  BY <1>3, <1>4, <1>5 DEF Good, GivesUp

\* After a lap every endpoint was asked as often, and none is healthy.
LEMMA LapIsEven ==
    ASSUME NEW q \in Record, Good(q), q.stage = "asking", q.pos = N,
           NEW h \in Hosts
    PROVE  q.asked[h] = q.lap + 1 /\ condition[h] # "healthy"
<1>1. q.start \in Hosts
  BY DEF Record
<1>2. PICK i \in Hosts : Ordered(q.start, i) = h
  BY <1>1, Rotation
<1>3. i < q.pos
  BY HttpAssumption DEF Hosts
<1> QED
  BY <1>2, <1>3 DEF Good, Rotated, Tried

-----------------------------------------------------------------------------
\* Before the first request every worker is idle and nothing has been asked.
LEMMA InitFailoverInv == Init => FailoverInv
<1> SUFFICES ASSUME Init PROVE FailoverInv
  OBVIOUS
<1>1. 0 \in Hosts /\ 0 \in 0..N
  BY HttpAssumption DEF Hosts
<1>2. Typed
  BY <1>1 DEF Init, Typed, Record, Stages
<1>3. \A t \in Threads : req[t].stage = "idle"
  BY DEF Init
<1> QED
  BY <1>2, <1>3 DEF FailoverInv, Good, GivesUp

\* One more ask of an endpoint is counted.
LEMMA AskedOnce ==
    ASSUME NEW q \in Record, NEW h \in Hosts
    PROVE  [q.asked EXCEPT ![h] = @ + 1] \in [Hosts -> Nat]
<1>1. q.asked \in [Hosts -> Nat]
  BY DEF Record
<1> QED
  BY <1>1

\* One request moves to a good record, and the endpoints do as they did.
LEMMA RequestMoves ==
    ASSUME FailoverInv, NEW t \in Threads, NEW new \in Record, Good(new),
           req' = [req EXCEPT ![t] = new], condition' = condition, pin' \in Hosts
    PROVE  FailoverInv'
<1>1. Typed'
  BY DEF FailoverInv, Typed
<1>2. \A u \in Threads : Good(req'[u])
  BY DEF FailoverInv, Typed
<1>3. ASSUME NEW q, Good(q) PROVE Good(q)'
  BY <1>3 DEF Good, Rotated, Tried, Granted, GivesUp
<1>4. ASSUME NEW u \in Threads PROVE Good(req[u])'
  <2>1. PICK q : q = req'[u]
    OBVIOUS
  <2>2. Good(q)'
    BY <1>2, <1>3, <2>1
  <2> QED
    BY <2>1, <2>2 DEF Good, Rotated, Tried, Granted
<1> QED
  BY <1>1, <1>4 DEF FailoverInv

\* Every step of a thread leaves a good request, and a pin that is an endpoint.
LEMMA NextFailoverInv == FailoverInv /\ [Next]_vars => FailoverInv'
<1> SUFFICES ASSUME FailoverInv, [Next]_vars PROVE FailoverInv'
  OBVIOUS
<1>1. ASSUME NEW t \in Threads
      PROVE  req[t] \in Record /\ Good(req[t]) /\ req \in [Threads -> Record]
  BY DEF FailoverInv, Typed
<1>2. pin \in Hosts /\ Typed
  BY DEF FailoverInv, Typed
<1>3. ASSUME NEW t \in Threads, Begin(t) PROVE FailoverInv'
  <2> DEFINE new == [stage |-> "asking", made |-> req[t].made + 1, start |-> pin, lap |-> 0,
                     pos |-> 0, wait |-> Backoff, host |-> 0,
                     asked |-> [h \in Hosts |-> 0],
                     throttled |-> FALSE, floor |-> 0]
  <2>1. new \in Record /\ Good(new)
    BY <1>1, <1>2, BeginsGood
  <2>2. req' = [req EXCEPT ![t] = new] /\ condition' = condition /\ pin' = pin
    BY <1>3 DEF Begin
  <2> HIDE DEF new
  <2> QED
    BY <1>2, <2>1, <2>2, RequestMoves
<1>4. ASSUME NEW t \in Threads, Answer(t) PROVE FailoverInv'
  <2>1. PICK q \in Record : q = req[t] /\ Good(q)
    BY <1>1
  <2>2. PICK h \in Hosts : h = Here(t)
    <3>1. req[t].pos < N
      BY <1>4 DEF Answer
    <3>2. q.pos < N
      BY <2>1, <3>1
    <3>3. q.start \in Hosts /\ q.pos \in Hosts
      BY <2>1, <3>2, HttpAssumption DEF Record, Hosts
    <3> QED
      BY <2>1, <3>3, Rotation DEF Here
  <2>a. PICK asked \in [Hosts -> Nat] : asked = [q.asked EXCEPT ![h] = @ + 1]
    BY AskedOnce
  <2> DEFINE new == [q EXCEPT !.stage = "answered", !.host = h, !.asked = asked]
  <2>3. new \in Record /\ new.stage = "answered" /\ new.host = h
    BY DEF Record, Stages
  <2>4. condition[h] # "dead" /\ condition' = condition /\ pin' = pin
    BY <1>4, <2>2 DEF Answer
  <2>5. req' = [req EXCEPT ![t] = new]
    <3>1. req' = [req EXCEPT ![t].stage = "answered", ![t].host = h,
                             ![t].asked[h] = @ + 1]
      BY <1>4, <2>2 DEF Answer
    <3> QED
      BY <2>1, <2>a, <3>1
  <2> HIDE DEF new
  <2>6. Good(new)
    BY <2>3, <2>4 DEF Good, GivesUp
  <2> QED
    BY <1>2, <2>3, <2>4, <2>5, <2>6, RequestMoves
<1>5. ASSUME NEW t \in Threads, Stall(t) \/ Throttle(t) PROVE FailoverInv'
  <2>1. PICK q \in Record : q = req[t] /\ Good(q)
    BY <1>1
  <2>2. /\ q.stage = "asking" /\ q.pos < N /\ condition[Here(t)] # "healthy"
        /\ condition' = condition /\ pin' = pin
    BY <1>5, <2>1 DEF Stall, Throttle
  <2>3. PICK h \in Hosts : h = Ordered(q.start, q.pos) /\ h = Here(t)
    <3>1. q.start \in Hosts /\ q.pos \in 0..N /\ q.pos < N /\ N \in Nat
      BY <2>1, <2>2, HttpAssumption DEF Record
    <3>2. q.pos \in Hosts
      BY <3>1 DEF Hosts
    <3> QED
      BY <2>1, <3>1, <3>2, Rotation DEF Here
  <2>4. q.pos + 1 \in 0..N /\ Granted(q) /\ q.asked \in [Hosts -> Nat]
    BY <2>1, <2>2, HttpAssumption DEF Record, Good
  <2>a. PICK asked \in [Hosts -> Nat] : asked = [q.asked EXCEPT ![h] = @ + 1]
    BY AskedOnce
  <2>p. PICK pos \in 0..N : pos = q.pos + 1
    BY <2>4
  <2>5. CASE Stall(t)
    <3> DEFINE new == [q EXCEPT !.pos = pos, !.asked = asked]
    <3>1. /\ new \in Record /\ new.stage = q.stage /\ new.start = q.start
          /\ new.lap = q.lap /\ new.pos = pos /\ new.wait = q.wait
          /\ new.floor = q.floor /\ new.asked = asked
      BY DEF Record
    <3>2. req' = [req EXCEPT ![t] = new]
      <4>1. req' = [req EXCEPT ![t].pos = @ + 1, ![t].asked[h] = @ + 1]
        BY <2>3, <2>5 DEF Stall
      <4> QED
        BY <2>1, <2>a, <2>p, <4>1
    <3> HIDE DEF new
    <3>3. Granted(new)
      BY <2>4, <3>1 DEF Granted
    <3>4. Good(new)
      <4>1. new.asked = [q.asked EXCEPT ![Ordered(q.start, q.pos)] = @ + 1]
        BY <2>3, <2>a, <3>1
      <4>2. new.pos = q.pos + 1 /\ new.stage = "asking"
        BY <2>2, <2>p, <3>1
      <4>3. condition[Ordered(q.start, q.pos)] # "healthy"
        BY <2>2, <2>3
      <4> QED
        BY <1>2, <2>1, <2>2, <3>1, <3>3, <4>1, <4>2, <4>3, NextHostGood
    <3> QED
      BY <1>2, <2>2, <3>1, <3>2, <3>4, RequestMoves
  <2>6. CASE Throttle(t)
    <3>1. PICK ra \in RetryAfters :
              req' = [req EXCEPT ![t] =
                  [req[t] EXCEPT !.pos = @ + 1, !.asked[Here(t)] = @ + 1,
                            !.throttled = TRUE,
                            !.wait = WaitFor(@, ra), !.floor = Larger(@, ra)]]
      BY <2>6 DEF Throttle
    <3>2. PICK wait, floor : wait = WaitFor(q.wait, ra) /\ floor = Larger(q.floor, ra)
      OBVIOUS
    <3>3. /\ wait \in Nat /\ floor \in Nat
          /\ wait >= Smaller(floor, MaxRetryAfter)
          /\ wait >= Backoff * 2 ^ q.lap
          /\ wait <= Larger(MaxRetryAfter, Backoff * 2 ^ q.lap)
      BY <2>4, <3>2, WaitStaysGranted
    <3> DEFINE new == [q EXCEPT !.pos = pos, !.asked = asked, !.throttled = TRUE,
                                !.wait = wait, !.floor = floor]
    <3>4. new \in Record
      BY <3>3 DEF Record
    <3>d. /\ new.stage = q.stage /\ new.start = q.start
          /\ new.lap = q.lap /\ new.pos = pos /\ new.wait = wait
          /\ new.floor = floor /\ new.asked = asked
      BY DEF Record
    <3>5. req' = [req EXCEPT ![t] = new]
      <4>1. new = [req[t] EXCEPT !.pos = @ + 1, !.asked[Here(t)] = @ + 1,
                                 !.throttled = TRUE,
                                 !.wait = WaitFor(@, ra), !.floor = Larger(@, ra)]
        <5>1. q = req[t] /\ h = Here(t) /\ pos = q.pos + 1
              /\ asked = [q.asked EXCEPT ![h] = @ + 1]
              /\ wait = WaitFor(q.wait, ra) /\ floor = Larger(q.floor, ra)
          BY <2>1, <2>3, <2>a, <2>p, <3>2
        <5>2. [q EXCEPT !.pos = pos, !.asked = asked]
                  = [q EXCEPT !.pos = @ + 1, !.asked[h] = @ + 1]
          BY <5>1 DEF Record
        <5>3. [q EXCEPT !.pos = pos, !.asked = asked, !.throttled = TRUE,
                        !.wait = wait, !.floor = floor]
                  = [q EXCEPT !.pos = @ + 1, !.asked[h] = @ + 1, !.throttled = TRUE,
                              !.wait = WaitFor(@, ra), !.floor = Larger(@, ra)]
          BY <5>1, <5>2, Zenon
        <5> QED
          BY <5>1, <5>3
      <4> HIDE DEF new
      <4> QED
        BY <3>1, <4>1
    <3> HIDE DEF new
    <3>6. Granted(new)
      BY <3>3, <3>d DEF Granted
    <3>7. Good(new)
      <4>1. new.asked = [q.asked EXCEPT ![Ordered(q.start, q.pos)] = @ + 1]
        BY <2>3, <2>a, <3>d
      <4>2. new.pos = q.pos + 1 /\ new.stage = "asking"
        BY <2>2, <2>p, <3>d
      <4>3. condition[Ordered(q.start, q.pos)] # "healthy"
        BY <2>2, <2>3
      <4> QED
        BY <1>2, <2>1, <2>2, <3>4, <3>d, <3>6, <4>1, <4>2, <4>3, NextHostGood
    <3> QED
      BY <1>2, <2>2, <3>4, <3>5, <3>7, RequestMoves
  <2> QED
    BY <1>5, <2>5, <2>6
<1>6. ASSUME NEW t \in Threads, EndLap(t) PROVE FailoverInv'
  <2>1. PICK q \in Record : q = req[t] /\ Good(q)
    BY <1>1
  <2>2. PICK s \in {"sleeping", "ratelimited", "unreachable"} :
            /\ req' = [req EXCEPT ![t].stage = s]
            /\ s = "sleeping" <=> q.lap < Retries
    BY <1>6, <2>1 DEF EndLap
  <2>3. q.stage = "asking" /\ q.pos = N /\ condition' = condition /\ pin' = pin
    BY <1>6, <2>1 DEF EndLap
  <2>4. \A h \in Hosts : q.asked[h] = q.lap + 1 /\ condition[h] # "healthy"
    BY <2>1, <2>3, LapIsEven
  <2>5. Granted(q) /\ q.lap <= Retries /\ q.lap \in Nat
    BY <2>1, <2>3 DEF Good, Record
  <2> DEFINE new == [q EXCEPT !.stage = s]
  <2>6. /\ new \in Record /\ new.stage = s /\ new.lap = q.lap /\ new.wait = q.wait
        /\ new.floor = q.floor /\ new.asked = q.asked
    BY DEF Record, Stages
  <2>7. req' = [req EXCEPT ![t] = new]
    BY <2>1, <2>2
  <2> HIDE DEF new
  <2>8. Granted(new)
    BY <2>5, <2>6 DEF Granted
  <2>9. Good(new)
    <3>1. CASE s = "sleeping"
      BY <2>2, <2>4, <2>5, <2>6, <2>8, <3>1 DEF Good, GivesUp
    <3>2. CASE s \in GivesUp
      <4>1. q.lap = Retries
        BY <2>2, <2>5, <3>2, HttpAssumption DEF GivesUp
      <4> QED
        BY <2>4, <2>6, <3>2, <4>1 DEF Good, GivesUp
    <3> QED
      BY <3>1, <3>2 DEF GivesUp
  <2> QED
    BY <1>2, <2>3, <2>6, <2>7, <2>9, RequestMoves
<1>7. ASSUME NEW t \in Threads, Wake(t) PROVE FailoverInv'
  <2>1. PICK q \in Record : q = req[t] /\ Good(q)
    BY <1>1
  <2>2. q.stage = "sleeping" /\ condition' = condition /\ pin' = pin
    BY <1>7, <2>1 DEF Wake
  <2>3. q.lap \in Nat /\ q.lap + 1 \in Nat /\ q.lap < Retries /\ Retries \in Nat
        /\ \A h \in Hosts : q.asked[h] = q.lap + 1
    BY <2>1, <2>2, HttpAssumption DEF Good, Record
  <2>4. PICK b \in Nat : b = Backoff * 2 ^ (q.lap + 1)
    BY <2>3, BackoffIsNat
  <2>l. PICK lap \in Nat : lap = q.lap + 1
    BY <2>3
  <2> DEFINE new == [q EXCEPT !.stage = "asking", !.lap = lap, !.pos = 0,
                              !.wait = b, !.floor = 0]
  <2>n. new \in Record
    <3>1. 0 \in 0..N
      BY HttpAssumption
    <3> QED
      BY <3>1 DEF Record, Stages
  <2>5. /\ new.stage = "asking" /\ new.lap = lap /\ new.pos = 0
        /\ new.wait = b /\ new.floor = 0 /\ new.asked = q.asked /\ new.start = q.start
    BY DEF Record
  <2>6. req' = [req EXCEPT ![t] = new]
    BY <1>7, <2>1, <2>4, <2>l DEF Wake
  <2> HIDE DEF new
  <2>7. Granted(new)
    <3>1. MaxRetryAfter \in Nat
      BY HttpAssumption
    <3> QED
      BY <2>4, <2>5, <2>l, <3>1 DEF Granted, Smaller, Larger
  <2>8. Rotated(new) /\ Tried(new)
    <3>1. q.start \in Hosts /\ \A i \in Hosts : ~ (i < 0)
      BY HttpAssumption DEF Record, Hosts
    <3>2. \A i \in Hosts : Ordered(q.start, i) \in Hosts
      BY <3>1, Rotation
    <3> QED
      BY <2>3, <2>5, <2>l, <3>1, <3>2 DEF Rotated, Tried
  <2>9. Good(new)
    BY <2>3, <2>5, <2>l, <2>7, <2>8 DEF Good, GivesUp
  <2> QED
    BY <1>2, <2>2, <2>n, <2>6, <2>9, RequestMoves
<1>8. ASSUME NEW t \in Threads, Pin(t) PROVE FailoverInv'
  <2>1. PICK q \in Record : q = req[t]
    BY <1>1
  <2>2. pin' = q.host /\ q.host \in Hosts /\ condition' = condition
    BY <1>8, <2>1 DEF Pin, Record
  <2> DEFINE new == [q EXCEPT !.stage = "served"]
  <2>3. new \in Record /\ new.stage = "served"
    BY DEF Record, Stages
  <2>4. req' = [req EXCEPT ![t] = new]
    BY <1>8, <2>1 DEF Pin
  <2> HIDE DEF new
  <2>5. Good(new)
    BY <2>3 DEF Good, GivesUp
  <2> QED
    BY <2>2, <2>3, <2>4, <2>5, RequestMoves
<1>9. CASE UNCHANGED vars
  BY <1>9 DEF vars, FailoverInv, Typed, Good, Rotated, Tried, Granted
<1> QED
  BY <1>3, <1>4, <1>5, <1>6, <1>7, <1>8, <1>9 DEF Next, Step

\* A read that gives up has asked every endpoint once a lap, retries + 1 times,
\* wherever the pin of the shared client made its rotation start.
THEOREM AlwaysAskedEvenly == Spec => []AskedEvenly
<1>1. FailoverInv => AskedEvenly
  BY DEF FailoverInv, Good, GivesUp, AskedEvenly
<1> QED
  BY <1>1, InitFailoverInv, NextFailoverInv, PTL DEF Spec

\* No read fails while one endpoint answers: its first lap gets there.
THEOREM OneHealthySuffices == Spec => []OneHealthyIsEnough
<1>1. FailoverInv => OneHealthyIsEnough
  BY DEF FailoverInv, Good, GivesUp, OneHealthyIsEnough
<1> QED
  BY <1>1, InitFailoverInv, NextFailoverInv, PTL DEF Spec

\* The pause at the end of a lap is at least the backoff, doubled every lap, and
\* at least what any endpoint asked for in it, up to the cap; it is no longer
\* than the larger of the backoff and the cap.
THEOREM PauseAlwaysGranted == Spec => []PauseIsGranted
<1>1. FailoverInv => PauseIsGranted
  BY DEF FailoverInv, Good, Granted, PauseIsGranted
<1> QED
  BY <1>1, InitFailoverInv, NextFailoverInv, PTL DEF Spec

\* However the threads of a scan race for the pin, it moves only to an endpoint
\* that answered, so never to a dead one.
THEOREM DeadHostsLeftBehind == Spec => DeadHostLeftBehind
<1>1. ASSUME FailoverInv, [Next]_vars PROVE pin' # pin => condition[pin'] # "dead"
  <2> SUFFICES ASSUME pin' # pin PROVE condition[pin'] # "dead"
    OBVIOUS
  <2>1. PICK t \in Threads : Pin(t)
    BY <1>1 DEF Next, Step, Begin, Answer, Stall, Throttle, EndLap, Wake, vars
  <2>2. Good(req[t]) /\ req[t].stage = "answered" /\ pin' = req[t].host
    BY <1>1, <2>1 DEF FailoverInv, Pin
  <2> QED
    BY <2>2 DEF Good
<1>2. FailoverInv /\ [Next]_vars => [pin' # pin => condition[pin'] # "dead"]_vars
  BY <1>1
<1> QED
  BY <1>2, InitFailoverInv, NextFailoverInv, PTL DEF Spec, DeadHostLeftBehind

-----------------------------------------------------------------------------
(* TxHistory.                                                              *)

\* What holds of zero, and of every number's successor up to a top, holds up
\* to the top.
LEMMA UpTo ==
    ASSUME NEW top \in Nat, NEW good, 0 \in good,
           \A n \in 0..top : n # top /\ n \in good => n + 1 \in good
    PROVE  \A n \in 0..top : n \in good
<1>1. PICK bad : bad = {n \in 0..top : n \notin good}
  OBVIOUS
<1>2. ASSUME bad # {} PROVE FALSE
  <2>1. bad \subseteq Nat
    BY <1>1
  <2>2. \E n \in bad : \A m \in bad : ~ (<<m, n>> \in OpToRel(<, Nat))
    BY <1>2, <2>1, NatLessThanWellFounded, WFMin
  <2>3. PICK n \in bad : \A m \in bad : ~ (<<m, n>> \in OpToRel(<, Nat))
    BY <2>2
  <2>4. n \in 0..top /\ n \notin good /\ n # 0 /\ n \in Nat
    BY <1>1
  <2>5. n - 1 \in Nat /\ n - 1 \in 0..top /\ n - 1 # top /\ (n - 1) + 1 = n /\ n - 1 < n
    BY <2>4
  <2>6. n - 1 \notin bad
    BY <2>1, <2>3, <2>4, <2>5 DEF OpToRel
  <2> QED
    BY <1>1, <2>4, <2>5, <2>6
<1> QED
  BY <1>1, <1>2

\* The recursive function that Only chooses, up to a position of the list.
Filters(txs, set, n, f) ==
    f = [i \in 0..n |-> IF i = 0 THEN << >>
                        ELSE IF txs[i] \in set THEN Append(f[i - 1], txs[i])
                        ELSE f[i - 1]]

\* What Only chooses, without its LET.
LEMMA OnlyIsChosen ==
    ASSUME NEW txs, NEW set
    PROVE  Only(txs, set) = (CHOOSE f : Filters(txs, set, Len(txs), f))[Len(txs)]
BY DEF Only, Filters

\* Such a function exists.
LEMMA FilterExists ==
    ASSUME NEW T, NEW txs \in Seq(T), NEW set
    PROVE  \E f : Filters(txs, set, Len(txs), f)
<1>1. PICK good : good = {n \in 0..Len(txs) : \E f : Filters(txs, set, n, f)}
  OBVIOUS
<1>2. Len(txs) \in Nat
  OBVIOUS
<1>3. 0 \in good
  <2>1. PICK f : f = [i \in 0..0 |-> << >>]
    OBVIOUS
  <2>2. f = [i \in 0..0 |-> IF i = 0 THEN << >>
                        ELSE IF txs[i] \in set THEN Append(f[i - 1], txs[i])
                        ELSE f[i - 1]]
    BY <2>1
  <2> QED
    BY <1>1, <1>2, <2>2 DEF Filters
<1>4. ASSUME NEW n \in 0..Len(txs), n # Len(txs), n \in good PROVE n + 1 \in good
  <2>1. PICK f : Filters(txs, set, n, f)
    BY <1>1, <1>4
  <2>2. PICK g : g = [i \in 0..(n + 1) |->
                         IF i = n + 1
                         THEN IF txs[i] \in set THEN Append(f[n], txs[i]) ELSE f[n]
                         ELSE f[i]]
    OBVIOUS
  <2>3. ASSUME NEW i \in 0..(n + 1)
        PROVE  g[i] = IF i = 0 THEN << >>
                      ELSE IF txs[i] \in set THEN Append(g[i - 1], txs[i])
                      ELSE g[i - 1]
    <3>1. CASE i = n + 1
      <4>1. i # 0 /\ i - 1 = n /\ n \in 0..(n + 1) /\ n # n + 1
        BY <1>2, <3>1
      <4>2. g[n] = f[n]
        BY <2>2, <4>1
      <4> QED
        BY <2>2, <3>1, <4>1, <4>2
    <3>2. CASE i # n + 1
      <4>1. i \in 0..n
        BY <1>2, <3>2
      <4>2. f[i] = IF i = 0 THEN << >>
                   ELSE IF txs[i] \in set THEN Append(f[i - 1], txs[i])
                   ELSE f[i - 1]
        BY <2>1, <4>1 DEF Filters
      <4>3. g[i] = f[i]
        BY <2>2, <3>2
      <4>4. i # 0 => i - 1 \in 0..(n + 1) /\ i - 1 # n + 1
        BY <1>2, <4>1
      <4>5. i # 0 => g[i - 1] = f[i - 1]
        BY <2>2, <4>4
      <4> QED
        BY <4>2, <4>3, <4>5
    <3> QED
      BY <3>1, <3>2
  <2>4. g = [i \in 0..(n + 1) |-> g[i]]
    BY <2>2
  <2>5. Filters(txs, set, n + 1, g)
    BY <2>3, <2>4 DEF Filters
  <2> QED
    BY <1>1, <1>2, <1>4, <2>5
<1>5. \A n \in 0..Len(txs) : n # Len(txs) /\ n \in good => n + 1 \in good
  BY <1>4
<1>6. \A n \in 0..Len(txs) : n \in good
  BY <1>2, <1>3, <1>5, UpTo
<1>7. Len(txs) \in 0..Len(txs)
  BY <1>2
<1> QED
  BY <1>1, <1>6, <1>7

\* Only, one position after another.
LEMMA OnlyByStep ==
    ASSUME NEW T, NEW txs \in Seq(T), NEW set
    PROVE  \E f : /\ f[0] = << >>
                  /\ \A n \in 0..Len(txs) : n # Len(txs) =>
                         f[n + 1] = IF txs[n + 1] \in set THEN Append(f[n], txs[n + 1])
                                    ELSE f[n]
                  /\ Only(txs, set) = f[Len(txs)]
<1>1. PICK f : f = CHOOSE g : Filters(txs, set, Len(txs), g)
  OBVIOUS
<1>2. Filters(txs, set, Len(txs), f)
  BY <1>1, FilterExists
<1>3. Len(txs) \in Nat
  OBVIOUS
<1>4. f[0] = << >>
  BY <1>2, <1>3 DEF Filters
<1>5. ASSUME NEW n \in 0..Len(txs), n # Len(txs)
      PROVE  f[n + 1] = IF txs[n + 1] \in set THEN Append(f[n], txs[n + 1]) ELSE f[n]
  <2>1. n + 1 \in 0..Len(txs) /\ n + 1 # 0 /\ (n + 1) - 1 = n
    BY <1>3, <1>5
  <2>2. PICK i \in 0..Len(txs) : i = n + 1
    BY <2>1
  <2>3. f[i] = IF i = 0 THEN << >>
               ELSE IF txs[i] \in set THEN Append(f[i - 1], txs[i])
               ELSE f[i - 1]
    BY <1>2 DEF Filters
  <2> QED
    BY <2>1, <2>2, <2>3
<1> QED
  BY <1>1, <1>4, <1>5, OnlyIsChosen

\* What Only keeps of a list: the elements that are in the set, each as often.
LEMMA OnlyOf ==
    ASSUME NEW T, NEW txs \in Seq(T), NEW set
    PROVE  /\ Only(txs, set) \in Seq(T)
           /\ ToSet(Only(txs, set)) = ToSet(txs) \cap set
           /\ IsInjective(txs) => IsInjective(Only(txs, set))
<1>1. PICK f : /\ f[0] = << >>
               /\ \A n \in 0..Len(txs) : n # Len(txs) =>
                      f[n + 1] = IF txs[n + 1] \in set THEN Append(f[n], txs[n + 1])
                                 ELSE f[n]
               /\ Only(txs, set) = f[Len(txs)]
  BY OnlyByStep
<1>2. Len(txs) \in Nat
  OBVIOUS
<1>3. PICK good : good = {n \in 0..Len(txs) :
                             /\ f[n] \in Seq(T)
                             /\ ToSet(f[n]) = {txs[i] : i \in 1..n} \cap set
                             /\ IsInjective(txs) => IsInjective(f[n])}
  OBVIOUS
<1>4. 0 \in good
  <2>1. f[0] \in Seq(T) /\ DOMAIN f[0] = {} /\ 1..0 = {} /\ 0 \in 0..Len(txs)
    BY <1>1, <1>2
  <2>2. ToSet(f[0]) = {txs[i] : i \in 1..0} \cap set
    BY <2>1 DEF ToSet
  <2>3. IsInjective(f[0])
    BY <2>1 DEF IsInjective
  <2> QED
    BY <1>3, <2>1, <2>2, <2>3
<1>5. ASSUME NEW n \in 0..Len(txs), n # Len(txs), n \in good PROVE n + 1 \in good
  <2>1. /\ n + 1 \in 0..Len(txs) /\ n + 1 \in DOMAIN txs /\ n + 1 \notin 1..n
        /\ 1..(n + 1) = 1..n \cup {n + 1} /\ 1..n \subseteq DOMAIN txs /\ txs[n + 1] \in T
    BY <1>2, <1>5
  <2>2. /\ f[n] \in Seq(T)
        /\ ToSet(f[n]) = {txs[i] : i \in 1..n} \cap set
        /\ IsInjective(txs) => IsInjective(f[n])
    BY <1>3, <1>5
  <2>3. f[n + 1] = IF txs[n + 1] \in set THEN Append(f[n], txs[n + 1]) ELSE f[n]
    BY <1>1, <1>5
  <2>4. {txs[i] : i \in 1..(n + 1)} = {txs[i] : i \in 1..n} \cup {txs[n + 1]}
    BY <2>1
  <2>5. CASE txs[n + 1] \notin set
    BY <1>3, <2>1, <2>2, <2>3, <2>4, <2>5
  <2>6. CASE txs[n + 1] \in set
    <3>1. PICK s : s = f[n]
      OBVIOUS
    <3>2. /\ Append(s, txs[n + 1]) \in Seq(T)
          /\ Len(Append(s, txs[n + 1])) = Len(s) + 1
          /\ DOMAIN Append(s, txs[n + 1]) = DOMAIN s \cup {Len(s) + 1}
          /\ \A i \in DOMAIN s : Append(s, txs[n + 1])[i] = s[i]
          /\ Append(s, txs[n + 1])[Len(s) + 1] = txs[n + 1]
          /\ Len(s) + 1 \notin DOMAIN s
      BY <2>1, <2>2, <3>1
    <3>3. ToSet(Append(s, txs[n + 1])) = ToSet(s) \cup {txs[n + 1]}
      BY <3>2 DEF ToSet
    <3>4. IsInjective(txs) => IsInjective(Append(s, txs[n + 1]))
      <4> HAVE IsInjective(txs)
      <4>1. txs[n + 1] \notin {txs[i] : i \in 1..n}
        BY <2>1 DEF IsInjective
      <4>2. txs[n + 1] \notin ToSet(s) /\ IsInjective(s)
        BY <2>2, <3>1, <4>1
      <4> QED
        BY <3>2, <4>2 DEF IsInjective, ToSet
    <3>5. f[n + 1] = Append(s, txs[n + 1])
      BY <2>3, <2>6, <3>1
    <3>6. ToSet(f[n + 1]) = {txs[i] : i \in 1..(n + 1)} \cap set
      BY <2>2, <2>4, <2>6, <3>1, <3>3, <3>5
    <3>7. f[n + 1] \in Seq(T) /\ (IsInjective(txs) => IsInjective(f[n + 1]))
      BY <3>2, <3>4, <3>5
    <3> QED
      BY <1>3, <2>1, <3>6, <3>7
  <2> QED
    BY <2>5, <2>6
<1>6. \A n \in 0..Len(txs) : n # Len(txs) /\ n \in good => n + 1 \in good
  BY <1>5
<1>7. \A n \in 0..Len(txs) : n \in good
  BY <1>2, <1>4, <1>6, UpTo
<1>8. Len(txs) \in good
  BY <1>2, <1>7
<1>9. ToSet(txs) = {txs[i] : i \in 1..Len(txs)}
  BY DEF ToSet
<1> QED
  BY <1>1, <1>3, <1>8, <1>9

\* The empty list has nothing to keep.
LEMMA OnlyOfNone == ASSUME NEW set PROVE Only(<< >>, set) = << >>
<1>1. << >> \in Seq(Txs)
  OBVIOUS
<1>2. PICK none : none = << >>
  OBVIOUS
<1>3. none \in Seq(Txs)
  BY <1>1, <1>2
<1>4. PICK kept : kept = Only(none, set)
  OBVIOUS
<1>5. kept \in Seq(Txs) /\ ToSet(kept) = ToSet(none) \cap set
  BY <1>4, <1>3, OnlyOf
<1>6. Len(kept) \in Nat /\ (Len(kept) # 0 => 1 \in DOMAIN kept /\ kept[1] \in ToSet(kept))
  BY <1>5 DEF ToSet
<1>7. ToSet(none) = {}
  BY <1>2 DEF ToSet
<1>8. Len(kept) = 0
  BY <1>5, <1>6, <1>7
<1> QED
  BY <1>2, <1>4, <1>5, <1>8

\* Only of a list that is longer by one.
LEMMA OnlyAppend ==
    ASSUME NEW T, NEW txs \in Seq(T), NEW t \in T, NEW set
    PROVE  Only(Append(txs, t), set) =
               IF t \in set THEN Append(Only(txs, set), t) ELSE Only(txs, set)
<1>1. PICK f : /\ f[0] = << >>
               /\ \A n \in 0..Len(txs) : n # Len(txs) =>
                      f[n + 1] = IF txs[n + 1] \in set THEN Append(f[n], txs[n + 1])
                                 ELSE f[n]
               /\ Only(txs, set) = f[Len(txs)]
  BY OnlyByStep
<1>2. PICK all : all = Append(txs, t)
  OBVIOUS
<1>3. /\ all \in Seq(T) /\ Len(txs) \in Nat /\ Len(all) = Len(txs) + 1
      /\ all[Len(txs) + 1] = t
      /\ \A n \in 0..Len(txs) : n # Len(txs) => all[n + 1] = txs[n + 1]
  BY <1>2
<1>4. PICK g : /\ g[0] = << >>
               /\ \A n \in 0..Len(all) : n # Len(all) =>
                      g[n + 1] = IF all[n + 1] \in set THEN Append(g[n], all[n + 1])
                                 ELSE g[n]
               /\ Only(all, set) = g[Len(all)]
  BY <1>3, OnlyByStep
<1>5. PICK good : good = {n \in 0..Len(txs) : g[n] = f[n]}
  OBVIOUS
<1>6. 0 \in good
  BY <1>1, <1>3, <1>4, <1>5
<1>7. ASSUME NEW n \in 0..Len(txs), n # Len(txs), n \in good PROVE n + 1 \in good
  <2>1. n \in 0..Len(all) /\ n # Len(all) /\ n + 1 \in 0..Len(txs)
    BY <1>3, <1>7
  <2>2. g[n + 1] = IF txs[n + 1] \in set THEN Append(g[n], txs[n + 1]) ELSE g[n]
    BY <1>3, <1>4, <1>7, <2>1
  <2> QED
    BY <1>1, <1>5, <1>7, <2>1, <2>2
<1>8. \A n \in 0..Len(txs) : n # Len(txs) /\ n \in good => n + 1 \in good
  BY <1>7
<1>9. \A n \in 0..Len(txs) : n \in good
  BY <1>3, <1>6, <1>8, UpTo
<1>10. Len(txs) \in good
  BY <1>3, <1>9
<1>11. Len(txs) \in 0..Len(all) /\ Len(txs) # Len(all)
  BY <1>3
<1>12. g[Len(txs) + 1] = IF t \in set THEN Append(g[Len(txs)], t) ELSE g[Len(txs)]
  BY <1>3, <1>4, <1>11
<1> QED
  BY <1>1, <1>2, <1>3, <1>4, <1>5, <1>10, <1>12

\* A list that is not empty is another one and a last element.
LEMMA ButLast ==
    ASSUME NEW T, NEW txs \in Seq(T), txs # << >>
    PROVE  \E front \in Seq(T) : txs = Append(front, txs[Len(txs)]) /\ txs[Len(txs)] \in T
<1>1. Len(txs) \in Nat /\ Len(txs) # 0
  OBVIOUS
<1>2. PICK front : front = [i \in 1..(Len(txs) - 1) |-> txs[i]]
  OBVIOUS
<1>3. front \in Seq(T) /\ Len(front) = Len(txs) - 1
  BY <1>1, <1>2
<1>4. txs[Len(txs)] \in T
  BY <1>1
<1>5. txs = Append(front, txs[Len(txs)])
  BY <1>1, <1>2, <1>3, <1>4
<1> QED
  BY <1>3, <1>4, <1>5

\* A list's last element, if it is kept, is the last one that is.
LEMMA OnlyLast ==
    ASSUME NEW T, NEW txs \in Seq(T), NEW set,
           txs # << >>, txs[Len(txs)] \in set
    PROVE  Only(txs, set) # << >> /\ Last(Only(txs, set)) = txs[Len(txs)]
<1>1. PICK last : last = txs[Len(txs)]
  OBVIOUS
<1>2. PICK front \in Seq(T) : txs = Append(front, last) /\ last \in T
  BY <1>1, ButLast
<1>3. Only(front, set) \in Seq(T)
  BY OnlyOf
<1>4. PICK kept \in Seq(T) : kept = Only(front, set)
  BY <1>3
<1>5. Only(Append(front, last), set) = Append(kept, last)
  BY <1>1, <1>2, <1>4, OnlyAppend
<1>6. Append(kept, last) # << >> /\ Last(Append(kept, last)) = last
  BY <1>2 DEF Last
<1> QED
  BY <1>1, <1>2, <1>5, <1>6

\* Only of a list with one more in front.
LEMMA OnlyPrepend ==
    ASSUME NEW T, NEW txs \in Seq(T), NEW t \in T, NEW set
    PROVE  Only(<<t>> \o txs, set) =
               IF t \in set THEN <<t>> \o Only(txs, set) ELSE Only(txs, set)
<1>1. PICK f : /\ f[0] = << >>
               /\ \A n \in 0..Len(txs) : n # Len(txs) =>
                      f[n + 1] = IF txs[n + 1] \in set THEN Append(f[n], txs[n + 1])
                                 ELSE f[n]
               /\ Only(txs, set) = f[Len(txs)]
  BY OnlyByStep
<1>2. PICK all : all = <<t>> \o txs
  OBVIOUS
<1>3. /\ all \in Seq(T) /\ Len(txs) \in Nat /\ Len(all) = Len(txs) + 1 /\ all[1] = t
      /\ \A n \in 0..Len(txs) : n # Len(txs) => all[(n + 1) + 1] = txs[n + 1]
  BY <1>2
<1>4. PICK g : /\ g[0] = << >>
               /\ \A n \in 0..Len(all) : n # Len(all) =>
                      g[n + 1] = IF all[n + 1] \in set THEN Append(g[n], all[n + 1])
                                 ELSE g[n]
               /\ Only(all, set) = g[Len(all)]
  BY <1>3, OnlyByStep
<1>5. PICK good : good = {n \in 0..Len(txs) :
                             /\ f[n] \in Seq(T)
                             /\ g[n + 1] = IF t \in set THEN <<t>> \o f[n] ELSE f[n]}
  OBVIOUS
<1>6. 0 \in good
  <2>1. 0 \in 0..Len(all) /\ 0 # Len(all) /\ 0 + 1 = 1 /\ 0 \in 0..Len(txs)
    BY <1>3
  <2>2. g[0 + 1] = IF all[0 + 1] \in set THEN Append(g[0], all[0 + 1]) ELSE g[0]
    BY <1>4, <2>1
  <2>3. g[0 + 1] = IF t \in set THEN Append(<< >>, t) ELSE << >>
    BY <1>3, <1>4, <2>1, <2>2
  <2>4. Append(<< >>, t) = <<t>> \o << >>
    OBVIOUS
  <2>5. f[0] \in Seq(T)
    BY <1>1
  <2> QED
    BY <1>1, <1>5, <2>1, <2>3, <2>4, <2>5
<1>7. ASSUME NEW n \in 0..Len(txs), n # Len(txs), n \in good PROVE n + 1 \in good
  <2>1. n + 1 \in 0..Len(all) /\ n + 1 # Len(all) /\ n + 1 \in 0..Len(txs) /\ txs[n + 1] \in T
    BY <1>3, <1>7
  <2>2. PICK k \in 0..Len(all) : k = n + 1 /\ k # Len(all)
    BY <2>1
  <2>3. g[k + 1] = IF txs[n + 1] \in set THEN Append(g[k], txs[n + 1]) ELSE g[k]
    BY <1>3, <1>4, <1>7, <2>2
  <2>4. PICK s \in Seq(T) : s = f[n]
    BY <1>5, <1>7
  <2>5. Append(<<t>> \o s, txs[n + 1]) = <<t>> \o Append(s, txs[n + 1])
    BY <2>1
  <2>6. g[k] = IF t \in set THEN <<t>> \o s ELSE s
    BY <1>5, <1>7, <2>2, <2>4
  <2>7. f[n + 1] = IF txs[n + 1] \in set THEN Append(s, txs[n + 1]) ELSE s
    BY <1>1, <1>7, <2>4
  <2>8. f[n + 1] \in Seq(T)
    BY <2>1, <2>7
  <2>9. g[(n + 1) + 1] = IF t \in set THEN <<t>> \o f[n + 1] ELSE f[n + 1]
    BY <2>2, <2>3, <2>5, <2>6, <2>7
  <2> QED
    BY <1>5, <2>1, <2>8, <2>9
<1>8. \A n \in 0..Len(txs) : n # Len(txs) /\ n \in good => n + 1 \in good
  BY <1>7
<1>9. \A n \in 0..Len(txs) : n \in good
  BY <1>3, <1>6, <1>8, UpTo
<1>10. Len(txs) \in good
  BY <1>3, <1>9
<1> QED
  BY <1>1, <1>2, <1>3, <1>4, <1>5, <1>10

\* What is kept of what was kept.
LEMMA OnlyTwice ==
    ASSUME NEW T, NEW txs \in Seq(T), NEW large, NEW small,
           \A t \in T : t \in small => t \in large
    PROVE  Only(Only(txs, large), small) = Only(txs, small)
<1>1. PICK f : /\ f[0] = << >>
               /\ \A n \in 0..Len(txs) : n # Len(txs) =>
                      f[n + 1] = IF txs[n + 1] \in large THEN Append(f[n], txs[n + 1])
                                 ELSE f[n]
               /\ Only(txs, large) = f[Len(txs)]
  BY OnlyByStep
<1>2. PICK g : /\ g[0] = << >>
               /\ \A n \in 0..Len(txs) : n # Len(txs) =>
                      g[n + 1] = IF txs[n + 1] \in small THEN Append(g[n], txs[n + 1])
                                 ELSE g[n]
               /\ Only(txs, small) = g[Len(txs)]
  BY OnlyByStep
<1>3. Len(txs) \in Nat
  OBVIOUS
<1>4. PICK good : good = {n \in 0..Len(txs) : f[n] \in Seq(T) /\ Only(f[n], small) = g[n]}
  OBVIOUS
<1>5. 0 \in good
  <2>1. Only(<< >>, small) = << >>
    BY OnlyOfNone
  <2>2. f[0] \in Seq(T) /\ 0 \in 0..Len(txs)
    BY <1>1, <1>3
  <2>3. Only(f[0], small) = g[0]
    BY <1>1, <1>2, <2>1
  <2> QED
    BY <1>4, <2>2, <2>3
<1>6. ASSUME NEW n \in 0..Len(txs), n # Len(txs), n \in good PROVE n + 1 \in good
  <2>1. n + 1 \in 0..Len(txs) /\ txs[n + 1] \in T
    BY <1>3, <1>6
  <2>2. PICK t \in T : t = txs[n + 1]
    BY <2>1
  <2>3. PICK s \in Seq(T) : s = f[n]
    BY <1>4, <1>6
  <2>4. Only(s, small) = g[n]
    BY <1>4, <1>6, <2>3
  <2>5. f[n + 1] = IF t \in large THEN Append(s, t) ELSE s
    BY <1>1, <1>6, <2>2, <2>3
  <2>6. g[n + 1] = IF t \in small THEN Append(g[n], t) ELSE g[n]
    BY <1>2, <1>6, <2>2
  <2>7. Only(Append(s, t), small) = IF t \in small THEN Append(g[n], t) ELSE g[n]
    BY <2>4, OnlyAppend
  <2>8. f[n + 1] \in Seq(T)
    BY <2>5
  <2>9. Only(f[n + 1], small) = g[n + 1]
    <3>1. CASE t \in large
      BY <2>5, <2>6, <2>7, <3>1
    <3>2. CASE t \notin large
      BY <2>4, <2>5, <2>6, <3>2
    <3> QED
      BY <3>1, <3>2
  <2> QED
    BY <1>4, <2>1, <2>8, <2>9
<1>7. \A n \in 0..Len(txs) : n # Len(txs) /\ n \in good => n + 1 \in good
  BY <1>6
<1>8. \A n \in 0..Len(txs) : n \in good
  BY <1>3, <1>5, <1>7, UpTo
<1>9. Len(txs) \in good
  BY <1>3, <1>8
<1> QED
  BY <1>1, <1>2, <1>4, <1>9

\* The elements of two lists in a row.
LEMMA BothLists ==
    ASSUME NEW T, NEW one \in Seq(T), NEW two \in Seq(T)
    PROVE  /\ one \o two \in Seq(T) /\ Len(one \o two) = Len(one) + Len(two)
           /\ ToSet(one \o two) = ToSet(one) \cup ToSet(two)
           /\ IsInjective(one) /\ IsInjective(two) /\ ToSet(one) \cap ToSet(two) = {}
                  => IsInjective(one \o two)
<1>1. PICK all : all = one \o two
  OBVIOUS
<1>2. /\ all \in Seq(T) /\ Len(all) = Len(one) + Len(two) /\ Len(one) \in Nat /\ Len(two) \in Nat
      /\ \A i \in 1..Len(one) : all[i] = one[i]
      /\ \A i \in 1..Len(two) : all[Len(one) + i] = two[i]
  BY <1>1
<1>3. DOMAIN one = 1..Len(one) /\ DOMAIN two = 1..Len(two) /\ DOMAIN all = 1..Len(all)
  BY <1>2
<1>4. ASSUME NEW i \in 1..Len(all)
      PROVE  i \in 1..Len(one) \/ \E j \in 1..Len(two) : i = Len(one) + j
  <2>1. CASE i > Len(one)
    <3>1. i - Len(one) \in 1..Len(two) /\ i = Len(one) + (i - Len(one))
      BY <1>2, <2>1
    <3> QED
      BY <3>1
  <2> QED
    BY <1>2, <2>1
<1>5. ToSet(all) \subseteq ToSet(one) \cup ToSet(two)
  <2> SUFFICES ASSUME NEW i \in 1..Len(all) PROVE all[i] \in ToSet(one) \cup ToSet(two)
    BY <1>3 DEF ToSet
  <2> QED
    BY <1>2, <1>3, <1>4 DEF ToSet
<1>6. ToSet(one) \subseteq ToSet(all)
  BY <1>2, <1>3 DEF ToSet
<1>7. ToSet(two) \subseteq ToSet(all)
  <2> SUFFICES ASSUME NEW j \in 1..Len(two) PROVE two[j] \in ToSet(all)
    BY <1>3 DEF ToSet
  <2>1. Len(one) + j \in 1..Len(all)
    BY <1>2
  <2> QED
    BY <1>2, <1>3, <2>1 DEF ToSet
<1>8. ASSUME IsInjective(one), IsInjective(two), ToSet(one) \cap ToSet(two) = {}
      PROVE  IsInjective(all)
  <2> SUFFICES ASSUME NEW i \in 1..Len(all), NEW j \in 1..Len(all), all[i] = all[j]
               PROVE  i = j
    BY <1>3 DEF IsInjective
  <2>1. CASE i \in 1..Len(one) /\ j \in 1..Len(one)
    BY <1>2, <1>3, <1>8, <2>1 DEF IsInjective
  <2>2. CASE i \notin 1..Len(one) /\ j \notin 1..Len(one)
    <3>1. PICK k \in 1..Len(two) : i = Len(one) + k
      BY <1>4, <2>2
    <3>2. PICK l \in 1..Len(two) : j = Len(one) + l
      BY <1>4, <2>2
    <3>3. two[k] = two[l]
      BY <1>2, <3>1, <3>2
    <3> QED
      BY <1>3, <1>8, <3>1, <3>2, <3>3 DEF IsInjective
  <2>3. ASSUME NEW k \in 1..Len(one), NEW l \in 1..Len(two), all[k] = all[Len(one) + l]
        PROVE  FALSE
    <3>1. one[k] = two[l]
      BY <1>2, <2>3
    <3>2. one[k] \in ToSet(one) /\ two[l] \in ToSet(two)
      BY <1>3 DEF ToSet
    <3> QED
      BY <1>8, <3>1, <3>2
  <2> QED
    BY <1>4, <2>1, <2>2, <2>3
<1> QED
  BY <1>1, <1>2, <1>5, <1>6, <1>7, <1>8

-----------------------------------------------------------------------------
\* What a list has between two positions, up to one and behind one.
Between(txs, from, upto) == {txs[i] : i \in (from + 1)..upto}
FirstOf(txs, n) == Between(txs, 0, n)
Behind(txs, n)  == Between(txs, n, Len(txs))

\* Where the window from a position of a list ends, and what is in it.
WindowEnd(txs, from) ==
    IF from + PageSize <= Len(txs) THEN from + PageSize ELSE Len(txs)

IsWindow(page, txs, from, upto) ==
    /\ upto \in from..Len(txs) /\ (from # Len(txs) => from # upto)
    /\ page \in Seq(Txs) /\ Len(page) = upto - from
    /\ \A i \in 1..(upto - from) : page[i] = txs[from + i]
    /\ ToSet(page) = Between(txs, from, upto)

\* What explorers serve from a position on is such a window.
LEMMA WindowOf ==
    ASSUME NEW txs \in Seq(Txs), NEW from \in 0..Len(txs)
    PROVE  IsWindow(Window(txs, from), txs, from, WindowEnd(txs, from))
<1>1. PICK upto, page : upto = WindowEnd(txs, from) /\ page = Window(txs, from)
  OBVIOUS
<1>2. PageSize \in Nat /\ PageSize # 0 /\ Len(txs) \in Nat
  BY HistoryAssumption
<1>3. upto \in from..Len(txs) /\ (from # Len(txs) => from # upto)
  BY <1>1, <1>2 DEF WindowEnd
<1>4. page = SubSeq(txs, from + 1, upto)
  BY <1>1 DEF Window, WindowEnd
<1>5. page \in Seq(Txs) /\ Len(page) = upto - from
  BY <1>2, <1>3, <1>4
<1>6. ASSUME NEW i \in 1..(upto - from) PROVE page[i] = txs[from + i]
  BY <1>2, <1>3, <1>4, <1>6
<1>7. DOMAIN page = 1..(upto - from)
  BY <1>5
<1>8. ToSet(page) \subseteq Between(txs, from, upto)
  <2> SUFFICES ASSUME NEW i \in 1..(upto - from)
               PROVE  page[i] \in Between(txs, from, upto)
    BY <1>7 DEF ToSet
  <2>1. from + i \in (from + 1)..upto
    BY <1>2, <1>3
  <2> QED
    BY <1>6, <2>1 DEF Between
<1>9. Between(txs, from, upto) \subseteq ToSet(page)
  <2> SUFFICES ASSUME NEW j \in (from + 1)..upto PROVE txs[j] \in ToSet(page)
    BY DEF Between
  <2>1. j - from \in 1..(upto - from) /\ from + (j - from) = j
    BY <1>2, <1>3
  <2>2. page[j - from] = txs[from + (j - from)]
    BY <1>6, <2>1
  <2> QED
    BY <1>7, <2>1, <2>2 DEF ToSet
<1> QED
  BY <1>1, <1>3, <1>5, <1>6, <1>8, <1>9 DEF IsWindow

\* What is behind a position of a list without repetitions is not before it.
LEMMA BehindIsApart ==
    ASSUME NEW txs \in Seq(Txs), IsInjective(txs), NEW n \in 0..Len(txs)
    PROVE  /\ FirstOf(txs, n) \cap Behind(txs, n) = {}
           /\ ToSet(txs) = FirstOf(txs, n) \cup Behind(txs, n)
<1>1. Len(txs) \in Nat /\ DOMAIN txs = 1..Len(txs)
  OBVIOUS
<1>2. 1..n \subseteq DOMAIN txs /\ (n + 1)..Len(txs) \subseteq DOMAIN txs
  BY <1>1
<1>3. ASSUME NEW i \in 1..n, NEW j \in (n + 1)..Len(txs), txs[i] = txs[j] PROVE FALSE
  <2>1. i = j
    BY <1>2, <1>3 DEF IsInjective
  <2> QED
    BY <1>1, <2>1
<1>4. FirstOf(txs, n) \cap Behind(txs, n) = {}
  BY <1>3 DEF FirstOf, Behind, Between
<1>5. DOMAIN txs = 1..n \cup (n + 1)..Len(txs)
  BY <1>1
<1>6. ToSet(txs) = FirstOf(txs, n) \cup Behind(txs, n)
  BY <1>5 DEF ToSet, FirstOf, Behind, Between
<1> QED
  BY <1>4, <1>6

\* A list with nothing in it is the empty one.
LEMMA NothingIn ==
    ASSUME NEW txs \in Seq(Txs), ToSet(txs) = {} PROVE txs = << >>
<1>1. ASSUME Len(txs) # 0 PROVE FALSE
  <2>1. 1 \in DOMAIN txs
    BY <1>1
  <2>2. txs[1] \in ToSet(txs)
    BY <2>1 DEF ToSet
  <2> QED
    BY <2>2
<1> QED
  BY <1>1

\* A page of what is waiting and of a window of what is mined.
IsPage(page, waiting, window) ==
    /\ page \in Seq(Txs)
    /\ ToSet(page) = ToSet(waiting) \cup ToSet(window)
    /\ window # << >> => page # << >> /\ page[Len(page)] = window[Len(window)]

\* The first page of an explorer that pages by txid is such a page, ...
LEMMA PageOfBoth ==
    ASSUME NEW waiting \in Seq(Txs), NEW window \in Seq(Txs)
    PROVE  IsPage(waiting \o window, waiting, window)
<1>1. waiting \o window \in Seq(Txs) /\ Len(waiting \o window) = Len(waiting) + Len(window)
  OBVIOUS
<1>2. ToSet(waiting \o window) = ToSet(waiting) \cup ToSet(window)
  BY BothLists
<1>3. ASSUME window # << >>
      PROVE  /\ waiting \o window # << >>
             /\ (waiting \o window)[Len(waiting \o window)] = window[Len(window)]
  <2>1. Len(waiting) \in Nat /\ Len(window) \in Nat /\ Len(window) # 0
    BY <1>3
  <2>2. Len(window) \in 1..Len(window)
    BY <2>1
  <2>3. (waiting \o window)[Len(waiting) + Len(window)] = window[Len(window)]
    BY <2>1, <2>2
  <2>4. Len(waiting \o window) # 0
    BY <1>1, <2>1
  <2> QED
    BY <1>1, <2>3, <2>4
<1> QED
  BY <1>1, <1>2, <1>3 DEF IsPage

\* ... and every later one is a window alone.
LEMMA PageOfMined ==
    ASSUME NEW window \in Seq(Txs)
    PROVE  IsPage(window, << >>, window)
<1>1. ToSet(<< >>) = {}
  BY DEF ToSet
<1> QED
  BY <1>1 DEF IsPage

\* The cursor after a page that ends with a window of the mined transactions:
\* none if there was nothing left to read, and otherwise the window's end.
CursorIsEnd(cursor, settled, from, upto) ==
    /\ from = Len(settled) => cursor = None
    /\ from # Len(settled) => /\ upto \in DOMAIN settled /\ cursor = <<settled[upto]>>
                            /\ cursor # None

\* CursorOf finds that cursor: what is waiting is not among the mined.
LEMMA CursorAtEnd ==
    ASSUME NEW waiting, NEW settled \in Seq(Txs),
           ToSet(waiting) \cap ToSet(settled) = {}, NEW from \in 0..Len(settled),
           NEW window, NEW upto, IsWindow(window, settled, from, upto),
           NEW page, IsPage(page, waiting, window)
    PROVE  CursorIsEnd(CursorOf(page, settled), settled, from, upto)
<1>1. /\ upto \in from..Len(settled) /\ (from # Len(settled) => from # upto)
      /\ window \in Seq(Txs) /\ Len(window) = upto - from
  BY DEF IsWindow
<1>2. ToSet(window) = Between(settled, from, upto)
  BY DEF IsWindow
<1>3. page \in Seq(Txs) /\ ToSet(page) = ToSet(waiting) \cup ToSet(window)
  BY DEF IsPage
<1>4. Len(settled) \in Nat /\ DOMAIN settled = 1..Len(settled)
  OBVIOUS
<1>5. PICK kept : kept = Only(page, ToSet(settled))
  OBVIOUS
<1>6. kept \in Seq(Txs) /\ ToSet(kept) = ToSet(page) \cap ToSet(settled)
  BY <1>3, <1>5, OnlyOf
<1>7. CASE from = Len(settled)
  <2>1. (from + 1)..upto = {}
    BY <1>1, <1>4, <1>7
  <2>2. ToSet(window) = {}
    BY <1>2, <2>1 DEF Between
  <2>3. ToSet(kept) = {}
    BY <1>3, <1>6, <2>2
  <2>4. kept = << >>
    BY <1>6, <2>3, NothingIn
  <2> QED
    BY <1>5, <1>7, <2>4 DEF CursorOf, CursorIsEnd
<1>8. CASE from # Len(settled)
  <2>1. from \in Nat /\ upto \in Nat /\ from < upto /\ upto <= Len(settled)
    <3>1. PICK n \in Nat : n = Len(settled)
      BY <1>4
    <3>2. from \in 0..n /\ upto \in from..n /\ from # n /\ from # upto
      BY <1>1, <1>8, <3>1
    <3> QED
      BY <3>1, <3>2
  <2>2. upto \in DOMAIN settled /\ upto - from \in 1..(upto - from) /\ from + (upto - from) = upto
    BY <1>4, <2>1
  <2>3. window # << >>
    BY <1>1, <2>1
  <2>4. page # << >> /\ page[Len(page)] = window[upto - from]
    BY <1>1, <2>3 DEF IsPage
  <2>5. window[upto - from] = settled[upto]
    BY <2>2 DEF IsWindow
  <2>6. settled[upto] \in ToSet(settled)
    BY <2>2 DEF ToSet
  <2>7. kept # << >> /\ Last(kept) = settled[upto]
    BY <1>3, <1>5, <2>4, <2>5, <2>6, OnlyLast
  <2>8. CursorOf(page, settled) = <<settled[upto]>>
    BY <1>5, <2>7 DEF CursorOf
  <2>9. <<settled[upto]>> # << >>
    OBVIOUS
  <2> QED
    BY <1>8, <2>2, <2>8, <2>9 DEF CursorIsEnd, None
<1> QED
  BY <1>7, <1>8

-----------------------------------------------------------------------------
\* Explorers whose totals or cursors tell that the list has moved: Esplora, and
\* Blockbook over a mempool that drops nothing.
Tells(e) == e.paging = "txid" \/ (e.paging = "page" /\ e.drops = {})
NoHole   == \A e \in Explorers : e.stubborn \/ Tells(e)

\* What a worker holds of its walk.
WalkRecord == [stage : {"idle", "walking", "done", "failed"},
               cursor : Seq(Txs) \cup Seq(Nat), total : Seq(Nat), got : Seq(Txs),
               truncated : BOOLEAN, attempt : Nat, host : Nat]

\* A transaction is in the mempool or the blocks, and once.
HistoryTyped ==
    /\ mempool \in Seq(Txs) /\ IsInjective(mempool)
    /\ blocks \in Seq(Txs) /\ IsInjective(blocks)
    /\ ToSet(mempool) \cap ToSet(blocks) = {}
    /\ walk \in [Addresses -> WalkRecord]
    /\ known \in [Addresses -> SUBSET Txs]

\* A walk by txid has read nothing, or all it has to find but what is behind its
\* cursor, and nothing of that.
AtTxid(w, found, settled) ==
    /\ w.total = None
    /\ \/ w.cursor = None /\ w.got = << >>
       \/ \E i \in DOMAIN settled :
              /\ w.cursor = <<settled[i]>>
              /\ found \subseteq ToSet(w.got) \cup Behind(settled, i)
              /\ ToSet(w.got) \cap Behind(settled, i) = {}

\* A walk by number has read nothing, or the totals tell that the list moved, or
\* it has read the list as far as its cursor.
AtNumber(w, waiting, settled) ==
    \/ w.total = None /\ w.cursor = None /\ w.got = << >>
    \/ \E b \in Nat, m \in Nat :
           /\ w.total = <<b, m>>
           /\ \/ Len(settled) > b
              \/ Len(settled) = b /\ Len(waiting) > m
              \/ /\ Len(settled) = b /\ Len(waiting) = m
                 /\ \E n \in Nat : /\ w.cursor = <<n>> /\ n < b + m
                                   /\ ToSet(w.got) = FirstOf(waiting \o settled, n)

\* A walk under way has read as far as it says, and a complete one has all that
\* it had to find.
IsGood(w, found, waiting, settled, paging) ==
    /\ w.stage = "idle" => w.cursor = None /\ w.total = None /\ w.got = << >>
    /\ w.stage = "walking" /\ paging = "txid" => AtTxid(w, found, settled)
    /\ w.stage = "walking" /\ paging = "page" => AtNumber(w, waiting, settled)
    /\ w.stage = "done" /\ ~w.truncated => found \subseteq ToSet(w.got)

WalkIsGood(a) ==
    /\ known[a] \subseteq Present \cap Touching[a]
    /\ IsGood(walk[a], known[a], Of(a, mempool), Of(a, blocks), explorer.paging)

\* Walks at explorers that answer what they are asked for are good ones.
HistoryInv ==
    /\ explorer \in Explorers
    /\ ~explorer.stubborn => HistoryTyped /\ \A a \in Addresses : WalkIsGood(a)

-----------------------------------------------------------------------------
\* The three ways a turn of collect_pages can go: the limit, the end, or on to
\* the next page with all that was new.
GoesOn(w, page, all) ==
    [w EXCEPT !.got = all, !.cursor = page.next,
              !.total = IF w.total = None THEN page.total ELSE @]
IsTurn(v, w, page, all) ==
    \/ \E part \in Seq(Txs) : v = Returned(part, TRUE)
    \/ /\ v = Returned(all, FALSE)
       /\ page.next = None \/ ToSet(page.txs) \subseteq ToSet(w.got)
    \/ v = GoesOn(w, page, all) /\ page.next # None

\* A turn of collect_pages keeps everything it was given, unless it is cut off.
LEMMA TurnOf ==
    ASSUME NEW w, w.got \in Seq(Txs), NEW page, page.txs \in Seq(Txs)
    PROVE  \E all \in Seq(Txs) : /\ ToSet(all) = ToSet(w.got) \cup ToSet(page.txs)
                                 /\ IsTurn(Turned(w, page), w, page, all)
<1>1. PICK got \in Seq(Txs) : got = w.got
  OBVIOUS
<1>2. PICK txs \in Seq(Txs) : txs = page.txs
  OBVIOUS
<1>3. PICK new : new = Only(txs, Txs \ ToSet(got))
  OBVIOUS
<1>4. new \in Seq(Txs) /\ ToSet(new) = ToSet(txs) \cap (Txs \ ToSet(got))
  BY <1>3, OnlyOf
<1>5. PICK all : all = got \o new
  OBVIOUS
<1>6. all \in Seq(Txs) /\ ToSet(all) = ToSet(got) \cup ToSet(new)
  BY <1>4, <1>5, BothLists
<1>7. ToSet(txs) \subseteq Txs
  BY DEF ToSet
<1>8. ToSet(all) = ToSet(got) \cup ToSet(txs)
  BY <1>4, <1>6, <1>7
<1>9. Turned(w, page) = IF Len(all) >= Limit
                        THEN Returned(SubSeq(all, 1, Limit), TRUE)
                        ELSE IF page.next = None \/ new = << >>
                        THEN Returned(all, FALSE)
                        ELSE GoesOn(w, page, all)
  BY <1>1, <1>2, <1>3, <1>5 DEF Turned, GoesOn
<1>10. CASE Len(all) >= Limit
  <2>1. SubSeq(all, 1, Limit) \in Seq(Txs)
    BY <1>6, <1>10, HistoryAssumption DEF HistoryAssumption
  <2> QED
    BY <1>1, <1>2, <1>6, <1>8, <1>9, <1>10, <2>1 DEF IsTurn
<1>11. CASE ~(Len(all) >= Limit) /\ (page.next = None \/ new = << >>)
  <2>1. new = << >> => ToSet(txs) \subseteq ToSet(got)
    <3> HAVE new = << >>
    <3>1. ToSet(new) = {}
      BY DEF ToSet
    <3> QED
      BY <1>4, <1>7, <3>1
  <2> QED
    BY <1>1, <1>2, <1>6, <1>8, <1>9, <1>11, <2>1 DEF IsTurn
<1>12. CASE ~(Len(all) >= Limit) /\ page.next # None /\ new # << >>
  BY <1>1, <1>2, <1>6, <1>8, <1>9, <1>12 DEF IsTurn
<1> QED
  BY <1>10, <1>11, <1>12

\* What a page by txid brings to a walk that is AtTxid.
BringsByTxid(page, w, found, settled) ==
    /\ page.txs \in Seq(Txs) /\ page.total = None
    /\ page.next = None => found \subseteq ToSet(w.got) \cup ToSet(page.txs)
    /\ page.next # None =>
           \E i \in DOMAIN settled :
               /\ page.next = <<settled[i]>>
               /\ found \subseteq ToSet(w.got) \cup ToSet(page.txs) \cup Behind(settled, i)
               /\ (ToSet(w.got) \cup ToSet(page.txs)) \cap Behind(settled, i) = {}
    /\ ToSet(page.txs) \subseteq ToSet(w.got) => found \subseteq ToSet(w.got)

\* The positions behind one, as a window and what is behind it.
LEMMA BehindByWindow ==
    ASSUME NEW settled \in Seq(Txs), IsInjective(settled),
           NEW from \in 0..Len(settled), NEW upto \in from..Len(settled)
    PROVE  /\ Behind(settled, from) = Between(settled, from, upto) \cup Behind(settled, upto)
           /\ Between(settled, from, upto) \cap Behind(settled, upto) = {}
           /\ upto # from => settled[upto] \in Between(settled, from, upto)
           /\ from = Len(settled) => Behind(settled, from) = {}
<1>1. PICK n \in Nat : n = Len(settled) /\ DOMAIN settled = 1..n
  OBVIOUS
<1>2. from \in 0..n /\ upto \in from..n /\ from \in Nat /\ upto \in Nat
  BY <1>1
<1>3. (from + 1)..n = (from + 1)..upto \cup (upto + 1)..n
  BY <1>2
<1>4. Behind(settled, from) = Between(settled, from, upto) \cup Behind(settled, upto)
  BY <1>1, <1>3 DEF Behind, Between
<1>5. ASSUME NEW i \in (from + 1)..upto, NEW j \in (upto + 1)..n, settled[i] = settled[j]
      PROVE  FALSE
  <2>1. i \in DOMAIN settled /\ j \in DOMAIN settled /\ i # j
    BY <1>1, <1>2
  <2> QED
    BY <1>5, <2>1 DEF IsInjective
<1>6. Between(settled, from, upto) \cap Behind(settled, upto) = {}
  BY <1>1, <1>5 DEF Behind, Between
<1>7. upto # from => upto \in (from + 1)..upto
  BY <1>2
<1>8. from = n => (from + 1)..n = {}
  BY <1>2
<1> QED
  BY <1>1, <1>4, <1>6, <1>7, <1>8 DEF Behind, Between

\* The first page by txid brings the mempool and the newest mined ones.
LEMMA FirstByTxid ==
    ASSUME NEW waiting \in Seq(Txs), NEW settled \in Seq(Txs), IsInjective(settled),
           ToSet(waiting) \cap ToSet(settled) = {},
           NEW w, w.got = << >>,
           NEW found, found \subseteq ToSet(waiting) \cup ToSet(settled),
           NEW page, page.txs = waiting \o Window(settled, 0), page.total = None,
           page.next = CursorOf(page.txs, settled)
    PROVE  BringsByTxid(page, w, found, settled)
<1>1. PICK window, upto : window = Window(settled, 0) /\ upto = WindowEnd(settled, 0)
  OBVIOUS
<1>2. PICK txs : txs = page.txs
  OBVIOUS
<1>3. 0 \in 0..Len(settled) /\ Len(settled) \in Nat
  OBVIOUS
<1>4. IsWindow(window, settled, 0, upto)
  BY <1>1, <1>3, WindowOf
<1>5. window \in Seq(Txs) /\ upto \in 0..Len(settled) /\ (0 # Len(settled) => 0 # upto)
      /\ ToSet(window) = Between(settled, 0, upto)
  BY <1>4 DEF IsWindow
<1>6. IsPage(txs, waiting, window)
  BY <1>1, <1>2, <1>5, PageOfBoth
<1>7. txs \in Seq(Txs) /\ ToSet(txs) = ToSet(waiting) \cup Between(settled, 0, upto)
  BY <1>5, <1>6 DEF IsPage
<1>8. CursorIsEnd(page.next, settled, 0, upto)
  BY <1>2, <1>3, <1>4, <1>6, CursorAtEnd
<1>9. /\ Behind(settled, 0) = Between(settled, 0, upto) \cup Behind(settled, upto)
      /\ Between(settled, 0, upto) \cap Behind(settled, upto) = {}
      /\ upto # 0 => settled[upto] \in Between(settled, 0, upto)
      /\ 0 = Len(settled) => Behind(settled, 0) = {}
  BY <1>3, <1>5, BehindByWindow
<1>10. ToSet(settled) = Behind(settled, 0)
  BY <1>3 DEF Behind, Between, ToSet
<1>11. ToSet(w.got) = {}
  BY DEF ToSet
<1>12. Behind(settled, upto) \subseteq ToSet(settled)
  BY <1>9, <1>10
<1>13. CASE 0 = Len(settled)
  <2>1. found \subseteq ToSet(w.got) \cup ToSet(txs)
    BY <1>7, <1>9, <1>10, <1>13
  <2>2. ToSet(txs) \subseteq ToSet(w.got) => found \subseteq ToSet(w.got)
    BY <2>1
  <2> QED
    BY <1>2, <1>7, <1>8, <1>13, <2>1, <2>2 DEF BringsByTxid, CursorIsEnd
<1>14. CASE 0 # Len(settled)
  <2>1. upto \in DOMAIN settled /\ page.next = <<settled[upto]>> /\ page.next # None
    BY <1>8, <1>14 DEF CursorIsEnd
  <2>2. found \subseteq ToSet(w.got) \cup ToSet(txs) \cup Behind(settled, upto)
    BY <1>7, <1>9, <1>10
  <2>3. (ToSet(w.got) \cup ToSet(txs)) \cap Behind(settled, upto) = {}
    BY <1>7, <1>9, <1>11, <1>12
  <2>4. ~(ToSet(txs) \subseteq ToSet(w.got))
    BY <1>5, <1>7, <1>9, <1>11, <1>14
  <2> QED
    BY <1>2, <1>7, <2>1, <2>2, <2>3, <2>4 DEF BringsByTxid
<1> QED
  BY <1>13, <1>14

\* A later page by txid brings the next mined ones.
LEMMA LaterByTxid ==
    ASSUME NEW settled \in Seq(Txs), IsInjective(settled),
           NEW w, NEW found, NEW from \in DOMAIN settled,
           found \subseteq ToSet(w.got) \cup Behind(settled, from),
           ToSet(w.got) \cap Behind(settled, from) = {},
           NEW page, page.txs = Window(settled, from), page.total = None,
           page.next = CursorOf(page.txs, settled)
    PROVE  BringsByTxid(page, w, found, settled)
<1>1. PICK window, upto : window = Window(settled, from) /\ upto = WindowEnd(settled, from)
  OBVIOUS
<1>2. PICK got : got = ToSet(w.got)
  OBVIOUS
<1>3. from \in 0..Len(settled)
  OBVIOUS
<1>4. IsWindow(window, settled, from, upto)
  BY <1>1, <1>3, WindowOf
<1>5. window \in Seq(Txs) /\ upto \in from..Len(settled) /\ (from # Len(settled) => from # upto)
      /\ ToSet(window) = Between(settled, from, upto)
  BY <1>4 DEF IsWindow
<1>6. IsPage(window, << >>, window) /\ ToSet(<< >>) = {}
  BY <1>5, PageOfMined DEF ToSet
<1>7. CursorIsEnd(page.next, settled, from, upto)
  <2>1. ToSet(<< >>) \cap ToSet(settled) = {}
    BY <1>6
  <2> QED
    BY <1>1, <1>3, <1>4, <1>6, <2>1, CursorAtEnd
<1>8. /\ Behind(settled, from) = Between(settled, from, upto) \cup Behind(settled, upto)
      /\ Between(settled, from, upto) \cap Behind(settled, upto) = {}
      /\ upto # from => settled[upto] \in Between(settled, from, upto)
      /\ from = Len(settled) => Behind(settled, from) = {}
  BY <1>3, <1>5, BehindByWindow
<1>9. CASE from = Len(settled)
  <2>1. found \subseteq got
    BY <1>2, <1>8, <1>9
  <2> QED
    BY <1>1, <1>2, <1>5, <1>7, <1>9, <2>1 DEF BringsByTxid, CursorIsEnd
<1>10. CASE from # Len(settled)
  <2>1. upto \in DOMAIN settled /\ page.next = <<settled[upto]>> /\ page.next # None
    BY <1>7, <1>10 DEF CursorIsEnd
  <2>2. found \subseteq got \cup ToSet(window) \cup Behind(settled, upto)
    BY <1>2, <1>5, <1>8
  <2>3. (got \cup ToSet(window)) \cap Behind(settled, upto) = {}
    BY <1>2, <1>5, <1>8
  <2>4. ~(ToSet(window) \subseteq got)
    <3>1. settled[upto] \in ToSet(window) /\ settled[upto] \in Behind(settled, from)
      BY <1>5, <1>8, <1>10
    <3> QED
      BY <1>2, <3>1
  <2> QED
    BY <1>1, <1>2, <1>5, <2>1, <2>2, <2>3, <2>4 DEF BringsByTxid
<1> QED
  BY <1>9, <1>10

\* What a page by number brings to a walk that has read a list up to a position.
BringsByNumber(page, w, found, list) ==
    /\ page.txs \in Seq(Txs)
    /\ page.next = None => found \subseteq ToSet(w.got) \cup ToSet(page.txs)
    /\ page.next # None =>
           \E n \in Nat : /\ page.next = <<n>> /\ n < Len(list)
                          /\ ToSet(w.got) \cup ToSet(page.txs) = FirstOf(list, n)
    /\ ToSet(page.txs) \subseteq ToSet(w.got) => found \subseteq ToSet(w.got)

\* A list up to a position is a list up to an earlier one, and what is between.
LEMMA FirstAndNext ==
    ASSUME NEW list, NEW from \in Nat, NEW upto \in Nat, from <= upto
    PROVE  FirstOf(list, upto) = FirstOf(list, from) \cup Between(list, from, upto)
<1>1. (0 + 1)..upto = (0 + 1)..from \cup (from + 1)..upto
  OBVIOUS
<1> QED
  BY <1>1 DEF FirstOf, Between

\* A page by number brings the next ones of the list.
LEMMA NextByNumber ==
    ASSUME NEW list \in Seq(Txs), IsInjective(list), NEW from \in 0..Len(list),
           NEW w, ToSet(w.got) = FirstOf(list, from),
           NEW found, found \subseteq ToSet(list),
           NEW page, page.txs = Window(list, from),
           page.next = IF from + PageSize < Len(list) THEN <<from + PageSize>> ELSE None
    PROVE  BringsByNumber(page, w, found, list)
<1>1. PICK txs, upto : txs = Window(list, from) /\ upto = WindowEnd(list, from)
  OBVIOUS
<1>2. IsWindow(txs, list, from, upto)
  BY <1>1, WindowOf
<1>3. txs \in Seq(Txs) /\ upto \in from..Len(list) /\ (from # Len(list) => from # upto)
      /\ ToSet(txs) = Between(list, from, upto)
  BY <1>2 DEF IsWindow
<1>4. PICK len \in Nat : len = Len(list)
  OBVIOUS
<1>5. PICK size \in Nat : size = PageSize /\ size # 0
  BY HistoryAssumption DEF HistoryAssumption
<1>6. /\ from \in 0..len /\ from \in Nat /\ upto \in from..len /\ upto \in Nat
      /\ from <= upto
  BY <1>3, <1>4
<1>7. FirstOf(list, upto) = FirstOf(list, from) \cup Between(list, from, upto)
  BY <1>6, FirstAndNext
<1>8. /\ ToSet(list) = FirstOf(list, len) \cup Behind(list, len)
      /\ FirstOf(list, from) \cap Behind(list, from) = {}
  <2>1. len \in 0..Len(list)
    BY <1>4
  <2>2. ToSet(list) = FirstOf(list, len) \cup Behind(list, len)
    BY <2>1, BehindIsApart
  <2>3. FirstOf(list, from) \cap Behind(list, from) = {}
    BY BehindIsApart
  <2> QED
    BY <2>2, <2>3
<1>9. /\ Behind(list, from) = Between(list, from, upto) \cup Behind(list, upto)
      /\ upto # from => list[upto] \in Between(list, from, upto)
      /\ from = len => Behind(list, from) = {}
  BY <1>3, <1>4, BehindByWindow
<1>10. Behind(list, len) = {}
  <2>1. (len + 1)..len = {}
    OBVIOUS
  <2> QED
    BY <1>4, <2>1 DEF Behind, Between
<1>11. ToSet(list) = FirstOf(list, len)
  BY <1>8, <1>10
<1>12. upto = IF from + size <= len THEN from + size ELSE len
  BY <1>1, <1>4, <1>5 DEF WindowEnd
<1>13. ToSet(txs) \subseteq ToSet(w.got) => found \subseteq ToSet(w.got)
  <2>1. CASE from = len
    BY <1>11, <2>1
  <2>2. CASE from # len
    BY <1>3, <1>4, <1>8, <1>9, <2>2
  <2> QED
    BY <2>1, <2>2
<1>14. ToSet(w.got) \cup ToSet(txs) = FirstOf(list, upto)
  BY <1>3, <1>7
<1>15. CASE from + size < len
  <2>1. page.next = <<from + size>>
    BY <1>4, <1>5, <1>15
  <2>2. <<from + size>> # << >> /\ from + size \in Nat /\ upto = from + size
    BY <1>6, <1>12, <1>15
  <2> QED
    BY <1>1, <1>3, <1>4, <1>13, <1>14, <1>15, <2>1, <2>2 DEF BringsByNumber, None
<1>16. CASE ~(from + size < len)
  <2>1. page.next = None
    BY <1>4, <1>5, <1>16
  <2>2. upto = len
    BY <1>6, <1>12, <1>16
  <2> QED
    BY <1>1, <1>3, <1>11, <1>13, <1>14, <2>1, <2>2 DEF BringsByNumber
<1> QED
  BY <1>15, <1>16

\* A walk that has ended and does not call itself truncated found everything.
WellEnded(v, found) == v.stage = "done" /\ (~v.truncated => found \subseteq ToSet(v.got))

\* The fields of a walk that has returned, ...
HasReturned(v, got, truncated) ==
    v \in WalkRecord /\ v.stage = "done" /\ v.got = got /\ v.truncated = truncated

\* Such is what a return makes of it, ...
LEMMA ReturnedIs ==
    ASSUME NEW got \in Seq(Txs), NEW truncated \in BOOLEAN
    PROVE  HasReturned(Returned(got, truncated), got, truncated)
<1>1. << >> \in Seq(Txs) /\ << >> \in Seq(Nat)
  OBVIOUS
<1> QED
  BY <1>1 DEF Returned, HasReturned, Fresh, None, WalkRecord

\* ... those of one that goes on to the next page, ...
HasGoneOn(v, w, page, all) ==
    /\ v \in WalkRecord /\ v.stage = w.stage /\ v.got = all /\ v.cursor = page.next
    /\ v.total = IF w.total = None THEN page.total ELSE w.total

\* ... and such is what going on makes of it.
LEMMA GoesOnIs ==
    ASSUME NEW w \in WalkRecord, NEW page, NEW all \in Seq(Txs),
           page.next \in Seq(Txs) \cup Seq(Nat), page.total \in Seq(Nat)
    PROVE  HasGoneOn(GoesOn(w, page, all), w, page, all)
BY DEF GoesOn, HasGoneOn, WalkRecord

\* A turn at a page by txid ends the walk well, or leaves it AtTxid.
LEMMA TurnByTxid ==
    ASSUME NEW w \in WalkRecord, w.stage = "walking", w.total = None,
           NEW found, NEW settled \in Seq(Txs), NEW page, BringsByTxid(page, w, found, settled),
           NEW v, v = Turned(w, page)
    PROVE  /\ v \in WalkRecord
           /\ WellEnded(v, found) \/ (v.stage = "walking" /\ AtTxid(v, found, settled))
<1>1. w.got \in Seq(Txs) /\ page.txs \in Seq(Txs)
  BY DEF WalkRecord, BringsByTxid
<1>2. PICK all \in Seq(Txs) : /\ ToSet(all) = ToSet(w.got) \cup ToSet(page.txs)
                              /\ IsTurn(v, w, page, all)
  BY <1>1, TurnOf
<1>3. ASSUME NEW part \in Seq(Txs), v = Returned(part, TRUE)
      PROVE  v \in WalkRecord /\ WellEnded(v, found)
  <2>1. HasReturned(v, part, TRUE)
    BY <1>3, ReturnedIs
  <2> QED
    BY <2>1 DEF HasReturned, WellEnded
<1>4. CASE /\ v = Returned(all, FALSE)
           /\ page.next = None \/ ToSet(page.txs) \subseteq ToSet(w.got)
  <2>1. HasReturned(v, all, FALSE)
    BY <1>4, ReturnedIs
  <2>2. found \subseteq ToSet(w.got) \cup ToSet(page.txs)
    BY <1>4 DEF BringsByTxid
  <2> QED
    BY <1>2, <2>1, <2>2 DEF HasReturned, WellEnded
<1>5. CASE v = GoesOn(w, page, all) /\ page.next # None
  <2>1. PICK i \in DOMAIN settled :
               /\ page.next = <<settled[i]>>
               /\ found \subseteq ToSet(w.got) \cup ToSet(page.txs) \cup Behind(settled, i)
               /\ (ToSet(w.got) \cup ToSet(page.txs)) \cap Behind(settled, i) = {}
    BY <1>5 DEF BringsByTxid
  <2>2. settled[i] \in Txs
    OBVIOUS
  <2>3. page.next \in Seq(Txs) \cup Seq(Nat)
    BY <2>1, <2>2
  <2>4. page.total = << >> /\ page.total \in Seq(Nat)
    BY DEF BringsByTxid, None
  <2>5. HasGoneOn(v, w, page, all)
    BY <1>5, <2>3, <2>4, GoesOnIs
  <2>6. /\ v \in WalkRecord /\ v.stage = "walking" /\ v.got = all
        /\ v.cursor = page.next /\ v.total = None
    BY <2>4, <2>5 DEF HasGoneOn, None
  <2>7. AtTxid(v, found, settled)
    BY <1>2, <2>1, <2>6 DEF AtTxid
  <2> QED
    BY <2>6, <2>7
<1> QED
  BY <1>2, <1>3, <1>4, <1>5 DEF IsTurn

\* A turn at a page by number ends the walk well, or leaves it AtNumber.
LEMMA TurnByNumber ==
    ASSUME NEW w \in WalkRecord, w.stage = "walking",
           NEW waiting \in Seq(Txs), NEW settled \in Seq(Txs), NEW found,
           NEW page, BringsByNumber(page, w, found, waiting \o settled),
           page.total = <<Len(settled), Len(waiting)>>,
           w.total = None \/ w.total = page.total,
           NEW v, v = Turned(w, page)
    PROVE  /\ v \in WalkRecord
           /\ WellEnded(v, found) \/ (v.stage = "walking" /\ AtNumber(v, waiting, settled))
<1>1. w.got \in Seq(Txs) /\ page.txs \in Seq(Txs)
  BY DEF WalkRecord, BringsByNumber
<1>2. PICK all \in Seq(Txs) : /\ ToSet(all) = ToSet(w.got) \cup ToSet(page.txs)
                              /\ IsTurn(v, w, page, all)
  BY <1>1, TurnOf
<1>3. ASSUME NEW part \in Seq(Txs), v = Returned(part, TRUE)
      PROVE  v \in WalkRecord /\ WellEnded(v, found)
  <2>1. HasReturned(v, part, TRUE)
    BY <1>3, ReturnedIs
  <2> QED
    BY <2>1 DEF HasReturned, WellEnded
<1>4. CASE /\ v = Returned(all, FALSE)
           /\ page.next = None \/ ToSet(page.txs) \subseteq ToSet(w.got)
  <2>1. HasReturned(v, all, FALSE)
    BY <1>4, ReturnedIs
  <2>2. found \subseteq ToSet(w.got) \cup ToSet(page.txs)
    BY <1>4 DEF BringsByNumber
  <2> QED
    BY <1>2, <2>1, <2>2 DEF HasReturned, WellEnded
<1>5. CASE v = GoesOn(w, page, all) /\ page.next # None
  <2>1. PICK n \in Nat : /\ page.next = <<n>> /\ n < Len(waiting \o settled)
                         /\ ToSet(w.got) \cup ToSet(page.txs) = FirstOf(waiting \o settled, n)
    BY <1>5 DEF BringsByNumber
  <2>2. page.next \in Seq(Txs) \cup Seq(Nat)
    BY <2>1
  <2>3. PICK b \in Nat, m \in Nat : b = Len(settled) /\ m = Len(waiting)
    OBVIOUS
  <2>4. page.total = <<b, m>> /\ page.total \in Seq(Nat)
    BY <2>3
  <2>5. HasGoneOn(v, w, page, all)
    BY <1>5, <2>2, <2>4, GoesOnIs
  <2>6. /\ v \in WalkRecord /\ v.stage = "walking" /\ v.got = all
        /\ v.cursor = page.next /\ v.total = page.total
    BY <2>4, <2>5 DEF HasGoneOn
  <2>7. n < b + m
    <3>1. Len(waiting \o settled) = Len(waiting) + Len(settled)
      OBVIOUS
    <3> QED
      BY <2>1, <2>3, <3>1
  <2>8. AtNumber(v, waiting, settled)
    BY <1>2, <2>1, <2>3, <2>4, <2>6, <2>7 DEF AtNumber
  <2> QED
    BY <2>6, <2>8
<1> QED
  BY <1>2, <1>3, <1>4, <1>5 DEF IsTurn

-----------------------------------------------------------------------------
\* What an answer makes of a walk: a moved list starts it over, or ends it.
AfterPage(w, page) ==
    IF ~Raced(w, page) THEN Turned(w, page)
    ELSE IF MayRestart(w) THEN [Restarted(w) EXCEPT !.attempt = @ + 1]
    ELSE Returned(w.got, TRUE)

\* ... and of one that starts over: nothing read, nothing to compare with.
LEMMA RestartedIs ==
    ASSUME NEW w \in WalkRecord, NEW v,
           \/ v = [Restarted(w) EXCEPT !.attempt = @ + 1]
           \/ v = [Restarted(w) EXCEPT !.host = @ + 1, !.attempt = 1]
    PROVE  /\ v \in WalkRecord /\ v.stage = w.stage
           /\ v.cursor = None /\ v.total = None /\ v.got = << >>
<1>1. << >> \in Seq(Txs) /\ << >> \in Seq(Nat)
  OBVIOUS
<1>2. PICK u : u = Restarted(w)
  OBVIOUS
<1>3. /\ u \in WalkRecord /\ u.stage = w.stage
      /\ u.cursor = << >> /\ u.total = << >> /\ u.got = << >>
  BY <1>1, <1>2 DEF Restarted, None, WalkRecord
<1>4. \/ v = [u EXCEPT !.attempt = u.attempt + 1]
      \/ v = [u EXCEPT !.host = u.host + 1, !.attempt = 1]
  BY <1>2
<1>5. u.attempt + 1 \in Nat /\ u.host + 1 \in Nat /\ 1 \in Nat
  BY <1>3 DEF WalkRecord
<1>6. v \in WalkRecord
  BY <1>3, <1>4, <1>5 DEF WalkRecord
<1>7. v.stage = u.stage /\ v.cursor = u.cursor /\ v.total = u.total /\ v.got = u.got
  BY <1>3, <1>4 DEF WalkRecord
<1> QED
  BY <1>3, <1>6, <1>7 DEF None

\* A walk that starts over is good.
LEMMA RestartIsGood ==
    ASSUME NEW w, w.stage = "walking", w.cursor = None, w.total = None, w.got = << >>,
           NEW found, NEW waiting, NEW settled, NEW paging
    PROVE  IsGood(w, found, waiting, settled, paging)
BY DEF IsGood, AtTxid, AtNumber

\* A page by txid leaves a good walk good.
LEMMA TxidPageIsGood ==
    ASSUME explorer.paging = "txid", NEW a \in Addresses,
           NEW waiting \in Seq(Txs), waiting = Of(a, mempool),
           NEW settled \in Seq(Txs), settled = Of(a, blocks), IsInjective(settled),
           ToSet(waiting) \cap ToSet(settled) = {},
           NEW found, found \subseteq ToSet(waiting) \cup ToSet(settled),
           NEW w \in WalkRecord, w.stage = "walking", AtTxid(w, found, settled),
           NEW page, page = PageAt(a, w.cursor)
    PROVE  /\ AfterPage(w, page) \in WalkRecord
           /\ IsGood(AfterPage(w, page), found, waiting, settled, explorer.paging)
<1>1. page = TxidPage(a, w.cursor)
  BY DEF PageAt
<1>2. PICK at : at = {i \in DOMAIN settled : <<settled[i]>> = w.cursor}
  OBVIOUS
<1>3. /\ page.txs = IF at = {} THEN waiting \o Window(settled, 0)
                    ELSE Window(settled, CHOOSE i \in at : TRUE)
      /\ page.total = None /\ page.next = CursorOf(page.txs, settled)
  BY <1>1, <1>2 DEF TxidPage
<1>4. w.total = None
  BY DEF AtTxid
<1>5. BringsByTxid(page, w, found, settled)
  <2>1. CASE w.cursor = None /\ w.got = << >>
    <3>1. ASSUME NEW i \in DOMAIN settled PROVE <<settled[i]>> # << >>
      OBVIOUS
    <3>2. at = {}
      BY <1>2, <2>1, <3>1 DEF None
    <3> QED
      BY <1>3, <2>1, <3>2, FirstByTxid
  <2>2. ASSUME NEW i \in DOMAIN settled, w.cursor = <<settled[i]>>,
               found \subseteq ToSet(w.got) \cup Behind(settled, i),
               ToSet(w.got) \cap Behind(settled, i) = {}
        PROVE  BringsByTxid(page, w, found, settled)
    <3>1. at = {i}
      <4>1. ASSUME NEW j \in DOMAIN settled, <<settled[j]>> = <<settled[i]>> PROVE j = i
        <5>1. settled[j] = settled[i]
          BY <4>1
        <5> QED
          BY <5>1 DEF IsInjective
      <4> QED
        BY <1>2, <2>2, <4>1
    <3>2. page.txs = Window(settled, i)
      BY <1>3, <3>1
    <3> QED
      BY <1>3, <2>2, <3>2, LaterByTxid
  <2> QED
    BY <2>1, <2>2 DEF AtTxid
<1>6. PICK v : v = Turned(w, page)
  OBVIOUS
<1>7. AfterPage(w, page) = v
  BY <1>4, <1>6 DEF AfterPage, Raced
<1>8. /\ v \in WalkRecord
      /\ WellEnded(v, found) \/ (v.stage = "walking" /\ AtTxid(v, found, settled))
  BY <1>4, <1>5, <1>6, TurnByTxid
<1> QED
  BY <1>7, <1>8 DEF IsGood, WellEnded

\* A page by number leaves a good walk good.
LEMMA NumberedPageIsGood ==
    ASSUME explorer.paging = "page", NEW a \in Addresses,
           NEW waiting \in Seq(Txs), waiting = Of(a, mempool), IsInjective(waiting),
           NEW settled \in Seq(Txs), settled = Of(a, blocks), IsInjective(settled),
           ToSet(waiting) \cap ToSet(settled) = {},
           NEW found, found \subseteq ToSet(waiting) \cup ToSet(settled),
           NEW w \in WalkRecord, w.stage = "walking", AtNumber(w, waiting, settled),
           NEW page, page = PageAt(a, w.cursor)
    PROVE  /\ AfterPage(w, page) \in WalkRecord
           /\ IsGood(AfterPage(w, page), found, waiting, settled, explorer.paging)
<1>1. page = NumberedPage(a, w.cursor)
  BY DEF PageAt
<1>2. PICK list : list = waiting \o settled
  OBVIOUS
<1>3. PICK from : from = IF w.cursor = None THEN 0 ELSE w.cursor[1]
  OBVIOUS
<1>4. /\ page.txs = Window(list, from)
      /\ page.next = IF from + PageSize < Len(list) THEN <<from + PageSize>> ELSE None
      /\ page.total = <<Len(settled), Len(waiting)>>
  BY <1>1, <1>2, <1>3 DEF NumberedPage
<1>5. list \in Seq(Txs) /\ Len(list) = Len(waiting) + Len(settled)
  BY <1>2
<1>6. ToSet(list) = ToSet(waiting) \cup ToSet(settled) /\ IsInjective(list)
  BY <1>2, BothLists
<1>7. PICK b \in Nat, m \in Nat : b = Len(settled) /\ m = Len(waiting)
  OBVIOUS
<1>8. CASE Raced(w, page)
  <2>1. CASE MayRestart(w)
    <3>1. PICK v : v = [Restarted(w) EXCEPT !.attempt = @ + 1]
      OBVIOUS
    <3>2. AfterPage(w, page) = v
      BY <1>8, <2>1, <3>1 DEF AfterPage
    <3>3. /\ v \in WalkRecord /\ v.stage = "walking"
          /\ v.cursor = None /\ v.total = None /\ v.got = << >>
      BY <3>1, RestartedIs
    <3> QED
      BY <3>2, <3>3, RestartIsGood
  <2>2. CASE ~MayRestart(w)
    <3>1. AfterPage(w, page) = Returned(w.got, TRUE) /\ w.got \in Seq(Txs)
      BY <1>8, <2>2 DEF AfterPage, WalkRecord
    <3>2. HasReturned(Returned(w.got, TRUE), w.got, TRUE)
      BY <3>1, ReturnedIs
    <3> QED
      BY <3>1, <3>2 DEF HasReturned, IsGood
  <2> QED
    BY <2>1, <2>2
<1>9. CASE ~Raced(w, page)
  <2>1. w.total = None \/ w.total = page.total
    BY <1>9 DEF Raced
  <2>2. from \in 0..Len(list) /\ ToSet(w.got) = FirstOf(list, from)
    <3>1. CASE w.total = None /\ w.cursor = None /\ w.got = << >>
      <4>1. (0 + 1)..0 = {}
        OBVIOUS
      <4>2. ToSet(w.got) = {} /\ FirstOf(list, 0) = {}
        BY <3>1, <4>1 DEF ToSet, FirstOf, Between
      <4>3. from = 0 /\ 0 \in 0..Len(list)
        BY <1>3, <1>5, <3>1
      <4> QED
        BY <4>2, <4>3
    <3>2. ASSUME NEW c \in Nat, NEW k \in Nat, w.total = <<c, k>>,
                 \/ b > c
                 \/ b = c /\ m > k
                 \/ /\ b = c /\ m = k
                    /\ \E n \in Nat : /\ w.cursor = <<n>> /\ n < c + k
                                      /\ ToSet(w.got) = FirstOf(waiting \o settled, n)
          PROVE  from \in 0..Len(list) /\ ToSet(w.got) = FirstOf(list, from)
      <4>1. <<c, k>> # << >>
        OBVIOUS
      <4>2. <<c, k>> = <<b, m>>
        BY <1>4, <1>7, <2>1, <3>2, <4>1 DEF None
      <4>3. c = b /\ k = m
        BY <4>2
      <4>4. PICK n \in Nat : /\ w.cursor = <<n>> /\ n < c + k
                             /\ ToSet(w.got) = FirstOf(waiting \o settled, n)
        BY <3>2, <4>3
      <4>5. <<n>> # << >> /\ <<n>>[1] = n
        OBVIOUS
      <4>6. from = n
        BY <1>3, <4>4, <4>5 DEF None
      <4>7. n \in 0..Len(list)
        BY <1>5, <1>7, <4>3, <4>4
      <4> QED
        BY <1>2, <4>4, <4>6, <4>7
    <3> QED
      BY <1>7, <3>1, <3>2 DEF AtNumber
  <2>3. BringsByNumber(page, w, found, list)
    BY <1>4, <1>5, <1>6, <2>2, NextByNumber
  <2>4. PICK v : v = Turned(w, page)
    OBVIOUS
  <2>5. AfterPage(w, page) = v
    BY <1>9, <2>4 DEF AfterPage
  <2>6. /\ v \in WalkRecord
        /\ WellEnded(v, found) \/ (v.stage = "walking" /\ AtNumber(v, waiting, settled))
    <3>1. BringsByNumber(page, w, found, waiting \o settled)
      BY <1>2, <2>3
    <3>2. page.total = <<Len(settled), Len(waiting)>>
      BY <1>4
    <3> QED
      BY <2>1, <2>4, <3>1, <3>2, TurnByNumber
  <2> QED
    BY <2>5, <2>6 DEF IsGood, WellEnded
<1> QED
  BY <1>8, <1>9

-----------------------------------------------------------------------------
\* What the chain does to the positions of a list: a transaction in front moves
\* each by one, and nothing comes behind one.
LEMMA BehindShifts ==
    ASSUME NEW settled \in Seq(Txs), NEW t \in Txs, NEW i \in DOMAIN settled
    PROVE  /\ i + 1 \in DOMAIN (<<t>> \o settled)
           /\ (<<t>> \o settled)[i + 1] = settled[i]
           /\ Behind(<<t>> \o settled, i + 1) = Behind(settled, i)
<1>1. PICK all : all = <<t>> \o settled
  OBVIOUS
<1>2. PICK n \in Nat : n = Len(settled) /\ DOMAIN settled = 1..n
  OBVIOUS
<1>3. all \in Seq(Txs) /\ Len(all) = n + 1 /\ DOMAIN all = 1..(n + 1)
  BY <1>1, <1>2
<1>4. \A j \in 1..n : all[j + 1] = settled[j]
  BY <1>1, <1>2
<1>5. i \in Nat /\ i \in 1..n /\ i + 1 \in 1..(n + 1)
  BY <1>2
<1>6. Behind(settled, i) \subseteq Behind(all, i + 1)
  <2> SUFFICES ASSUME NEW j \in (i + 1)..n PROVE settled[j] \in Behind(all, i + 1)
    BY <1>2 DEF Behind, Between
  <2>1. j \in 1..n /\ j + 1 \in ((i + 1) + 1)..(n + 1)
    BY <1>5
  <2>2. all[j + 1] = settled[j]
    BY <1>4, <2>1
  <2> QED
    BY <1>3, <2>1, <2>2 DEF Behind, Between
<1>7. Behind(all, i + 1) \subseteq Behind(settled, i)
  <2> SUFFICES ASSUME NEW j \in ((i + 1) + 1)..(n + 1) PROVE all[j] \in Behind(settled, i)
    BY <1>3 DEF Behind, Between
  <2>1. PICK k \in Nat : k = j - 1
    BY <1>5
  <2>2. k \in 1..n /\ k \in (i + 1)..n /\ j = k + 1
    BY <1>5, <2>1
  <2>3. all[j] = settled[k]
    BY <1>4, <2>2
  <2> QED
    BY <1>2, <2>2, <2>3 DEF Behind, Between
<1> QED
  BY <1>1, <1>2, <1>3, <1>4, <1>5, <1>6, <1>7

\* A walk stays good when nothing it has to find is lost and its lists stay, ...
LEMMA GoodWhenLess ==
    ASSUME NEW w, NEW found, NEW less, less \subseteq found,
           NEW waiting, NEW settled, NEW paging, IsGood(w, found, waiting, settled, paging),
           NEW other, paging = "txid" \/ other = waiting
    PROVE  IsGood(w, less, other, settled, paging)
<1>1. AtTxid(w, found, settled) => AtTxid(w, less, settled)
  BY DEF AtTxid
<1> QED
  BY <1>1 DEF IsGood

\* ... when a transaction arrives in front of what is waiting, ...
LEMMA GoodWhenLonger ==
    ASSUME NEW w, NEW found, NEW t \in Txs,
           NEW waiting \in Seq(Txs), NEW settled \in Seq(Txs),
           NEW paging, IsGood(w, found, waiting, settled, paging)
    PROVE  IsGood(w, found, <<t>> \o waiting, settled, paging)
<1>1. PICK more : more = <<t>> \o waiting
  OBVIOUS
<1>2. Len(more) = Len(waiting) + 1 /\ Len(waiting) \in Nat
  BY <1>1
<1>3. ASSUME AtNumber(w, waiting, settled) PROVE AtNumber(w, more, settled)
  <2>1. CASE w.total = None /\ w.cursor = None /\ w.got = << >>
    BY <2>1 DEF AtNumber
  <2>2. ASSUME NEW b \in Nat, NEW m \in Nat, w.total = <<b, m>>,
               Len(settled) > b \/ (Len(settled) = b /\ Len(waiting) > m)
                              \/ (Len(settled) = b /\ Len(waiting) = m)
        PROVE  AtNumber(w, more, settled)
    <3>1. Len(settled) > b \/ (Len(settled) = b /\ Len(more) > m)
      BY <1>2, <2>2
    <3> QED
      BY <2>2, <3>1 DEF AtNumber
  <2> QED
    BY <1>3, <2>1, <2>2 DEF AtNumber
<1> QED
  BY <1>1, <1>3 DEF IsGood

\* ... and when one is mined in front of the others, whatever is waiting then.
LEMMA GoodWhenMined ==
    ASSUME NEW w, NEW found, NEW t \in Txs,
           NEW waiting, NEW settled \in Seq(Txs), NEW other,
           NEW paging, IsGood(w, found, waiting, settled, paging)
    PROVE  IsGood(w, found, other, <<t>> \o settled, paging)
<1>1. PICK more : more = <<t>> \o settled
  OBVIOUS
<1>2. Len(more) = Len(settled) + 1 /\ Len(settled) \in Nat
  BY <1>1
<1>3. ASSUME AtNumber(w, waiting, settled) PROVE AtNumber(w, other, more)
  <2>1. CASE w.total = None /\ w.cursor = None /\ w.got = << >>
    BY <2>1 DEF AtNumber
  <2>2. ASSUME NEW b \in Nat, NEW m \in Nat, w.total = <<b, m>>,
               Len(settled) > b \/ Len(settled) = b
        PROVE  AtNumber(w, other, more)
    <3>1. Len(more) > b
      BY <1>2, <2>2
    <3> QED
      BY <2>2, <3>1 DEF AtNumber
  <2> QED
    BY <1>3, <2>1, <2>2 DEF AtNumber
<1>4. ASSUME AtTxid(w, found, settled) PROVE AtTxid(w, found, more)
  <2>1. CASE w.cursor = None /\ w.got = << >>
    BY <1>4, <2>1 DEF AtTxid
  <2>2. ASSUME NEW i \in DOMAIN settled, w.cursor = <<settled[i]>>,
               found \subseteq ToSet(w.got) \cup Behind(settled, i),
               ToSet(w.got) \cap Behind(settled, i) = {}
        PROVE  AtTxid(w, found, more)
    <3>1. /\ i + 1 \in DOMAIN more /\ more[i + 1] = settled[i]
          /\ Behind(more, i + 1) = Behind(settled, i)
      BY <1>1, BehindShifts
    <3> QED
      BY <1>4, <2>2, <3>1 DEF AtTxid
  <2> QED
    BY <1>4, <2>1, <2>2 DEF AtTxid
<1> QED
  BY <1>1, <1>3, <1>4 DEF IsGood

-----------------------------------------------------------------------------
\* The lists of an address, as its explorer serves them.
LEMMA ListsOf ==
    ASSUME HistoryTyped, NEW a \in Addresses
    PROVE  /\ Of(a, mempool) \in Seq(Txs) /\ IsInjective(Of(a, mempool))
           /\ ToSet(Of(a, mempool)) = ToSet(mempool) \cap Touching[a]
           /\ Of(a, blocks) \in Seq(Txs) /\ IsInjective(Of(a, blocks))
           /\ ToSet(Of(a, blocks)) = ToSet(blocks) \cap Touching[a]
<1>1. mempool \in Seq(Txs) /\ IsInjective(mempool) /\ blocks \in Seq(Txs) /\ IsInjective(blocks)
  BY DEF HistoryTyped
<1>2. /\ Only(mempool, Touching[a]) \in Seq(Txs) /\ IsInjective(Only(mempool, Touching[a]))
      /\ ToSet(Only(mempool, Touching[a])) = ToSet(mempool) \cap Touching[a]
  BY <1>1, OnlyOf
<1>3. /\ Only(blocks, Touching[a]) \in Seq(Txs) /\ IsInjective(Only(blocks, Touching[a]))
      /\ ToSet(Only(blocks, Touching[a])) = ToSet(blocks) \cap Touching[a]
  BY <1>1, OnlyOf
<1> QED
  BY <1>2, <1>3 DEF Of

\* A list with a transaction in front that was not in it.
LEMMA InFront ==
    ASSUME NEW txs \in Seq(Txs), IsInjective(txs), NEW t \in Txs, t \notin ToSet(txs)
    PROVE  /\ <<t>> \o txs \in Seq(Txs) /\ IsInjective(<<t>> \o txs)
           /\ ToSet(<<t>> \o txs) = {t} \cup ToSet(txs)
<1>1. PICK one : one = <<t>>
  OBVIOUS
<1>2. one \in Seq(Txs) /\ Len(one) = 1 /\ one[1] = t /\ DOMAIN one = {1}
  BY <1>1
<1>3. ToSet(one) = {t} /\ IsInjective(one)
  BY <1>2 DEF ToSet, IsInjective
<1>4. ToSet(one) \cap ToSet(txs) = {}
  BY <1>3
<1>5. one \o txs \in Seq(Txs) /\ ToSet(one \o txs) = ToSet(one) \cup ToSet(txs)
  BY <1>2, BothLists
<1>6. IsInjective(one \o txs)
  BY <1>2, <1>3, <1>4, BothLists
<1> QED
  BY <1>1, <1>3, <1>5, <1>6

\* A transaction that arrives or is mined in front of the others.
LEMMA OfInFront ==
    ASSUME NEW txs \in Seq(Txs), NEW t \in Txs, NEW a \in Addresses
    PROVE  Of(a, <<t>> \o txs) = IF t \in Touching[a] THEN <<t>> \o Of(a, txs) ELSE Of(a, txs)
BY OnlyPrepend DEF Of

\* A transaction that leaves the mempool.
LEMMA WithoutIt ==
    ASSUME NEW txs \in Seq(Txs), IsInjective(txs), NEW t \in Txs
    PROVE  /\ Without(t, txs) \in Seq(Txs) /\ IsInjective(Without(t, txs))
           /\ ToSet(Without(t, txs)) = ToSet(txs) \ {t}
<1>1. PICK kept : kept = Only(txs, Txs \ {t})
  OBVIOUS
<1>2. kept \in Seq(Txs) /\ IsInjective(kept) /\ ToSet(kept) = ToSet(txs) \cap (Txs \ {t})
  BY <1>1, OnlyOf
<1>3. ToSet(txs) \subseteq Txs
  BY DEF ToSet
<1> QED
  BY <1>1, <1>2, <1>3 DEF Without

\* An address it does not touch has the same list as before.
LEMMA OfWithoutIt ==
    ASSUME NEW txs \in Seq(Txs), NEW t \in Txs, NEW a \in Addresses, t \notin Touching[a]
    PROVE  Of(a, Without(t, txs)) = Of(a, txs)
<1>1. \A u \in Txs : u \in Touching[a] => u \in Txs \ {t}
  OBVIOUS
<1> QED
  BY <1>1, OnlyTwice DEF Of, Without

\* An arrival leaves every walk good.
LEMMA ArriveKeeps ==
    ASSUME HistoryTyped, \A a \in Addresses : WalkIsGood(a), NEW t \in Txs, Arrive(t)
    PROVE  HistoryTyped' /\ \A a \in Addresses : WalkIsGood(a)'
<1>1. /\ mempool \in Seq(Txs) /\ IsInjective(mempool) /\ blocks \in Seq(Txs)
      /\ ToSet(mempool) \cap ToSet(blocks) = {}
  BY DEF HistoryTyped
<1>2. t \notin ToSet(mempool) /\ t \notin ToSet(blocks) /\ mempool' = <<t>> \o mempool
  BY DEF Arrive, Present
<1>3. explorer' = explorer /\ blocks' = blocks /\ walk' = walk /\ known' = known
  BY DEF Arrive
<1>4. /\ mempool' \in Seq(Txs) /\ IsInjective(mempool')
      /\ ToSet(mempool') = {t} \cup ToSet(mempool)
  BY <1>1, <1>2, InFront
<1>5. HistoryTyped'
  <2>1. ToSet(mempool') \cap ToSet(blocks') = {}
    BY <1>1, <1>2, <1>3, <1>4
  <2> QED
    BY <1>3, <1>4, <2>1 DEF HistoryTyped
<1>6. ASSUME NEW a \in Addresses PROVE WalkIsGood(a)'
  <2>1. known[a] \subseteq Present \cap Touching[a]
        /\ IsGood(walk[a], known[a], Of(a, mempool), Of(a, blocks), explorer.paging)
    BY DEF WalkIsGood
  <2>2. known'[a] \subseteq Present' \cap Touching[a]
    BY <1>3, <1>4, <2>1 DEF Present
  <2>3. Of(a, mempool') = IF t \in Touching[a] THEN <<t>> \o Of(a, mempool) ELSE Of(a, mempool)
    BY <1>1, <1>2, OfInFront
  <2>4. Of(a, mempool) \in Seq(Txs) /\ Of(a, blocks) \in Seq(Txs)
    BY ListsOf
  <2>5. IsGood(walk[a], known[a], <<t>> \o Of(a, mempool), Of(a, blocks), explorer.paging)
    BY <2>1, <2>4, GoodWhenLonger
  <2>6. IsGood(walk'[a], known'[a], Of(a, mempool'), Of(a, blocks'), explorer'.paging)
    BY <1>3, <2>1, <2>3, <2>5
  <2> QED
    BY <2>2, <2>6 DEF WalkIsGood
<1> QED
  BY <1>5, <1>6

\* So does a transaction that is mined, ...
LEMMA MineKeeps ==
    ASSUME HistoryTyped, \A a \in Addresses : WalkIsGood(a), NEW t \in Txs, Mine(t)
    PROVE  HistoryTyped' /\ \A a \in Addresses : WalkIsGood(a)'
<1>1. /\ mempool \in Seq(Txs) /\ IsInjective(mempool)
      /\ blocks \in Seq(Txs) /\ IsInjective(blocks)
      /\ ToSet(mempool) \cap ToSet(blocks) = {}
  BY DEF HistoryTyped
<1>2. /\ t \in ToSet(mempool) /\ t \notin ToSet(blocks)
      /\ mempool' = Without(t, mempool) /\ blocks' = <<t>> \o blocks
  BY <1>1 DEF Mine
<1>3. explorer' = explorer /\ walk' = walk /\ known' = known
  BY DEF Mine
<1>4. /\ mempool' \in Seq(Txs) /\ IsInjective(mempool')
      /\ ToSet(mempool') = ToSet(mempool) \ {t}
  BY <1>1, <1>2, WithoutIt
<1>5. /\ blocks' \in Seq(Txs) /\ IsInjective(blocks')
      /\ ToSet(blocks') = {t} \cup ToSet(blocks)
  BY <1>1, <1>2, InFront
<1>6. HistoryTyped'
  <2>1. ToSet(mempool') \cap ToSet(blocks') = {}
    BY <1>1, <1>4, <1>5
  <2> QED
    BY <1>3, <1>4, <1>5, <2>1 DEF HistoryTyped
<1>7. ASSUME NEW a \in Addresses PROVE WalkIsGood(a)'
  <2>1. known[a] \subseteq Present \cap Touching[a]
        /\ IsGood(walk[a], known[a], Of(a, mempool), Of(a, blocks), explorer.paging)
    BY DEF WalkIsGood
  <2>2. known'[a] \subseteq Present' \cap Touching[a]
    BY <1>2, <1>3, <1>4, <1>5, <2>1 DEF Present
  <2>3. Of(a, blocks') = IF t \in Touching[a] THEN <<t>> \o Of(a, blocks) ELSE Of(a, blocks)
    BY <1>1, <1>2, OfInFront
  <2>4. t \notin Touching[a] => Of(a, mempool') = Of(a, mempool)
    BY <1>1, <1>2, OfWithoutIt
  <2>5. Of(a, mempool) \in Seq(Txs) /\ Of(a, blocks) \in Seq(Txs)
    BY ListsOf
  <2>6. IsGood(walk[a], known[a], Of(a, mempool'), <<t>> \o Of(a, blocks), explorer.paging)
    BY <2>1, <2>5, GoodWhenMined
  <2>7. IsGood(walk'[a], known'[a], Of(a, mempool'), Of(a, blocks'), explorer'.paging)
    BY <1>3, <2>1, <2>3, <2>4, <2>6
  <2> QED
    BY <2>2, <2>7 DEF WalkIsGood
<1> QED
  BY <1>6, <1>7

\* ... and one that is dropped, where the explorer tells.
LEMMA EvictKeeps ==
    ASSUME HistoryTyped, \A a \in Addresses : WalkIsGood(a), Tells(explorer),
           NEW t \in Txs, Evict(t)
    PROVE  HistoryTyped' /\ \A a \in Addresses : WalkIsGood(a)'
<1>1. mempool \in Seq(Txs) /\ IsInjective(mempool) /\ ToSet(mempool) \cap ToSet(blocks) = {}
      /\ known \in [Addresses -> SUBSET Txs]
  BY DEF HistoryTyped
<1>2. explorer.paging = "txid"
  BY DEF Evict, Tells
<1>3. /\ t \in ToSet(mempool) /\ mempool' = Without(t, mempool)
      /\ known' = [a \in Addresses |-> known[a] \ {t}]
      /\ explorer' = explorer /\ blocks' = blocks /\ walk' = walk
  BY DEF Evict
<1>4. /\ mempool' \in Seq(Txs) /\ IsInjective(mempool')
      /\ ToSet(mempool') = ToSet(mempool) \ {t}
  BY <1>1, <1>3, WithoutIt
<1>5. HistoryTyped'
  <2>1. ToSet(mempool') \cap ToSet(blocks') = {}
    BY <1>1, <1>3, <1>4
  <2>2. known' \in [Addresses -> SUBSET Txs]
    BY <1>1, <1>3
  <2> QED
    BY <1>3, <1>4, <2>1, <2>2 DEF HistoryTyped
<1>6. ASSUME NEW a \in Addresses PROVE WalkIsGood(a)'
  <2>1. known[a] \subseteq Present \cap Touching[a]
        /\ IsGood(walk[a], known[a], Of(a, mempool), Of(a, blocks), explorer.paging)
    BY DEF WalkIsGood
  <2>2. known'[a] = known[a] \ {t}
    BY <1>3
  <2>3. known'[a] \subseteq Present' \cap Touching[a]
    BY <1>3, <1>4, <2>1, <2>2 DEF Present
  <2>4. IsGood(walk[a], known'[a], Of(a, mempool'), Of(a, blocks), explorer.paging)
    BY <1>2, <2>1, <2>2, GoodWhenLess
  <2>5. IsGood(walk'[a], known'[a], Of(a, mempool'), Of(a, blocks'), explorer'.paging)
    BY <1>3, <2>4
  <2> QED
    BY <2>3, <2>5 DEF WalkIsGood
<1> QED
  BY <1>5, <1>6

\* A step of one worker leaves the walks good if it leaves its own one good.
LEMMA WorkerKeeps ==
    ASSUME HistoryTyped, \A a \in Addresses : WalkIsGood(a), NEW a \in Addresses,
           UNCHANGED <<explorer, world>>,
           NEW v \in WalkRecord, walk' = [walk EXCEPT ![a] = v],
           NEW found, found \subseteq Present \cap Touching[a],
           known' = [known EXCEPT ![a] = found],
           IsGood(v, found, Of(a, mempool), Of(a, blocks), explorer.paging)
    PROVE  HistoryTyped' /\ \A b \in Addresses : WalkIsGood(b)'
<1>1. explorer' = explorer /\ mempool' = mempool /\ blocks' = blocks
  BY DEF world
<1>2. walk \in [Addresses -> WalkRecord] /\ known \in [Addresses -> SUBSET Txs]
  BY DEF HistoryTyped
<1>3. Touching[a] \subseteq Txs
  BY DEF Touching
<1>4. walk' \in [Addresses -> WalkRecord] /\ known' \in [Addresses -> SUBSET Txs]
  BY <1>2, <1>3
<1>5. HistoryTyped'
  BY <1>1, <1>4 DEF HistoryTyped
<1>6. ASSUME NEW b \in Addresses PROVE WalkIsGood(b)'
  <2>1. Present' = Present
    BY <1>1 DEF Present
  <2>2. CASE b = a
    <3>1. walk'[b] = v /\ known'[b] = found
      BY <1>2, <2>2
    <3>2. IsGood(walk'[b], known'[b], Of(b, mempool'), Of(b, blocks'), explorer'.paging)
      BY <1>1, <2>2, <3>1
    <3> QED
      BY <2>1, <2>2, <3>1, <3>2 DEF WalkIsGood
  <2>3. CASE b # a
    <3>1. walk'[b] = walk[b] /\ known'[b] = known[b]
      BY <1>2, <2>3
    <3>2. /\ known[b] \subseteq Present \cap Touching[b]
          /\ IsGood(walk[b], known[b], Of(b, mempool), Of(b, blocks), explorer.paging)
      BY DEF WalkIsGood
    <3>3. IsGood(walk'[b], known'[b], Of(b, mempool'), Of(b, blocks'), explorer'.paging)
      BY <1>1, <3>1, <3>2
    <3> QED
      BY <2>1, <3>1, <3>2, <3>3 DEF WalkIsGood
  <2> QED
    BY <2>2, <2>3
<1> QED
  BY <1>5, <1>6

\* What a worker knows of its walk when it acts.
LEMMA WalkOf ==
    ASSUME HistoryTyped, \A a \in Addresses : WalkIsGood(a), NEW a \in Addresses
    PROVE  /\ walk[a] \in WalkRecord /\ known[a] \subseteq Present \cap Touching[a]
           /\ known = [known EXCEPT ![a] = known[a]]
           /\ IsGood(walk[a], known[a], Of(a, mempool), Of(a, blocks), explorer.paging)
BY DEF HistoryTyped, WalkIsGood

\* A walk begins good, ...
LEMMA BeginWalkKeeps ==
    ASSUME HistoryTyped, \A a \in Addresses : WalkIsGood(a), NEW a \in Addresses, BeginWalk(a)
    PROVE  HistoryTyped' /\ \A b \in Addresses : WalkIsGood(b)'
<1>1. walk[a] \in WalkRecord
  BY WalkOf
<1>2. PICK v : v = [walk[a] EXCEPT !.stage = "walking"]
  OBVIOUS
<1>3. /\ v \in WalkRecord /\ v.stage = "walking"
      /\ v.cursor = walk[a].cursor /\ v.total = walk[a].total /\ v.got = walk[a].got
  BY <1>1, <1>2 DEF WalkRecord
<1>4. PICK found : found = Present \cap Touching[a]
  OBVIOUS
<1>5. /\ walk[a].stage = "idle" /\ walk' = [walk EXCEPT ![a] = v]
      /\ known' = [known EXCEPT ![a] = found] /\ UNCHANGED <<explorer, world>>
  BY <1>2, <1>4 DEF BeginWalk, HistoryTyped
<1>6. v.cursor = None /\ v.total = None /\ v.got = << >>
  <2>1. IsGood(walk[a], known[a], Of(a, mempool), Of(a, blocks), explorer.paging)
    BY WalkOf
  <2> QED
    BY <1>3, <1>5, <2>1 DEF IsGood
<1>7. IsGood(v, found, Of(a, mempool), Of(a, blocks), explorer.paging)
  BY <1>3, <1>6, RestartIsGood
<1> QED
  BY <1>3, <1>4, <1>5, <1>7, WorkerKeeps

\* ... a page that is answered leaves it good, ...
LEMMA FetchKeeps ==
    ASSUME HistoryTyped, \A a \in Addresses : WalkIsGood(a), NEW a \in Addresses,
           ~explorer.stubborn, explorer.paging \in {"txid", "page"}, FetchPage(a)
    PROVE  HistoryTyped' /\ \A b \in Addresses : WalkIsGood(b)'
<1>1. PICK w : w = walk[a]
  OBVIOUS
<1>2. PICK found : found = known[a]
  OBVIOUS
<1>3. PICK waiting : waiting = Of(a, mempool)
  OBVIOUS
<1>4. PICK settled : settled = Of(a, blocks)
  OBVIOUS
<1>5. PICK page : page = PageAt(a, w.cursor)
  OBVIOUS
<1>6. PICK v : v = AfterPage(w, page)
  OBVIOUS
<1>7. /\ w \in WalkRecord /\ found \subseteq Present \cap Touching[a]
      /\ known = [known EXCEPT ![a] = found]
      /\ IsGood(w, found, waiting, settled, explorer.paging)
  BY <1>1, <1>2, <1>3, <1>4, WalkOf
<1>8. /\ waiting \in Seq(Txs) /\ IsInjective(waiting)
      /\ settled \in Seq(Txs) /\ IsInjective(settled)
      /\ ToSet(waiting) = ToSet(mempool) \cap Touching[a]
      /\ ToSet(settled) = ToSet(blocks) \cap Touching[a]
  BY <1>3, <1>4, ListsOf
<1>9. /\ ToSet(waiting) \cap ToSet(settled) = {}
      /\ found \subseteq ToSet(waiting) \cup ToSet(settled)
  BY <1>7, <1>8 DEF HistoryTyped, Present
<1>10. /\ w.stage = "walking" /\ walk' = [walk EXCEPT ![a] = v]
       /\ UNCHANGED <<explorer, world, known>>
  <2>1. Answered(w.cursor) = {w.cursor}
    BY DEF Answered
  <2>2. {PageAt(a, at) : at \in Answered(w.cursor)} = {page}
    BY <1>5, <2>1
  <2>3. walk' = [walk EXCEPT ![a] =
                    IF ~Raced(w, page) THEN Turned(w, page)
                    ELSE IF MayRestart(w)
                    THEN [Restarted(w) EXCEPT !.attempt = @ + 1]
                    ELSE Returned(w.got, TRUE)]
    BY <1>1, <2>2 DEF FetchPage
  <2> QED
    BY <1>1, <1>6, <2>3 DEF FetchPage, AfterPage
<1>11. v \in WalkRecord /\ IsGood(v, found, waiting, settled, explorer.paging)
  <2>1. CASE explorer.paging = "txid"
    <3>1. AtTxid(w, found, settled)
      BY <1>7, <1>10, <2>1 DEF IsGood
    <3> QED
      BY <1>3, <1>4, <1>5, <1>6, <1>7, <1>8, <1>9, <1>10, <2>1, <3>1, TxidPageIsGood
  <2>2. CASE explorer.paging = "page"
    <3>1. AtNumber(w, waiting, settled)
      BY <1>7, <1>10, <2>2 DEF IsGood
    <3> QED
      BY <1>3, <1>4, <1>5, <1>6, <1>7, <1>8, <1>9, <1>10, <2>2, <3>1, NumberedPageIsGood
  <2> QED
    BY <2>1, <2>2
<1>12. known' = [known EXCEPT ![a] = found] /\ UNCHANGED <<explorer, world>>
  BY <1>7, <1>10
<1> QED
  BY <1>3, <1>4, <1>7, <1>10, <1>11, <1>12, WorkerKeeps

\* ... and so do the ends without an answer: truncated, ...
LEMMA ThrottledKeeps ==
    ASSUME HistoryTyped, \A a \in Addresses : WalkIsGood(a), NEW a \in Addresses,
           Throttled(a)
    PROVE  HistoryTyped' /\ \A b \in Addresses : WalkIsGood(b)'
<1>1. /\ walk[a] \in WalkRecord /\ known[a] \subseteq Present \cap Touching[a]
      /\ known = [known EXCEPT ![a] = known[a]]
  BY WalkOf
<1>2. PICK v : v = Returned(walk[a].got, TRUE)
  OBVIOUS
<1>3. walk[a].got \in Seq(Txs)
  BY <1>1 DEF WalkRecord
<1>4. v \in WalkRecord /\ v.stage = "done" /\ v.truncated
  <2>1. HasReturned(v, walk[a].got, TRUE)
    BY <1>2, <1>3, ReturnedIs
  <2> QED
    BY <2>1 DEF HasReturned
<1>5. IsGood(v, known[a], Of(a, mempool), Of(a, blocks), explorer.paging)
  BY <1>4 DEF IsGood
<1>6. /\ walk' = [walk EXCEPT ![a] = v] /\ known' = [known EXCEPT ![a] = known[a]]
      /\ UNCHANGED <<explorer, world>>
  BY <1>1, <1>2 DEF Throttled
<1> QED
  BY <1>1, <1>4, <1>5, <1>6, WorkerKeeps

\* ... on the next endpoint, or not at all.
LEMMA UnreachableKeeps ==
    ASSUME HistoryTyped, \A a \in Addresses : WalkIsGood(a), NEW a \in Addresses,
           Unreachable(a)
    PROVE  HistoryTyped' /\ \A b \in Addresses : WalkIsGood(b)'
<1>1. PICK w : w = walk[a]
  OBVIOUS
<1>2. /\ w \in WalkRecord /\ known[a] \subseteq Present \cap Touching[a]
      /\ known = [known EXCEPT ![a] = known[a]]
  BY <1>1, WalkOf
<1>3. PICK v : v = IF explorer.paging # "txid" /\ w.host < explorer.hosts
                   THEN [Restarted(w) EXCEPT !.host = @ + 1, !.attempt = 1]
                   ELSE [Fresh EXCEPT !.stage = "failed"]
  OBVIOUS
<1>4. /\ w.stage = "walking" /\ walk' = [walk EXCEPT ![a] = v]
      /\ known' = [known EXCEPT ![a] = known[a]] /\ UNCHANGED <<explorer, world>>
  BY <1>1, <1>2, <1>3 DEF Unreachable
<1>5. v \in WalkRecord /\ IsGood(v, known[a], Of(a, mempool), Of(a, blocks), explorer.paging)
  <2>1. CASE v = [Restarted(w) EXCEPT !.host = @ + 1, !.attempt = 1]
    <3>1. /\ v \in WalkRecord /\ v.stage = w.stage
          /\ v.cursor = None /\ v.total = None /\ v.got = << >>
      BY <1>2, <2>1, RestartedIs
    <3> QED
      BY <1>4, <3>1, RestartIsGood
  <2>2. CASE v = [Fresh EXCEPT !.stage = "failed"]
    <3>1. << >> \in Seq(Txs) /\ << >> \in Seq(Nat)
      OBVIOUS
    <3>2. v \in WalkRecord /\ v.stage = "failed"
      BY <2>2, <3>1 DEF Fresh, None, WalkRecord
    <3> QED
      BY <3>2 DEF IsGood
  <2> QED
    BY <1>3, <2>1, <2>2
<1> QED
  BY <1>2, <1>4, <1>5, WorkerKeeps

\* The listing begins with nothing walked, ...
LEMMA HistoryInitInv == HistoryInit => HistoryInv
<1> SUFFICES ASSUME HistoryInit PROVE HistoryInv
  OBVIOUS
<1>1. /\ explorer \in Explorers /\ mempool = << >> /\ blocks = Mined
      /\ walk = [a \in Addresses |-> Fresh] /\ known = [a \in Addresses |-> {}]
  BY DEF HistoryInit
<1>2. Fresh \in WalkRecord /\ Fresh.stage = "idle"
  <2>1. << >> \in Seq(Txs) /\ << >> \in Seq(Nat)
    OBVIOUS
  <2> QED
    BY <2>1 DEF Fresh, None, WalkRecord
<1>3. Fresh.cursor = None /\ Fresh.total = None /\ Fresh.got = << >>
  BY DEF Fresh
<1>4. Mined \in Seq(Txs) /\ IsInjective(Mined)
  BY HistoryAssumption
<1>5. /\ << >> \in Seq(Txs) /\ IsInjective(<< >>) /\ ToSet(<< >>) = {}
  BY DEF IsInjective, ToSet
<1>6. HistoryTyped
  BY <1>1, <1>2, <1>4, <1>5 DEF HistoryTyped
<1>7. ASSUME NEW a \in Addresses PROVE WalkIsGood(a)
  <2>1. walk[a] = Fresh /\ known[a] = {}
    BY <1>1
  <2> QED
    BY <1>2, <1>3, <2>1 DEF WalkIsGood, IsGood
<1> QED
  BY <1>1, <1>6, <1>7 DEF HistoryInv

\* ... and every step keeps its walks good.
LEMMA HistoryNextInv ==
    ASSUME NoHole PROVE HistoryInv /\ [HistoryNext]_historyVars => HistoryInv'
<1> SUFFICES ASSUME HistoryInv, [HistoryNext]_historyVars PROVE HistoryInv'
  OBVIOUS
<1>1. explorer \in Explorers
  BY DEF HistoryInv
<1>2. CASE UNCHANGED historyVars
  BY <1>2 DEF historyVars, world, HistoryInv, HistoryTyped, WalkIsGood, Present
<1>3. ASSUME HistoryNext, explorer.stubborn PROVE HistoryInv'
  <2>1. explorer' = explorer
    BY <1>3 DEF HistoryNext, Arrive, Mine, Evict, BeginWalk, FetchPage, Throttled, Unreachable
  <2> QED
    BY <1>1, <1>3, <2>1 DEF HistoryInv
<1>4. ASSUME HistoryNext, ~explorer.stubborn PROVE HistoryInv'
  <2>1. HistoryTyped /\ \A a \in Addresses : WalkIsGood(a)
    BY <1>4 DEF HistoryInv
  <2>2. Tells(explorer)
    BY <1>1, <1>4 DEF NoHole
  <2>3. explorer' = explorer
    BY <1>4 DEF HistoryNext, Arrive, Mine, Evict, BeginWalk, FetchPage, Throttled, Unreachable
  <2>4. HistoryTyped' /\ \A b \in Addresses : WalkIsGood(b)'
    <3>1. ASSUME NEW t \in Txs, Arrive(t)
          PROVE  HistoryTyped' /\ \A b \in Addresses : WalkIsGood(b)'
      BY <2>1, <3>1, ArriveKeeps
    <3>2. ASSUME NEW t \in Txs, Mine(t)
          PROVE  HistoryTyped' /\ \A b \in Addresses : WalkIsGood(b)'
      BY <2>1, <3>2, MineKeeps
    <3>3. ASSUME NEW t \in Txs, Evict(t)
          PROVE  HistoryTyped' /\ \A b \in Addresses : WalkIsGood(b)'
      BY <2>1, <2>2, <3>3, EvictKeeps
    <3>4. ASSUME NEW a \in Addresses, BeginWalk(a)
          PROVE  HistoryTyped' /\ \A b \in Addresses : WalkIsGood(b)'
      BY <2>1, <3>4, BeginWalkKeeps
    <3>5. ASSUME NEW a \in Addresses, FetchPage(a)
          PROVE  HistoryTyped' /\ \A b \in Addresses : WalkIsGood(b)'
      <4>1. explorer.paging \in {"txid", "page"}
        BY <2>2 DEF Tells
      <4> QED
        BY <1>4, <2>1, <3>5, <4>1, FetchKeeps
    <3>6. ASSUME NEW a \in Addresses, Throttled(a)
          PROVE  HistoryTyped' /\ \A b \in Addresses : WalkIsGood(b)'
      BY <2>1, <3>6, ThrottledKeeps
    <3>7. ASSUME NEW a \in Addresses, Unreachable(a)
          PROVE  HistoryTyped' /\ \A b \in Addresses : WalkIsGood(b)'
      BY <2>1, <3>7, UnreachableKeeps
    <3> QED
      BY <1>4, <3>1, <3>2, <3>3, <3>4, <3>5, <3>6, <3>7 DEF HistoryNext
  <2> QED
    BY <1>1, <2>3, <2>4 DEF HistoryInv
<1> QED
  BY <1>2, <1>3, <1>4

\* The walks are good in every state.
LEMMA HistoryInvHolds == ASSUME NoHole PROVE HistorySpec => []HistoryInv
<1>1. HistoryInit => HistoryInv
  BY HistoryInitInv
<1>2. HistoryInv /\ [HistoryNext]_historyVars => HistoryInv'
  BY HistoryNextInv
<1> QED
  BY <1>1, <1>2, PTL DEF HistorySpec

\* A listing never passes a hole in an address' history off as all there is:
\* whatever arrives, is mined or evicted while the pages are read, a walk that
\* ends without calling itself truncated has everything that was there when it
\* began.
THEOREM ListingIsComplete ==
    ASSUME NoHole
    PROVE  HistorySpec => []CompleteOrSaidSo
<1>1. HistoryInv => CompleteOrSaidSo
  BY DEF HistoryInv, WalkIsGood, IsGood, CompleteOrSaidSo
<1> QED
  BY <1>1, HistoryInvHolds, PTL

\* An output that a complete listing reports as unspent was not spent when the
\* listing began: the spend touches the address, so the walk would have it.
THEOREM UnspentWasUnspent ==
    ASSUME NoHole
    PROVE  HistorySpec => []UnspentIsTrue
<1>1. HistoryInv => UnspentIsTrue
  <2> SUFFICES ASSUME HistoryInv, Assembled, ~explorer.stubborn, NEW o \in Outputs,
                      ~SeenSpent(o), ~walk[o[2]].truncated,
                      NEW t \in known[o[2]], o \in Spends[t]
               PROVE  FALSE
    BY DEF UnspentIsTrue
  <2>1. o[2] \in Addresses
    BY DEF Outputs
  <2>2. walk[o[2]].stage = "done"
    BY <2>1 DEF Assembled
  <2>3. known[o[2]] \subseteq ToSet(walk[o[2]].got)
    BY <2>1, <2>2 DEF HistoryInv, WalkIsGood, IsGood
  <2>4. t \in Listed
    BY <2>1, <2>3 DEF Listed
  <2> QED
    BY <2>4 DEF SeenSpent
<1> QED
  BY <1>1, HistoryInvHolds, PTL

-----------------------------------------------------------------------------
(* CowSwap.                                                                *)

\* The user runs the command again only after reports that promise that the
\* run has no order in the book, and asks for the same amount.
SameSwap == Rerun \subseteq NoOrder /\ \A a, b \in Amounts : a = b

\* What a run may have to approve, and the reports of runs that approve nothing.
Plans(a)    == {<< >>, <<a>>, <<0, a>>}
NothingSent == {"aborted", "gate", "dryrun", "declined", "expired"}

RunRecord == [stage : Stage, told : Reports \cup {"nothing"}, amt : Nat, exp : Nat,
              nonce : Nat, plan : Seq(Nat), step : 1..2, deadline : Nat]

\* What a run is in each of its stages.
IsRun(w) ==
    /\ w \in RunRecord
    /\ w.stage = "ended" <=> w.told # "nothing"
    /\ w.stage # "unused" => w.amt \in Amounts
    /\ w.stage \in {"unused", "quoting"} => w.plan = << >>
    /\ w.stage \in {"unused", "quoting", "prompt"} => w.step = 1
    /\ w.plan \in Plans(w.amt)
    /\ w.stage = "approving" \/ w.told = "rejected" => w.step <= Len(w.plan)
    /\ w.stage = "waiting" \/ w.told \in {"timeout", "reverted"} => w.plan # << >>

CowTyped ==
    /\ now \in Nat
    /\ run \in [Runs -> RunRecord] /\ \A r \in Runs : IsRun(run[r])
    /\ pool \subseteq Tx /\ inflight \subseteq Tx
    /\ mined \in Nat
    /\ receipt \in [Runs \X (1..2) -> {"none", "ok", "reverted"}]
    /\ allowance \in Nat
    /\ orders \in [Runs -> {"none", "open", "filled"}]

\* A run is started when every earlier one has ended and may be run again.
OneByOne ==
    \A r \in Runs : run[r].stage # "unused" => \A q \in 1..(r - 1) : MayRerun(q)

\* A transaction of a run is the step of its plan that it says.
IsOf(t, w) ==
    /\ w.stage \in {"approving", "waiting", "submitting", "ended"}
    /\ w.told \notin NothingSent
    /\ w.stage = "approving" \/ w.told = "rejected" => t.step < w.step
    /\ t.step \in 1..Len(w.plan) /\ t.amt = w.plan[t.step]
    /\ t.nonce = w.nonce + t.step - 1

\* The mempool has every nonce from the chain's next one up to a nonce.
Reached(n) == \A m \in mined..(n - 1) : \E u \in pool : u.nonce = m

Sent ==
    /\ \A t \in pool \cup inflight : IsOf(t, run[t.run]) /\ Reached(t.nonce)
    /\ \A t \in pool : t.nonce >= mined
    /\ \A t, u \in pool : t.nonce = u.nonce => t = u

\* Where a run's next transaction goes, and that no earlier run's goes later.
NextNonce(w) == IF w.stage = "approving" THEN w.nonce + w.step - 1 ELSE w.nonce
InTurn ==
    /\ \A r \in Runs :
           /\ run[r].stage = "unused" => mined <= 2 * (r - 1)
           /\ run[r].stage # "unused" => /\ run[r].nonce <= 2 * (r - 1)
                                         /\ Reached(NextNonce(run[r]))
    /\ \A r \in Runs : \A t \in pool \cup inflight :
           run[r].stage # "unused" /\ t.run < r => t.nonce <= run[r].nonce

\* A receipt is that of a transaction of the plan, whose nonce is used up.
Receipts ==
    /\ \A q \in Runs : \A s \in 1..2 :
           receipt[<<q, s>>] # "none" => /\ s <= Len(run[q].plan)
                                         /\ run[q].nonce + s - 1 < mined
    /\ \A q \in Runs :
           run[q].told = "reverted" => receipt[<<q, Len(run[q].plan)>>] # "none"

\* The amount of a run whose last approval went through stays approved until
\* its order is filled or a later run approves.
Approved ==
    \A q \in Runs :
        /\ run[q].plan # << >> /\ receipt[<<q, Len(run[q].plan)>>] = "ok"
        /\ orders[q] # "filled"
        /\ \A r \in Runs : r > q => run[r].stage \in {"unused", "quoting"}
        => allowance >= run[q].amt

Submitted ==
    \A r \in Runs : orders[r] # "none" => run[r].told \in {"submitted", "submitfailed"}

CowInv == CowTyped /\ OneByOne /\ Sent /\ InTurn /\ Receipts /\ Approved /\ Submitted

\* While every approval that was posted was answered, ...
Calm  == \A r \in Runs : run[r].told # "unknown"
Short == \A a \in Amounts : allowance < a

\* ... only the last run has the amount itself to approve, all that is pending
\* or still to be approved meets an allowance that is short of it, and what was
\* found or was made sufficient stays so.
LastApproval(t) ==
    /\ run[t.run].stage # "approving"
    /\ \A r \in Runs : r > t.run => run[r].stage = "unused"

ToApprove(r) ==
    run[r].stage = "approving" \/ (run[r].stage = "prompt" /\ run[r].plan # << >>)

Ready(r) ==
    \/ run[r].stage = "prompt" /\ run[r].plan = << >>
    \/ run[r].stage = "submitting"
    \/ orders[r] = "open"

Funded ==
    /\ inflight = {}
    /\ \A t \in pool : t.amt # 0 => LastApproval(t)
    /\ pool # {} => Short
    /\ \A r \in Runs : ToApprove(r) => Short
    /\ \A r \in Runs : Ready(r) => allowance >= run[r].amt

CalmInv == Calm => Funded

-----------------------------------------------------------------------------
\* The last thing a run approves is its amount, and what it approves before is
\* the reset.
LEMMA PlanOf ==
    ASSUME NEW a \in Nat \ {0}, NEW p \in Plans(a)
    PROVE  /\ p \in Seq(Nat) /\ Len(p) \in 0..2
           /\ p = << >> <=> Len(p) = 0
           /\ p # << >> => p[Len(p)] = a
           /\ \A i \in 1..Len(p) : p[i] \in {0, a} /\ (p[i] # 0 => i = Len(p))
<1>1. CASE p = << >>
  BY <1>1
<1>2. CASE p = <<a>>
  BY <1>2
<1>3. CASE p = <<0, a>>
  BY <1>3
<1> QED
  BY <1>1, <1>2, <1>3 DEF Plans

\* The plan of a run, which approves what is missing.
LEMMA ApprovalsOf ==
    ASSUME NEW a \in Nat \ {0}, NEW current \in Nat
    PROVE  /\ Approvals(a, current) \in Plans(a)
           /\ Approvals(a, current) = << >> => current >= a
           /\ Approvals(a, current) # << >> => current < a
<1>1. <<a>> # << >> /\ <<0, a>> # << >>
  OBVIOUS
<1> QED
  BY <1>1 DEF Approvals, Plans

\* A run of the inventory of runs.
LEMMA RunOf ==
    ASSUME CowTyped, NEW r \in Runs
    PROVE  /\ run[r] \in RunRecord /\ IsRun(run[r]) /\ r \in Nat /\ r >= 1
           /\ run[r].nonce \in Nat /\ run[r].step \in 1..2 /\ run[r].amt \in Nat
           /\ run[r].plan \in Seq(Nat) /\ Len(run[r].plan) \in Nat
BY CowAssumption DEF CowTyped, RunRecord, Runs

\* What is under way is the last run: none is started before it has ended.
LEMMA NoneLater ==
    ASSUME CowTyped, OneByOne, NEW r \in Runs, run[r].stage # "ended"
    PROVE  \A s \in Runs : s > r => run[s].stage = "unused"
<1> SUFFICES ASSUME NEW s \in Runs, s > r, run[s].stage # "unused" PROVE FALSE
  OBVIOUS
<1>1. r \in 1..(s - 1)
  BY CowAssumption DEF Runs
<1>2. MayRerun(r)
  BY <1>1 DEF OneByOne
<1> QED
  BY <1>2 DEF MayRerun

\* A run that has an order is the last one, too.
LEMMA OrderIsLast ==
    ASSUME SameSwap, CowTyped, OneByOne, Submitted, NEW r \in Runs, orders[r] # "none"
    PROVE  \A s \in Runs : s > r => run[s].stage = "unused"
<1> SUFFICES ASSUME NEW s \in Runs, s > r, run[s].stage # "unused" PROVE FALSE
  OBVIOUS
<1>1. r \in 1..(s - 1)
  BY CowAssumption DEF Runs
<1>2. run[r].told \in Rerun
  BY <1>1 DEF OneByOne, MayRerun
<1> QED
  BY <1>2 DEF Submitted, SameSwap, NoOrder

-----------------------------------------------------------------------------
\* A run that is under way goes on: its amount and its nonce stay, and so does
\* its plan once it has one.
GoesOnAs(o, w) ==
    /\ o.stage \notin {"unused", "ended"} /\ w.stage \notin {"unused", "quoting"}
    /\ w.amt = o.amt /\ w.nonce = o.nonce
    /\ o.stage = "quoting" \/ w.plan = o.plan

\* What depends on the runs alone is kept when one of them goes on.
LEMMA RunGoesOn ==
    ASSUME CowInv, NEW r \in Runs, NEW w, IsRun(w), GoesOnAs(run[r], w),
           run' = [run EXCEPT ![r] = w], UNCHANGED <<mined, receipt, allowance>>,
           w.told = "reverted" => receipt[<<r, Len(w.plan)>>] # "none",
           \A q \in Runs : orders'[q] = orders[q]
               \/ (q = r /\ orders'[q] = "open" /\ w.told \in {"submitted", "submitfailed"})
    PROVE  OneByOne' /\ Receipts' /\ Approved' /\ Submitted'
<1>1. CowTyped /\ OneByOne /\ Receipts /\ Approved /\ Submitted
  BY DEF CowInv
<1>2. /\ run[r].stage \notin {"unused", "ended"} /\ w.stage \notin {"unused", "quoting"}
      /\ w.amt = run[r].amt /\ w.nonce = run[r].nonce
      /\ run[r].stage = "quoting" \/ w.plan = run[r].plan
  BY DEF GoesOnAs
<1>3. run'[r] = w /\ \A q \in Runs : q # r => run'[q] = run[q]
  BY <1>1 DEF CowTyped
<1>4. \A s \in Runs : s > r => run[s].stage = "unused"
  BY <1>1, <1>2, NoneLater
<1>5. run[r].told = "nothing" /\ IsRun(run[r])
  BY <1>1, <1>2 DEF CowTyped, IsRun
<1>6. OneByOne'
  <2> SUFFICES ASSUME NEW s \in Runs, run'[s].stage # "unused", NEW q \in 1..(s - 1)
               PROVE  MayRerun(q)'
    BY DEF OneByOne
  <2>1. q \in Runs /\ s \in Nat /\ r \in Nat /\ q < s
    BY CowAssumption DEF Runs
  <2>2. run[s].stage # "unused"
    BY <1>2, <1>3
  <2>3. MayRerun(q)
    BY <1>1, <2>2 DEF OneByOne
  <2>4. q # r
    BY <1>2, <2>3 DEF MayRerun
  <2>5. run'[q] = run[q] /\ receipt' = receipt
    BY <1>3, <2>1, <2>4
  <2> QED
    BY <2>3, <2>5 DEF MayRerun
<1>7. ASSUME NEW q \in Runs, NEW s \in 1..2, receipt[<<q, s>>] # "none"
      PROVE  s <= Len(run'[q].plan) /\ run'[q].nonce + s - 1 < mined
  <2>1. s <= Len(run[q].plan) /\ run[q].nonce + s - 1 < mined
    BY <1>1, <1>7 DEF Receipts
  <2>2. CASE q # r
    BY <1>3, <2>1, <2>2
  <2>3. CASE q = r
    <3>1. run[r].stage = "quoting" => run[r].plan = << >>
      BY <1>5 DEF IsRun
    <3>2. run[r].stage # "quoting"
      BY <2>1, <2>3, <3>1
    <3> QED
      BY <1>2, <1>3, <2>1, <2>3, <3>2
  <2> QED
    BY <2>2, <2>3
<1>8. Receipts'
  <2>1. ASSUME NEW q \in Runs, run'[q].told = "reverted"
        PROVE  receipt[<<q, Len(run'[q].plan)>>] # "none"
    <3>1. CASE q # r
      BY <1>1, <1>3, <2>1, <3>1 DEF Receipts
    <3>2. CASE q = r
      BY <1>3, <2>1, <3>2
    <3> QED
      BY <3>1, <3>2
  <2>2. receipt' = receipt /\ mined' = mined
    OBVIOUS
  <2> QED
    BY <1>7, <2>1, <2>2 DEF Receipts
<1>9. Approved'
  <2> SUFFICES ASSUME NEW q \in Runs, run'[q].plan # << >>,
                      receipt[<<q, Len(run'[q].plan)>>] = "ok", orders'[q] # "filled",
                      \A s \in Runs : s > q => run'[s].stage \in {"unused", "quoting"}
               PROVE  allowance >= run'[q].amt
    BY DEF Approved
  <2>1. q \in Nat /\ r \in Nat
    BY DEF Runs
  <2>2. ~ (r > q)
    BY <1>2, <1>3
  <2>3. run'[q].plan = run[q].plan /\ run'[q].amt = run[q].amt
    <3>1. CASE q # r
      BY <1>3, <3>1
    <3>2. CASE q = r
      <4>1. run[r].stage = "quoting" => run[r].plan = << >>
        BY <1>5 DEF IsRun
      <4>2. Len(w.plan) \in 1..2
        <5>1. w.amt \in Nat \ {0} /\ w.plan \in Plans(w.amt)
          BY <1>2, CowAssumption DEF IsRun
        <5> QED
          BY <1>3, <3>2, <5>1, PlanOf
      <4>3. Len(w.plan) <= Len(run[r].plan)
        BY <1>1, <1>3, <3>2, <4>2 DEF Receipts
      <4>4. run[r].stage # "quoting"
        BY <4>1, <4>2, <4>3
      <4> QED
        BY <1>2, <1>3, <3>2, <4>4
    <3> QED
      BY <3>1, <3>2
  <2>4. orders[q] # "filled"
    <3>1. CASE orders'[q] = orders[q]
      BY <3>1
    <3>2. CASE q = r
      <4>1. orders[r] = "none"
        BY <1>1, <1>5 DEF Submitted
      <4> QED
        BY <3>2, <4>1
    <3> QED
      BY <3>1, <3>2
  <2>5. \A s \in Runs : s > q => run[s].stage \in {"unused", "quoting"}
    BY <1>3, <2>2
  <2> QED
    BY <1>1, <2>3, <2>4, <2>5 DEF Approved
<1>10. Submitted'
  <2> SUFFICES ASSUME NEW q \in Runs, orders'[q] # "none"
               PROVE  run'[q].told \in {"submitted", "submitfailed"}
    BY DEF Submitted
  <2>1. CASE q = r
    <3>1. orders[r] = "none"
      BY <1>1, <1>5 DEF Submitted
    <3> QED
      BY <1>3, <2>1, <3>1
  <2>2. CASE q # r
    BY <1>1, <1>3, <2>2 DEF Submitted
  <2> QED
    BY <2>1, <2>2
<1> QED
  BY <1>6, <1>8, <1>9, <1>10

\* What is reached has everything before it reached.
LEMMA ReachedBelow ==
    ASSUME mined \in Nat, NEW n \in Nat, Reached(n), NEW m \in Nat, m <= n
    PROVE  Reached(m)
<1> SUFFICES ASSUME NEW k \in mined..(m - 1) PROVE \E u \in pool : u.nonce = k
  BY DEF Reached
<1>1. k \in mined..(n - 1)
  OBVIOUS
<1> QED
  BY <1>1 DEF Reached

\* The nonce a run was given is reached.
LEMMA RunReached ==
    ASSUME CowTyped, InTurn, NEW r \in Runs, run[r].stage # "unused"
    PROVE  Reached(run[r].nonce)
<1>1. /\ run[r].nonce \in Nat /\ run[r].step \in 1..2 /\ mined \in Nat
  BY RunOf DEF CowTyped
<1>2. NextNonce(run[r]) \in Nat /\ run[r].nonce <= NextNonce(run[r])
  BY <1>1 DEF NextNonce
<1>3. Reached(NextNonce(run[r]))
  BY DEF InTurn
<1> QED
  BY <1>1, <1>2, <1>3, ReachedBelow

\* A transaction is of a run that is started.
LEMMA TxOf ==
    ASSUME CowTyped, NEW t \in Tx, IsOf(t, run[t.run])
    PROVE  /\ t.run \in Runs /\ t.nonce \in Nat /\ t.step \in 1..2 /\ t.amt \in Nat
           /\ run[t.run].stage \notin {"unused", "quoting", "prompt"}
           /\ t.step <= Len(run[t.run].plan) /\ t.amt = run[t.run].plan[t.step]
           /\ t.nonce = run[t.run].nonce + t.step - 1
<1>1. t.run \in Runs /\ t.nonce \in Nat /\ t.step \in 1..2 /\ t.amt \in Nat
  BY DEF Tx
<1>2. Len(run[t.run].plan) \in Nat
  BY <1>1, RunOf
<1> QED
  BY <1>1, <1>2 DEF IsOf

\* What is pending and where it goes is kept when a run goes on and the mempool
\* does not move.
LEMMA SentGoesOn ==
    ASSUME CowInv, NEW r \in Runs, NEW w, IsRun(w), GoesOnAs(run[r], w),
           run' = [run EXCEPT ![r] = w], UNCHANGED <<pool, mined>>,
           w.stage = "approving" => w.step = 1,
           \A t \in pool \cup inflight : t.run = r => IsOf(t, w),
           \A t \in inflight' : t \in inflight
               \/ (t \in Tx /\ t.run = r /\ IsOf(t, w) /\ Reached(t.nonce))
    PROVE  Sent' /\ InTurn'
<1>1. CowTyped /\ OneByOne /\ Sent /\ InTurn /\ pool \subseteq Tx /\ inflight \subseteq Tx
  BY DEF CowInv, CowTyped
<1>2. /\ run[r].stage \notin {"unused", "ended"} /\ w.stage \notin {"unused", "quoting"}
      /\ w.amt = run[r].amt /\ w.nonce = run[r].nonce
  BY DEF GoesOnAs
<1>3. run'[r] = w /\ \A q \in Runs : q # r => run'[q] = run[q]
  BY <1>1 DEF CowTyped
<1>4. \A n : Reached(n)' <=> Reached(n)
  BY DEF Reached
<1>5. ASSUME NEW t \in pool' \cup inflight' PROVE IsOf(t, run'[t.run]) /\ Reached(t.nonce)
  <2>1. CASE t \in pool \cup inflight
    <3>1. IsOf(t, run[t.run]) /\ Reached(t.nonce) /\ t.run \in Runs
      BY <1>1, <2>1 DEF Sent, Tx
    <3> QED
      BY <1>3, <2>1, <3>1
  <2>2. CASE t \notin pool \cup inflight
    <3>1. t.run = r /\ IsOf(t, w) /\ Reached(t.nonce)
      BY <2>2
    <3> QED
      BY <1>3, <3>1
  <2> QED
    BY <2>1, <2>2
<1>6. Sent'
  <2>1. \A t \in pool : t.nonce >= mined
    BY <1>1 DEF Sent
  <2>2. \A t, u \in pool : t.nonce = u.nonce => t = u
    BY <1>1 DEF Sent
  <2> QED
    BY <1>4, <1>5, <2>1, <2>2 DEF Sent
<1>7. ASSUME NEW q \in Runs
      PROVE  /\ run'[q].stage = "unused" => mined <= 2 * (q - 1)
             /\ run'[q].stage # "unused" => /\ run'[q].nonce <= 2 * (q - 1)
                                            /\ Reached(NextNonce(run'[q]))
  <2>1. CASE q = r
    <3>1. run[r].nonce <= 2 * (r - 1) /\ Reached(run[r].nonce) /\ run[r].nonce \in Nat
      BY <1>1, <1>2, RunReached, RunOf DEF InTurn
    <3>2. NextNonce(w) = run[r].nonce
      BY <1>2, <3>1 DEF NextNonce
    <3> QED
      BY <1>2, <1>3, <2>1, <3>1, <3>2
  <2>2. CASE q # r
    BY <1>1, <1>3, <2>2 DEF InTurn
  <2> QED
    BY <2>1, <2>2
<1>8. ASSUME NEW q \in Runs, NEW t \in pool' \cup inflight',
             run'[q].stage # "unused", t.run < q
      PROVE  t.nonce <= run'[q].nonce
  <2>1. run[q].stage # "unused" /\ run'[q].nonce = run[q].nonce
    BY <1>2, <1>3, <1>8
  <2>2. CASE t \in pool \cup inflight
    BY <1>1, <1>8, <2>1, <2>2 DEF InTurn
  <2>3. CASE t \notin pool \cup inflight
    <3>1. t.run = r
      BY <2>3
    <3>2. q > r
      BY <1>8, <3>1 DEF Runs
    <3> QED
      BY <1>1, <1>2, <2>1, <3>2, NoneLater
  <2> QED
    BY <2>2, <2>3
<1>9. InTurn'
  BY <1>4, <1>7, <1>8 DEF InTurn
<1> QED
  BY <1>6, <1>9

-----------------------------------------------------------------------------
\* What the node takes in replaces what was pending with its nonce, and leaves
\* no hole before it.
LEMMA TakesInIs ==
    ASSUME CowTyped, Sent, NEW tx \in Tx, TakesIn(tx), mined' = mined, Reached(tx.nonce)
    PROVE  /\ pool' \subseteq Tx /\ tx \in pool' /\ \A t \in pool' : t = tx \/ t \in pool
           /\ \A n : Reached(n) => Reached(n)'
           /\ \A n : n = tx.nonce + 1 => Reached(n)'
           /\ \A t \in pool' : t.nonce >= mined
           /\ \A t, u \in pool' : t.nonce = u.nonce => t = u
<1>1. /\ tx.nonce >= mined /\ pool' = {t \in pool : t.nonce # tx.nonce} \cup {tx}
      /\ pool \subseteq Tx /\ tx.nonce \in Nat /\ mined \in Nat
  BY DEF TakesIn, CowTyped, Tx
<1>2. \A u \in pool : \E v \in pool' : v.nonce = u.nonce
  BY <1>1
<1>3. \A n : Reached(n) => Reached(n)'
  BY <1>2 DEF Reached
<1>4. \A n : n = tx.nonce + 1 => Reached(n)'
  <2>1. ASSUME NEW k \in mined..tx.nonce PROVE \E u \in pool' : u.nonce = k
    <3>1. k = tx.nonce \/ k \in mined..(tx.nonce - 1)
      BY <1>1
    <3>2. CASE k = tx.nonce
      BY <1>1, <3>2
    <3>3. CASE k \in mined..(tx.nonce - 1)
      BY <1>2, <3>3 DEF Reached
    <3> QED
      BY <3>1, <3>2, <3>3
  <2>2. ASSUME NEW n, n = tx.nonce + 1 PROVE Reached(n)'
    <3>1. n - 1 = tx.nonce
      BY <1>1, <2>2
    <3>2. mined'..(n - 1) = mined..tx.nonce
      BY <3>1
    <3>3. \A k \in mined'..(n - 1) : \E u \in pool' : u.nonce = k
      BY <2>1, <3>2
    <3> QED
      BY <3>3 DEF Reached
  <2> QED
    BY <2>2
<1>5. \A t \in pool' : t.nonce >= mined
  BY <1>1 DEF Sent
<1>6. \A t, u \in pool' : t.nonce = u.nonce => t = u
  BY <1>1 DEF Sent
<1> QED
  BY <1>1, <1>3, <1>4, <1>5, <1>6

\* An approve that the node takes in as its run goes on keeps what is pending.
LEMMA SentIsTaken ==
    ASSUME CowInv, NEW r \in Runs, NEW w, IsRun(w), run[r].stage = "approving",
           GoesOnAs(run[r], w), run' = [run EXCEPT ![r] = w],
           NEW tx \in Tx, tx.run = r, IsOf(tx, w), tx.nonce = NextNonce(run[r]),
           TakesIn(tx), UNCHANGED <<mined, inflight>>,
           w.stage = "approving" => NextNonce(w) = tx.nonce + 1,
           \A t \in pool \cup inflight : t.run = r => IsOf(t, w)
    PROVE  Sent' /\ InTurn'
<1>1. CowTyped /\ OneByOne /\ Sent /\ InTurn /\ pool \subseteq Tx /\ inflight \subseteq Tx
  BY DEF CowInv, CowTyped
<1>2. /\ run[r].stage \notin {"unused", "ended"} /\ w.stage \notin {"unused", "quoting"}
      /\ w.amt = run[r].amt /\ w.nonce = run[r].nonce
  BY DEF GoesOnAs
<1>3. run'[r] = w /\ \A q \in Runs : q # r => run'[q] = run[q]
  BY <1>1 DEF CowTyped
<1>4. Reached(tx.nonce)
  BY <1>1, <1>2 DEF InTurn
<1>5. /\ \A t \in pool' : t = tx \/ t \in pool
      /\ \A n : Reached(n) => Reached(n)'
      /\ \A n : n = tx.nonce + 1 => Reached(n)'
      /\ \A t \in pool' : t.nonce >= mined
      /\ \A t, u \in pool' : t.nonce = u.nonce => t = u
  BY <1>1, <1>4, TakesInIs
<1>6. ASSUME NEW t \in pool' \cup inflight' PROVE IsOf(t, run'[t.run]) /\ Reached(t.nonce)'
  <2>1. CASE t \in pool \cup inflight
    <3>1. IsOf(t, run[t.run]) /\ Reached(t.nonce) /\ t.run \in Runs
      BY <1>1, <2>1 DEF Sent, Tx
    <3> QED
      BY <1>3, <1>5, <2>1, <3>1
  <2>2. CASE t = tx
    BY <1>3, <1>4, <1>5, <2>2
  <2> QED
    BY <1>5, <2>1, <2>2
<1>7. Sent'
  BY <1>5, <1>6 DEF Sent
<1>8. ASSUME NEW q \in Runs
      PROVE  /\ run'[q].stage = "unused" => mined <= 2 * (q - 1)
             /\ run'[q].stage # "unused" => /\ run'[q].nonce <= 2 * (q - 1)
                                            /\ \A n : n = NextNonce(run'[q]) => Reached(n)'
  <2>1. CASE q = r
    <3>1. run[r].nonce <= 2 * (r - 1) /\ Reached(run[r].nonce)
      BY <1>1, <1>2, RunReached DEF InTurn
    <3>2. NextNonce(w) = run[r].nonce \/ NextNonce(w) = tx.nonce + 1
      BY <1>2 DEF NextNonce
    <3> QED
      BY <1>2, <1>3, <1>5, <2>1, <3>1, <3>2
  <2>2. CASE q # r
    BY <1>1, <1>3, <1>5, <2>2 DEF InTurn
  <2> QED
    BY <2>1, <2>2
<1>9. ASSUME NEW q \in Runs, NEW t \in pool' \cup inflight',
             run'[q].stage # "unused", t.run < q
      PROVE  t.nonce <= run'[q].nonce
  <2>1. run[q].stage # "unused" /\ run'[q].nonce = run[q].nonce
    BY <1>2, <1>3, <1>9
  <2>2. CASE t \in pool \cup inflight
    BY <1>1, <1>9, <2>1, <2>2 DEF InTurn
  <2>3. CASE t = tx
    <3>1. q > r
      BY <1>9, <2>3 DEF Runs
    <3> QED
      BY <1>1, <1>2, <2>1, <3>1, NoneLater
  <2> QED
    BY <1>5, <2>2, <2>3
<1>10. InTurn'
  <2>1. mined' = mined
    OBVIOUS
  <2> QED
    BY <1>8, <1>9, <2>1 DEF InTurn
<1> QED
  BY <1>7, <1>10

\* What depends on the runs and the chain alone is kept when neither moves.
LEMMA RunsRest ==
    ASSUME CowInv, UNCHANGED <<run, mined, receipt, allowance, orders>>
    PROVE  OneByOne' /\ Receipts' /\ Approved' /\ Submitted'
BY DEF CowInv, OneByOne, MayRerun, Receipts, Approved, Submitted

\* A late delivery keeps what is pending.
LEMMA DeliverSent ==
    ASSUME CowInv, Deliver
    PROVE  CowInv'
<1>1. CowTyped /\ Sent /\ InTurn /\ pool \subseteq Tx /\ inflight \subseteq Tx
  BY DEF CowInv, CowTyped
<1>2. PICK tx \in inflight : TakesIn(tx) /\ inflight' = inflight \ {tx}
                             /\ UNCHANGED <<now, run, mined, receipt, allowance, orders>>
  BY DEF Deliver
<1>3. Reached(tx.nonce) /\ tx \in Tx
  BY <1>1 DEF Sent
<1>4. /\ pool' \subseteq Tx /\ \A t \in pool' : t = tx \/ t \in pool
      /\ \A n : Reached(n) => Reached(n)'
      /\ \A t \in pool' : t.nonce >= mined
      /\ \A t, u \in pool' : t.nonce = u.nonce => t = u
  BY <1>1, <1>2, <1>3, TakesInIs
<1>5. pool' \cup inflight' \subseteq pool \cup inflight
  BY <1>2, <1>4
<1>6. Sent'
  <2>1. \A t \in pool' \cup inflight' : IsOf(t, run[t.run]) /\ Reached(t.nonce)'
    BY <1>1, <1>4, <1>5 DEF Sent
  <2> QED
    BY <1>2, <1>4, <2>1 DEF Sent
<1>7. InTurn'
  <2>1. ASSUME NEW q \in Runs
        PROVE  /\ run[q].stage = "unused" => mined <= 2 * (q - 1)
               /\ run[q].stage # "unused" => /\ run[q].nonce <= 2 * (q - 1)
                                             /\ \A n : n = NextNonce(run[q]) => Reached(n)'
    BY <1>1, <1>4 DEF InTurn
  <2>2. \A q \in Runs : \A t \in pool' \cup inflight' :
            run[q].stage # "unused" /\ t.run < q => t.nonce <= run[q].nonce
    BY <1>1, <1>5 DEF InTurn
  <2> QED
    BY <1>2, <2>1, <2>2 DEF InTurn
<1>8. CowTyped'
  BY <1>1, <1>2, <1>4 DEF CowTyped
<1> QED
  BY <1>2, <1>6, <1>7, <1>8, RunsRest DEF CowInv

-----------------------------------------------------------------------------
\* A set of natural numbers has a least one.
LEMMA LeastOf ==
    ASSUME NEW T, T \subseteq Nat, NEW top \in T
    PROVE  \E x \in T : \A y \in T : x <= y
<1>1. PICK x \in T : \A y \in T : ~ (<<y, x>> \in OpToRel(<, Nat))
  BY NatLessThanWellFounded, WFMin
<1>2. ASSUME NEW y \in T PROVE x <= y
  <2>1. x \in Nat /\ y \in Nat /\ ~ (<<y, x>> \in OpToRel(<, Nat))
    BY <1>1
  <2> QED
    BY <2>1 DEF OpToRel
<1> QED
  BY <1>2

\* Before a run is started, every transaction is of an earlier one, and there
\* were two of each at most.
LEMMA BeforeStart ==
    ASSUME CowInv, NEW r \in Runs, run[r].stage = "unused", NEW t \in pool \cup inflight
    PROVE  t.run < r /\ t.nonce \in Nat /\ t.nonce < 2 * (r - 1) /\ Reached(t.nonce)
<1>1. CowTyped /\ OneByOne /\ Sent /\ InTurn /\ t \in Tx
  BY DEF CowInv, CowTyped
<1>2. IsOf(t, run[t.run]) /\ Reached(t.nonce)
  BY <1>1 DEF Sent
<1>3. /\ t.run \in Runs /\ t.nonce \in Nat /\ t.step \in 1..2
      /\ run[t.run].stage # "unused" /\ t.nonce = run[t.run].nonce + t.step - 1
  BY <1>1, <1>2, TxOf
<1>4. r \in Nat /\ t.run \in Nat /\ run[t.run].nonce \in Nat
  BY <1>1, <1>3, RunOf
<1>5. ~ (t.run > r) /\ t.run # r
  <2>1. \A s \in Runs : s > r => run[s].stage = "unused"
    BY <1>1, NoneLater
  <2> QED
    BY <1>3, <2>1
<1>6. run[t.run].nonce <= 2 * (t.run - 1)
  BY <1>1, <1>3 DEF InTurn
<1> QED
  BY <1>2, <1>3, <1>4, <1>5, <1>6

\* The node names the first nonce that is free, and nothing that was signed
\* goes later.
LEMMA PendingIs ==
    ASSUME CowInv, NEW r \in Runs, run[r].stage = "unused"
    PROVE  /\ PendingNonce \in Nat /\ PendingNonce <= 2 * (r - 1)
           /\ \A n : n = PendingNonce => Reached(n)
           /\ \A t \in pool \cup inflight : t.nonce <= PendingNonce
<1>1. /\ mined \in Nat /\ mined <= 2 * (r - 1) /\ r \in Nat /\ r >= 1 /\ r <= MaxRuns
      /\ MaxRuns \in Nat
  BY CowAssumption DEF CowInv, CowTyped, InTurn, Runs
<1>2. PICK free : free = {n \in mined..(mined + 2 * MaxRuns) : \A t \in pool : t.nonce # n}
  OBVIOUS
<1>3. 2 * (r - 1) \in free
  <2>1. 2 * (r - 1) \in mined..(mined + 2 * MaxRuns)
    BY <1>1
  <2>2. \A t \in pool : t.nonce # 2 * (r - 1)
    BY <1>1, BeforeStart
  <2> QED
    BY <1>2, <2>1, <2>2
<1>4. free \subseteq Nat
  BY <1>1, <1>2
<1>5. PICK x \in free : \A y \in free : x <= y
  BY <1>3, <1>4, LeastOf
<1>6. /\ x \in Nat /\ x <= 2 * (r - 1) /\ x \in mined..(mined + 2 * MaxRuns)
      /\ \A t \in pool : t.nonce # x
  BY <1>2, <1>3, <1>4, <1>5
<1>7. ASSUME NEW m \in mined..(x - 1) PROVE \E u \in pool : u.nonce = m
  <2>1. m \in Nat /\ m < x /\ m \in mined..(mined + 2 * MaxRuns)
    BY <1>1, <1>6
  <2>2. m \notin free
    BY <1>5, <1>6, <2>1
  <2> QED
    BY <1>2, <2>1, <2>2
<1>8. PICK n : n = PendingNonce
  OBVIOUS
<1>9. /\ n \in mined..(mined + 2 * MaxRuns) /\ n >= mined /\ \A t \in pool : t.nonce # n
      /\ \A m \in mined..(n - 1) : ~ (m >= mined /\ \A t \in pool : t.nonce # m)
  <2>1. \E k \in mined..(mined + 2 * MaxRuns) :
            /\ k >= mined /\ \A t \in pool : t.nonce # k
            /\ \A m \in mined..(k - 1) : ~ (m >= mined /\ \A t \in pool : t.nonce # m)
    <3>1. x >= mined
      BY <1>1, <1>6
    <3> QED
      BY <1>6, <1>7, <3>1
  <2> QED
    BY <1>8, <2>1 DEF PendingNonce
<1>10. n \in Nat /\ n >= mined
  BY <1>1, <1>9
<1>11. ~ (x < n)
  <2>1. x < n => x \in mined..(n - 1) /\ x >= mined
    BY <1>1, <1>6, <1>10
  <2> QED
    BY <1>6, <1>9, <2>1
<1>12. Reached(n)
  <2>1. \A m \in mined..(n - 1) : m >= mined
    BY <1>1, <1>10
  <2> QED
    BY <1>9, <2>1 DEF Reached
<1>13. ASSUME NEW t \in pool \cup inflight PROVE t.nonce <= n
  <2>1. t.nonce \in Nat /\ Reached(t.nonce)
    BY BeforeStart
  <2>2. n < t.nonce => n \in mined..(t.nonce - 1)
    BY <1>1, <1>10, <2>1
  <2>3. ~ (n < t.nonce)
    BY <1>9, <2>1, <2>2 DEF Reached
  <2> QED
    BY <1>10, <2>1, <2>3
<1>14. n <= 2 * (r - 1)
  <2>1. 2 * (r - 1) \in Nat
    BY <1>1
  <2> QED
    BY <1>6, <1>10, <1>11, <2>1
<1>15. \A t \in pool \cup inflight : t.nonce <= n
  BY <1>13
<1> QED
  BY <1>8, <1>10, <1>12, <1>14, <1>15

\* A start keeps what holds of the runs.
LEMMA StartKeeps ==
    ASSUME CowInv, NEW r \in Runs, Start(r)
    PROVE  CowInv'
<1>1. /\ CowTyped /\ OneByOne /\ Sent /\ InTurn /\ Receipts /\ Approved /\ Submitted
      /\ pool \subseteq Tx /\ inflight \subseteq Tx
  BY DEF CowInv, CowTyped
<1>2. /\ run[r].stage = "unused" /\ \A q \in 1..(r - 1) : MayRerun(q)
      /\ UNCHANGED <<now, pool, inflight, mined, receipt, allowance, orders>>
  BY DEF Start, chain
<1>3. PICK a \in Amounts :
          run' = [run EXCEPT ![r].stage = "quoting", ![r].amt = a, ![r].nonce = PendingNonce]
  BY DEF Start
<1>4. PICK next : next = PendingNonce
  OBVIOUS
<1>5. /\ next \in Nat /\ next <= 2 * (r - 1) /\ Reached(next)
      /\ \A t \in pool \cup inflight : t.nonce <= next
  BY <1>2, <1>4, PendingIs
<1>6. PICK w : w = [run[r] EXCEPT !.stage = "quoting", !.amt = a, !.nonce = next]
  OBVIOUS
<1>7. run[r] \in RunRecord /\ IsRun(run[r]) /\ r \in Nat /\ r >= 1 /\ a \in Nat
  BY <1>1, RunOf, CowAssumption
<1>8. /\ w \in RunRecord /\ w.stage = "quoting" /\ w.amt = a /\ w.nonce = next
      /\ w.told = run[r].told /\ w.plan = run[r].plan /\ w.step = run[r].step
  BY <1>5, <1>6, <1>7 DEF RunRecord, Stage
<1>9. /\ run[r].told = "nothing" /\ run[r].plan = << >> /\ run[r].step = 1
  BY <1>2, <1>7 DEF IsRun
<1>10. IsRun(w)
  BY <1>8, <1>9 DEF IsRun, Plans
<1>11. run' = [run EXCEPT ![r] = w]
  BY <1>1, <1>3, <1>4, <1>6 DEF CowTyped
<1>12. /\ run'[r] = w /\ \A q \in Runs : q # r => run'[q] = run[q]
       /\ run' \in [Runs -> RunRecord]
  BY <1>1, <1>8, <1>11 DEF CowTyped
<1>13. CowTyped'
  BY <1>1, <1>2, <1>10, <1>12 DEF CowTyped
<1>14. \A s \in Runs : s > r => run[s].stage = "unused"
  BY <1>1, <1>2, NoneLater
<1>15. OneByOne'
  <2> SUFFICES ASSUME NEW s \in Runs, run'[s].stage # "unused", NEW q \in 1..(s - 1)
               PROVE  MayRerun(q)'
    BY DEF OneByOne
  <2>1. q \in Runs /\ s \in Nat /\ q < s
    BY CowAssumption DEF Runs
  <2>2. MayRerun(q)
    <3>1. CASE s = r
      BY <1>2, <3>1
    <3>2. CASE s # r
      BY <1>1, <1>12, <3>2 DEF OneByOne
    <3> QED
      BY <3>1, <3>2
  <2>3. q # r
    BY <1>2, <2>2 DEF MayRerun
  <2>4. run'[q] = run[q] /\ receipt' = receipt
    BY <1>2, <1>12, <2>1, <2>3
  <2> QED
    BY <2>2, <2>4 DEF MayRerun
<1>16. ASSUME NEW t \in pool \cup inflight
       PROVE  t.run < r /\ t.run \in Runs /\ IsOf(t, run[t.run]) /\ Reached(t.nonce)
  BY <1>1, <1>2, BeforeStart DEF Sent, Tx
<1>17. \A n : Reached(n)' <=> Reached(n)
  BY <1>2 DEF Reached
<1>18. Sent'
  <2>1. ASSUME NEW t \in pool \cup inflight PROVE IsOf(t, run'[t.run]) /\ Reached(t.nonce)
    <3>1. t.run # r
      BY <1>7, <1>16
    <3> QED
      BY <1>12, <1>16, <3>1
  <2>2. /\ \A t \in pool : t.nonce >= mined
        /\ \A t, u \in pool : t.nonce = u.nonce => t = u
    BY <1>1 DEF Sent
  <2> QED
    BY <1>2, <1>17, <2>1, <2>2 DEF Sent
<1>19. InTurn'
  <2>1. ASSUME NEW q \in Runs
        PROVE  /\ run'[q].stage = "unused" => mined <= 2 * (q - 1)
               /\ run'[q].stage # "unused" => /\ run'[q].nonce <= 2 * (q - 1)
                                              /\ Reached(NextNonce(run'[q]))
    <3>1. CASE q = r
      <4>1. NextNonce(w) = next
        BY <1>8 DEF NextNonce
      <4> QED
        BY <1>5, <1>8, <1>12, <3>1, <4>1
    <3>2. CASE q # r
      BY <1>1, <1>12, <3>2 DEF InTurn
    <3> QED
      BY <3>1, <3>2
  <2>2. ASSUME NEW q \in Runs, NEW t \in pool \cup inflight,
               run'[q].stage # "unused", t.run < q
        PROVE  t.nonce <= run'[q].nonce
    <3>1. CASE q = r
      BY <1>5, <1>8, <1>12, <3>1
    <3>2. CASE q # r
      BY <1>1, <1>12, <2>2, <3>2 DEF InTurn
    <3> QED
      BY <3>1, <3>2
  <2> QED
    BY <1>2, <1>17, <2>1, <2>2 DEF InTurn
<1>20. \A q \in Runs : run'[q].plan = run[q].plan /\ run'[q].told = run[q].told
  BY <1>8, <1>12
<1>21. Receipts'
  <2>1. ASSUME NEW q \in Runs, NEW s \in 1..2, receipt[<<q, s>>] # "none"
        PROVE  s <= Len(run'[q].plan) /\ run'[q].nonce + s - 1 < mined
    <3>1. s <= Len(run[q].plan) /\ run[q].nonce + s - 1 < mined
      BY <1>1, <2>1 DEF Receipts
    <3>2. q # r
      BY <1>9, <3>1
    <3> QED
      BY <1>12, <3>1, <3>2
  <2>2. \A q \in Runs : run'[q].told = "reverted"
            => receipt[<<q, Len(run'[q].plan)>>] # "none"
    BY <1>1, <1>20 DEF Receipts
  <2> QED
    BY <1>2, <2>1, <2>2 DEF Receipts
<1>22. Approved'
  <2> SUFFICES ASSUME NEW q \in Runs, run'[q].plan # << >>,
                      receipt[<<q, Len(run'[q].plan)>>] = "ok", orders[q] # "filled",
                      \A s \in Runs : s > q => run'[s].stage \in {"unused", "quoting"}
               PROVE  allowance >= run'[q].amt
    BY <1>2 DEF Approved
  <2>1. q # r
    BY <1>9, <1>20
  <2>2. \A s \in Runs : s > q => run[s].stage \in {"unused", "quoting"}
    BY <1>2, <1>12
  <2> QED
    BY <1>1, <1>12, <2>1, <2>2 DEF Approved
<1>23. Submitted'
  BY <1>1, <1>2, <1>20 DEF Submitted
<1> QED
  BY <1>13, <1>15, <1>18, <1>19, <1>21, <1>22, <1>23 DEF CowInv

-----------------------------------------------------------------------------
\* Where a run has got to is kept: its plan, and what it has sent of it.
StaysAt(o, w) == w.plan = o.plan /\ w.step = o.step /\ w.exp = o.exp

\* A run that ends.
LEMMA EndIs ==
    ASSUME CowTyped, NEW r \in Runs, run[r].stage \notin {"unused", "ended"},
           NEW told \in Reports, End(r, told),
           told = "rejected" => run[r].stage = "approving",
           told \in {"timeout", "reverted"} => run[r].stage = "waiting"
    PROVE  \E w : /\ IsRun(w) /\ GoesOnAs(run[r], w) /\ StaysAt(run[r], w)
                  /\ run' = [run EXCEPT ![r] = w] /\ w.stage = "ended" /\ w.told = told
<1>1. PICK w : w = [run[r] EXCEPT !.stage = "ended", !.told = told]
  OBVIOUS
<1>2. run[r] \in RunRecord /\ IsRun(run[r])
  BY RunOf
<1>3. /\ w \in RunRecord /\ w.stage = "ended" /\ w.told = told
      /\ w.amt = run[r].amt /\ w.nonce = run[r].nonce
      /\ w.plan = run[r].plan /\ w.step = run[r].step /\ w.exp = run[r].exp
  BY <1>1, <1>2 DEF RunRecord, Stage
<1>4. run' = [run EXCEPT ![r] = w]
  BY <1>1 DEF End, CowTyped
<1>5. told # "nothing"
  BY DEF Reports, NoOrder
<1>6. IsRun(w)
  BY <1>2, <1>3, <1>5 DEF IsRun
<1>7. GoesOnAs(run[r], w) /\ StaysAt(run[r], w)
  BY <1>3 DEF GoesOnAs, StaysAt
<1> QED
  BY <1>3, <1>4, <1>6, <1>7

\* A run that goes on to another stage.
LEMMA StageIs ==
    ASSUME CowTyped, NEW r \in Runs, NEW stage \in {"approving", "submitting"},
           run[r].stage \in {"prompt", "waiting"},
           stage = "approving" => run[r].stage = "prompt" /\ run[r].plan # << >>,
           run' = [run EXCEPT ![r].stage = stage]
    PROVE  \E w : /\ IsRun(w) /\ GoesOnAs(run[r], w) /\ StaysAt(run[r], w)
                  /\ run' = [run EXCEPT ![r] = w] /\ w.stage = stage /\ w.told = "nothing"
<1>1. PICK w : w = [run[r] EXCEPT !.stage = stage]
  OBVIOUS
<1>2. run[r] \in RunRecord /\ IsRun(run[r])
  BY RunOf
<1>3. /\ w \in RunRecord /\ w.stage = stage /\ w.told = run[r].told
      /\ w.amt = run[r].amt /\ w.nonce = run[r].nonce
      /\ w.plan = run[r].plan /\ w.step = run[r].step /\ w.exp = run[r].exp
  BY <1>1, <1>2 DEF RunRecord, Stage
<1>4. run' = [run EXCEPT ![r] = w]
  BY <1>1 DEF CowTyped
<1>5. run[r].told = "nothing"
  BY <1>2 DEF IsRun
<1>6. stage = "approving" => w.step <= Len(w.plan)
  <2>1. w.amt \in Nat \ {0} /\ w.plan \in Plans(w.amt)
    BY <1>2, <1>3, CowAssumption DEF IsRun
  <2>2. w.plan # << >> => Len(w.plan) \in 1..2
    BY <2>1, PlanOf
  <2>3. stage = "approving" => w.step = 1 /\ w.plan # << >>
    BY <1>2, <1>3 DEF IsRun
  <2> QED
    BY <2>2, <2>3
<1>7. IsRun(w)
  BY <1>2, <1>3, <1>5, <1>6 DEF IsRun
<1>8. GoesOnAs(run[r], w) /\ StaysAt(run[r], w)
  BY <1>3 DEF GoesOnAs, StaysAt
<1> QED
  BY <1>3, <1>4, <1>5, <1>7, <1>8

\* What a run has sent stays its own when it ends or goes on to submit.
LEMMA OwnTxsStay ==
    ASSUME NEW o, NEW w, StaysAt(o, w), GoesOnAs(o, w), w.stage # "approving" \/ o.stage = "prompt",
           o.stage \in {"quoting", "prompt"} \/ w.stage \in {"submitting", "ended"},
           o.stage \in {"quoting", "prompt"} \/ w.told \notin NothingSent,
           w.told = "rejected" => o.stage = "approving",
           NEW t, IsOf(t, o)
    PROVE  IsOf(t, w)
BY DEF StaysAt, GoesOnAs, IsOf

\* A run that goes on without the chain keeps what holds of the runs.
LEMMA TalkKeeps ==
    ASSUME CowInv, NEW r \in Runs, NEW w, IsRun(w), GoesOnAs(run[r], w),
           run' = [run EXCEPT ![r] = w],
           UNCHANGED <<now, pool, mined, receipt, allowance>>,
           w.stage = "approving" => w.step = 1,
           \A t : IsOf(t, run[r]) => IsOf(t, w),
           w.told = "reverted" => receipt[<<r, Len(w.plan)>>] # "none",
           orders' \in [Runs -> {"none", "open", "filled"}],
           \A q \in Runs : orders'[q] = orders[q]
               \/ (q = r /\ orders'[q] = "open" /\ w.told \in {"submitted", "submitfailed"}),
           \A t \in inflight' : t \in inflight
               \/ (t \in Tx /\ t.run = r /\ IsOf(t, w) /\ Reached(t.nonce))
    PROVE  CowInv'
<1>1. CowTyped /\ Sent
  BY DEF CowInv
<1>2. w \in RunRecord /\ run' \in [Runs -> RunRecord] /\ \A q \in Runs : IsRun(run'[q])
  BY <1>1 DEF CowTyped, IsRun
<1>3. inflight' \subseteq Tx
  BY <1>1 DEF CowTyped
<1>4. CowTyped'
  BY <1>1, <1>2, <1>3 DEF CowTyped
<1>5. OneByOne' /\ Receipts' /\ Approved' /\ Submitted'
  BY RunGoesOn
<1>6. \A t \in pool \cup inflight : t.run = r => IsOf(t, w)
  BY <1>1 DEF Sent
<1>7. Sent' /\ InTurn'
  BY <1>6, SentGoesOn
<1> QED
  BY <1>4, <1>5, <1>7 DEF CowInv

-----------------------------------------------------------------------------
\* A run that goes on without the node taking anything in.
Talk(r, w) ==
    /\ IsRun(w) /\ GoesOnAs(run[r], w) /\ run' = [run EXCEPT ![r] = w]
    /\ UNCHANGED <<now, pool, mined, receipt, allowance>>
    /\ w.stage \in {"prompt", "approving", "submitting", "ended"}
    /\ \A t : IsOf(t, run[r]) => IsOf(t, w)
    /\ w.told = "reverted" => receipt[<<r, Len(w.plan)>>] # "none"
    /\ w.stage = "prompt" => /\ w.plan = << >> => allowance >= w.amt
                             /\ w.plan # << >> => allowance < w.amt
    /\ w.stage = "approving" => /\ run[r].stage = "prompt" /\ w.step = 1
                                /\ w.plan = run[r].plan /\ w.plan # << >>
    /\ w.stage = "submitting" =>
           /\ w.plan = run[r].plan
           /\ \/ run[r].stage = "prompt" /\ w.plan = << >>
              \/ /\ run[r].stage = "waiting" /\ w.plan # << >>
                 /\ receipt[<<r, Len(w.plan)>>] = "ok"

\* A run that ends with a report talks.
EndsAs(r, w, told) ==
    /\ Talk(r, w) /\ w.stage = "ended" /\ w.told = told
    /\ StaysAt(run[r], w) /\ w.nonce = run[r].nonce

\* A run that ends with a report does so without the node taking anything in.
LEMMA EndTalks ==
    ASSUME CowTyped, NEW r \in Runs, run[r].stage \notin {"unused", "ended"},
           NEW told \in Reports, End(r, told),
           UNCHANGED <<now, pool, mined, receipt, allowance>>,
           told = "rejected" => run[r].stage = "approving",
           told \in {"timeout", "reverted"} => run[r].stage = "waiting",
           told \in NothingSent => run[r].stage \in {"quoting", "prompt"},
           told = "reverted" => receipt[<<r, Len(run[r].plan)>>] # "none"
    PROVE  \E w : EndsAs(r, w, told)
<1>1. PICK w : /\ IsRun(w) /\ GoesOnAs(run[r], w) /\ StaysAt(run[r], w)
               /\ run' = [run EXCEPT ![r] = w] /\ w.stage = "ended" /\ w.told = told
  BY EndIs
<1>2. \A t : IsOf(t, run[r]) => IsOf(t, w)
  BY <1>1, OwnTxsStay
<1>3. w.told = "reverted" => receipt[<<r, Len(w.plan)>>] # "none"
  BY <1>1 DEF StaysAt
<1>4. Talk(r, w)
  BY <1>1, <1>2, <1>3 DEF Talk
<1> QED
  BY <1>1, <1>4 DEF GoesOnAs, EndsAs

\* Quoting, the prompt, the wait and a kill.
LEMMA CommandTalks ==
    ASSUME CowTyped, NEW r \in Runs,
           Prepare(r) \/ AnswerPrompt(r) \/ Poll(r) \/ Kill(r)
    PROVE  /\ UNCHANGED <<inflight, orders>>
           /\ \E w : Talk(r, w) /\ w.told # "unknown"
<1>1. UNCHANGED <<now, pool, inflight, mined, receipt, allowance, orders>>
  BY DEF Prepare, AnswerPrompt, Poll, Kill, chain
<1> SUFFICES \E w : Talk(r, w) /\ w.told # "unknown"
  BY <1>1
<1>2. run[r] \in RunRecord /\ IsRun(run[r])
  BY RunOf
<1>3. ASSUME NEW told \in Reports \ {"unknown"}, End(r, told),
             run[r].stage \notin {"unused", "ended"},
             told # "rejected",
             told \in {"timeout", "reverted"} => run[r].stage = "waiting",
             told \in NothingSent => run[r].stage \in {"quoting", "prompt"},
             told = "reverted" => receipt[<<r, Len(run[r].plan)>>] # "none"
      PROVE  \E w : Talk(r, w) /\ w.told # "unknown"
  <2>1. PICK w : EndsAs(r, w, told)
    BY <1>1, <1>3, EndTalks
  <2> QED
    BY <2>1 DEF EndsAs
<1>4. CASE Prepare(r)
  <2>1. ASSUME NEW told \in {"aborted", "gate", "dryrun"}, End(r, told), run[r].stage = "quoting"
        PROVE  \E w : Talk(r, w) /\ w.told # "unknown"
    <3>1. /\ told \in Reports \ {"unknown"} /\ told # "rejected"
          /\ told \notin {"timeout", "reverted"}
      BY DEF Reports, NoOrder
    <3> QED
      BY <1>3, <2>1, <3>1
  <2>2. ASSUME run[r].stage = "quoting",
               run' = [run EXCEPT ![r].stage = "prompt", ![r].exp = now + OrderLife,
                                  ![r].plan = Approvals(run[r].amt, allowance)]
        PROVE  \E w : Talk(r, w) /\ w.told # "unknown"
    <3>1. PICK plan : plan = Approvals(run[r].amt, allowance)
      OBVIOUS
    <3>2. PICK exp : exp = now + OrderLife
      OBVIOUS
    <3>3. PICK w : w = [run[r] EXCEPT !.stage = "prompt", !.exp = exp, !.plan = plan]
      OBVIOUS
    <3>4. run[r].amt \in Amounts /\ run[r].amt \in Nat \ {0} /\ allowance \in Nat /\ exp \in Nat
      BY <1>2, <2>2, <3>2, CowAssumption DEF IsRun, CowTyped
    <3>5. /\ plan \in Plans(run[r].amt)
          /\ plan = << >> => allowance >= run[r].amt
          /\ plan # << >> => allowance < run[r].amt
      BY <3>1, <3>4, ApprovalsOf
    <3>6. plan \in Seq(Nat)
      BY <3>4, <3>5, PlanOf
    <3>7. /\ w \in RunRecord /\ w.stage = "prompt" /\ w.told = run[r].told
          /\ w.amt = run[r].amt /\ w.nonce = run[r].nonce
          /\ w.plan = plan /\ w.step = run[r].step
      BY <1>2, <3>3, <3>4, <3>6 DEF RunRecord, Stage
    <3>8. run[r].told = "nothing" /\ run[r].step = 1
      BY <1>2, <2>2 DEF IsRun
    <3>9. IsRun(w)
      BY <3>4, <3>5, <3>7, <3>8 DEF IsRun
    <3>10. run' = [run EXCEPT ![r] = w]
      BY <2>2, <3>1, <3>2, <3>3 DEF CowTyped
    <3>11. GoesOnAs(run[r], w)
      BY <2>2, <3>7 DEF GoesOnAs
    <3>12. \A t : IsOf(t, run[r]) => IsOf(t, w)
      BY <2>2 DEF IsOf
    <3> QED
      BY <1>1, <3>5, <3>7, <3>8, <3>9, <3>10, <3>11, <3>12 DEF Talk
  <2> QED
    BY <1>4, <2>1, <2>2 DEF Prepare
<1>5. CASE AnswerPrompt(r)
  <2>1. ASSUME NEW told \in {"declined", "expired"}, End(r, told), run[r].stage = "prompt"
        PROVE  \E w : Talk(r, w) /\ w.told # "unknown"
    <3>1. /\ told \in Reports \ {"unknown"} /\ told # "rejected"
          /\ told \notin {"timeout", "reverted"}
      BY DEF Reports, NoOrder
    <3> QED
      BY <1>3, <2>1, <3>1
  <2>2. ASSUME NEW stage, stage = IF run[r].plan = << >> THEN "submitting" ELSE "approving",
               run[r].stage = "prompt", run' = [run EXCEPT ![r].stage = stage]
        PROVE  \E w : Talk(r, w) /\ w.told # "unknown"
    <3>1. PICK w : /\ IsRun(w) /\ GoesOnAs(run[r], w) /\ StaysAt(run[r], w)
                   /\ run' = [run EXCEPT ![r] = w] /\ w.stage = stage /\ w.told = "nothing"
      BY <2>2, StageIs
    <3>2. \A t : IsOf(t, run[r]) => IsOf(t, w)
      BY <2>2 DEF IsOf
    <3>3. run[r].step = 1
      BY <1>2, <2>2 DEF IsRun
    <3> QED
      BY <1>1, <2>2, <3>1, <3>2, <3>3 DEF Talk, StaysAt
  <2> QED
    BY <1>5, <2>1, <2>2 DEF AnswerPrompt
<1>6. CASE Poll(r)
  <2>1. ASSUME receipt[<<r, Len(run[r].plan)>>] = "ok", run[r].stage = "waiting",
               run' = [run EXCEPT ![r].stage = "submitting"]
        PROVE  \E w : Talk(r, w) /\ w.told # "unknown"
    <3>1. PICK w : /\ IsRun(w) /\ GoesOnAs(run[r], w) /\ StaysAt(run[r], w)
                   /\ run' = [run EXCEPT ![r] = w] /\ w.stage = "submitting" /\ w.told = "nothing"
      BY <2>1, StageIs
    <3>2. \A t : IsOf(t, run[r]) => IsOf(t, w)
      BY <2>1, <3>1, OwnTxsStay DEF NothingSent
    <3>3. run[r].plan # << >>
      BY <1>2, <2>1 DEF IsRun
    <3> QED
      BY <1>1, <2>1, <3>1, <3>2, <3>3 DEF Talk, StaysAt
  <2>2. ASSUME NEW told \in {"reverted", "timeout"}, End(r, told), run[r].stage = "waiting",
               told = "reverted" => receipt[<<r, Len(run[r].plan)>>] # "none"
        PROVE  \E w : Talk(r, w) /\ w.told # "unknown"
    <3>1. told \in Reports \ {"unknown"} /\ told # "rejected" /\ told \notin NothingSent
      BY DEF Reports, NoOrder, NothingSent
    <3> QED
      BY <1>3, <2>2, <3>1
  <2> QED
    BY <1>6, <2>1, <2>2 DEF Poll
<1>7. CASE Kill(r)
  <2>1. /\ "killed" \in Reports \ {"unknown"} /\ "killed" # "rejected"
        /\ "killed" \notin {"timeout", "reverted"} /\ "killed" \notin NothingSent
    BY DEF Reports, NothingSent
  <2> QED
    BY <1>3, <1>7, <2>1 DEF Kill
<1> QED
  BY <1>1, <1>4, <1>5, <1>6, <1>7

\* A submission, whatever the client hears of it.
LEMMA SubmitTalks ==
    ASSUME CowTyped, NEW r \in Runs, Submit(r)
    PROVE  /\ UNCHANGED inflight /\ run[r].stage = "submitting"
           /\ orders' \in [Runs -> {"none", "open", "filled"}]
           /\ \A q \in Runs : orders'[q] = orders[q]
                  \/ (q = r /\ orders'[q] = "open" /\ allowance >= run[r].amt)
           /\ \E w : Talk(r, w) /\ w.told \in {"submitted", "submitfailed"}
<1>1. /\ run[r].stage = "submitting" /\ orders \in [Runs -> {"none", "open", "filled"}]
      /\ UNCHANGED <<now, pool, inflight, mined, receipt, allowance>>
  BY DEF Submit, CowTyped, chain
<1>2. ASSUME NEW told \in {"submitted", "submitfailed"}, End(r, told)
      PROVE  \E w : Talk(r, w) /\ w.told \in {"submitted", "submitfailed"}
  <2>1. told \in Reports /\ told \notin {"rejected", "timeout", "reverted"} /\ told \notin NothingSent
    BY DEF Reports, NothingSent
  <2>2. UNCHANGED <<now, pool, mined, receipt, allowance>> /\ run[r].stage \notin {"unused", "ended"}
    BY <1>1
  <2>3. PICK w : EndsAs(r, w, told)
    BY <1>2, <2>1, <2>2, EndTalks
  <2> QED
    BY <2>3 DEF EndsAs
<1>3. \E told \in {"submitted", "submitfailed"} : End(r, told)
  BY DEF Submit
<1>4. \/ orders' = orders
      \/ orders' = [orders EXCEPT ![r] = "open"] /\ allowance >= run[r].amt
  BY DEF Submit
<1>5. orders' \in [Runs -> {"none", "open", "filled"}]
  BY <1>1, <1>4
<1>6. \A q \in Runs : orders'[q] = orders[q]
          \/ (q = r /\ orders'[q] = "open" /\ allowance >= run[r].amt)
  BY <1>1, <1>4
<1>7. UNCHANGED inflight
  BY <1>1
<1> QED
  BY <1>1, <1>2, <1>3, <1>5, <1>6, <1>7

\* The transaction of a run that approves is the next one of its plan.
LEMMA ApproveTxIs ==
    ASSUME CowTyped, NEW r \in Runs, run[r].stage = "approving"
    PROVE  /\ ApproveTx(r) \in Tx /\ ApproveTx(r).run = r
           /\ ApproveTx(r).step = run[r].step /\ ApproveTx(r).nonce = NextNonce(run[r])
           /\ ApproveTx(r).nonce = run[r].nonce + run[r].step - 1
           /\ run[r].step \in 1..Len(run[r].plan)
           /\ ApproveTx(r).amt = run[r].plan[run[r].step]
<1>1. /\ IsRun(run[r]) /\ run[r].step \in 1..2 /\ run[r].nonce \in Nat
      /\ Len(run[r].plan) \in Nat
  BY RunOf
<1>2. run[r].amt \in Nat \ {0} /\ run[r].plan \in Plans(run[r].amt)
  BY <1>1, CowAssumption DEF IsRun
<1>3. run[r].step \in 1..Len(run[r].plan)
  BY <1>1 DEF IsRun
<1>4. run[r].plan[run[r].step] \in Nat
  BY <1>2, <1>3, PlanOf
<1>5. run[r].nonce + run[r].step - 1 \in Nat
  BY <1>1
<1> QED
  BY <1>1, <1>3, <1>4, <1>5 DEF ApproveTx, Tx, NextNonce

\* An approve that is refused, or that is not answered and may arrive later.
LEMMA PostFails ==
    ASSUME CowTyped, NEW r \in Runs, run[r].stage = "approving",
           UNCHANGED <<now, pool, mined, receipt, allowance, orders>>,
           \/ End(r, "rejected") /\ UNCHANGED inflight
           \/ End(r, "unknown") /\ inflight' = inflight \cup {ApproveTx(r)}
    PROVE  \E w : /\ Talk(r, w) /\ (w.told # "unknown" => inflight' = inflight)
                  /\ \A t \in inflight' : t \in inflight
                         \/ (t = ApproveTx(r) /\ IsOf(t, w))
<1>1. UNCHANGED <<now, pool, mined, receipt, allowance>> /\ run[r].stage \notin {"unused", "ended"}
  OBVIOUS
<1>2. CASE End(r, "rejected") /\ UNCHANGED inflight
  <2>1. /\ "rejected" \in Reports /\ "rejected" \notin NothingSent
        /\ "rejected" \notin {"timeout", "reverted"} /\ "rejected" # "reverted"
    BY DEF Reports, NoOrder, NothingSent
  <2>2. PICK w : EndsAs(r, w, "rejected")
    BY <1>2, <1>1, <2>1, EndTalks
  <2> QED
    BY <1>2, <2>2 DEF EndsAs
<1>3. CASE End(r, "unknown") /\ inflight' = inflight \cup {ApproveTx(r)}
  <2>1. /\ "unknown" \in Reports /\ "unknown" \notin NothingSent
        /\ "unknown" \notin {"timeout", "reverted"}
        /\ "unknown" # "rejected" /\ "unknown" # "reverted"
    BY DEF Reports, NoOrder, NothingSent
  <2>2. PICK w : EndsAs(r, w, "unknown")
    BY <1>3, <1>1, <2>1, EndTalks
  <2>3. IsOf(ApproveTx(r), w)
    BY <2>1, <2>2, ApproveTxIs DEF EndsAs, IsOf, StaysAt
  <2> QED
    BY <1>3, <2>2, <2>3 DEF EndsAs
<1> QED
  BY <1>2, <1>3

\* However a run goes on without the node, what holds of the runs is kept.
LEMMA TalkIsKept ==
    ASSUME CowInv, NEW r \in Runs, NEW w, Talk(r, w),
           orders' \in [Runs -> {"none", "open", "filled"}],
           \A q \in Runs : orders'[q] = orders[q]
               \/ (q = r /\ orders'[q] = "open" /\ w.told \in {"submitted", "submitfailed"}),
           \A t \in inflight' : t \in inflight
               \/ (run[r].stage = "approving" /\ t = ApproveTx(r) /\ IsOf(t, w))
    PROVE  CowInv'
<1>1. CowTyped /\ InTurn
  BY DEF CowInv
<1>2. ASSUME NEW t \in inflight', t \notin inflight
      PROVE  t \in Tx /\ t.run = r /\ IsOf(t, w) /\ Reached(t.nonce)
  <2>1. run[r].stage = "approving" /\ t = ApproveTx(r) /\ IsOf(t, w)
    BY <1>2
  <2>2. t \in Tx /\ t.run = r /\ t.nonce = NextNonce(run[r])
    BY <1>1, <2>1, ApproveTxIs
  <2>3. Reached(NextNonce(run[r]))
    BY <1>1, <2>1 DEF InTurn
  <2> QED
    BY <2>1, <2>2, <2>3
<1>3. /\ IsRun(w) /\ GoesOnAs(run[r], w) /\ run' = [run EXCEPT ![r] = w]
      /\ UNCHANGED <<now, pool, mined, receipt, allowance>>
      /\ w.stage = "approving" => w.step = 1
      /\ \A t : IsOf(t, run[r]) => IsOf(t, w)
      /\ w.told = "reverted" => receipt[<<r, Len(w.plan)>>] # "none"
  BY DEF Talk
<1> QED
  BY <1>2, <1>3, TalkKeeps

-----------------------------------------------------------------------------
\* The step after one that is not the last.
LEMMA NextStep ==
    ASSUME NEW s \in 1..2, NEW len \in 0..2, s <= len, s # len
    PROVE  s + 1 \in 1..2 /\ s + 1 <= len /\ s < s + 1
OBVIOUS

\* An approve that the node takes in: its run goes on to the next one, or waits.
TakenAs(r, w) ==
    /\ IsRun(w) /\ GoesOnAs(run[r], w) /\ run' = [run EXCEPT ![r] = w]
    /\ w.stage \in {"approving", "waiting"} /\ w.told = "nothing" /\ w.plan = run[r].plan
    /\ w.stage = "approving" => w.step = run[r].step + 1
    /\ w.stage = "waiting" => run[r].step = Len(w.plan)
    /\ \A t : IsOf(t, run[r]) => IsOf(t, w)
    /\ IsOf(ApproveTx(r), w)

\* So it does, whichever step of its plan that was.
LEMMA TakenIs ==
    ASSUME CowTyped, NEW r \in Runs, run[r].stage = "approving",
           run' = IF run[r].step = Len(run[r].plan)
                  THEN [run EXCEPT ![r].stage = "waiting", ![r].deadline = now + WaitLimit]
                  ELSE [run EXCEPT ![r].step = @ + 1]
    PROVE  \E w : TakenAs(r, w)
<1>1. /\ run[r] \in RunRecord /\ IsRun(run[r]) /\ run[r].step \in 1..2
      /\ Len(run[r].plan) \in Nat
  BY RunOf
<1>2. /\ run[r].amt \in Nat \ {0} /\ run[r].plan \in Plans(run[r].amt)
      /\ run[r].step <= Len(run[r].plan) /\ run[r].told = "nothing"
  BY <1>1, CowAssumption DEF IsRun
<1>3. Len(run[r].plan) \in 0..2
  BY <1>2, PlanOf
<1>4. CASE run[r].step = Len(run[r].plan)
  <2>1. PICK d : d = now + WaitLimit
    OBVIOUS
  <2>2. d \in Nat
    BY <2>1, CowAssumption DEF CowTyped
  <2>3. PICK w : w = [run[r] EXCEPT !.stage = "waiting", !.deadline = d]
    OBVIOUS
  <2>4. /\ w \in RunRecord /\ w.stage = "waiting" /\ w.told = run[r].told
        /\ w.amt = run[r].amt /\ w.nonce = run[r].nonce
        /\ w.plan = run[r].plan /\ w.step = run[r].step
    BY <1>1, <2>2, <2>3 DEF RunRecord, Stage
  <2>5. run' = [run EXCEPT ![r] = w]
    BY <1>4, <2>1, <2>3 DEF CowTyped
  <2>6. w.plan # << >>
    BY <1>1, <1>2, <2>4
  <2>7. IsRun(w)
    BY <1>1, <1>2, <2>4, <2>6 DEF IsRun
  <2>8. GoesOnAs(run[r], w)
    BY <2>4 DEF GoesOnAs
  <2>9. \A t : IsOf(t, run[r]) => IsOf(t, w)
    <3>1. ASSUME NEW t, IsOf(t, run[r]) PROVE IsOf(t, w)
      BY <1>2, <2>4, <3>1 DEF IsOf
    <3> QED
      BY <3>1
  <2>10. IsOf(ApproveTx(r), w)
    BY <1>2, <2>4, ApproveTxIs DEF IsOf, NothingSent
  <2>11. /\ w.stage \in {"approving", "waiting"} /\ w.told = "nothing" /\ w.plan = run[r].plan
         /\ w.stage = "approving" => w.step = run[r].step + 1
         /\ w.stage = "waiting" => run[r].step = Len(w.plan)
    BY <1>2, <1>4, <2>4
  <2> QED
    BY <2>5, <2>7, <2>8, <2>9, <2>10, <2>11 DEF TakenAs
<1>5. CASE run[r].step # Len(run[r].plan)
  <2>1. PICK step : step = run[r].step + 1
    OBVIOUS
  <2>2. step \in 1..2 /\ step <= Len(run[r].plan) /\ run[r].step < step
    BY <1>1, <1>2, <1>3, <1>5, <2>1, NextStep
  <2>3. PICK w : w = [run[r] EXCEPT !.step = step]
    OBVIOUS
  <2>4. /\ w \in RunRecord /\ w.stage = "approving" /\ w.told = run[r].told
        /\ w.amt = run[r].amt /\ w.nonce = run[r].nonce
        /\ w.plan = run[r].plan /\ w.step = step
    BY <1>1, <2>2, <2>3 DEF RunRecord, Stage
  <2>5. run' = [run EXCEPT ![r] = w]
    BY <1>5, <2>1, <2>3 DEF CowTyped
  <2>6. IsRun(w)
    BY <1>1, <1>2, <2>2, <2>4 DEF IsRun
  <2>7. GoesOnAs(run[r], w)
    BY <2>4 DEF GoesOnAs
  <2>8. \A t : IsOf(t, run[r]) => IsOf(t, w)
    <3>1. ASSUME NEW t, IsOf(t, run[r]) PROVE IsOf(t, w)
      <4>1. t.step \in 1..Len(run[r].plan) /\ t.step < run[r].step
        BY <3>1 DEF IsOf
      <4>2. t.step < step
        BY <1>1, <2>2, <4>1
      <4> QED
        BY <2>4, <3>1, <4>2 DEF IsOf
    <3> QED
      BY <3>1
  <2>9. IsOf(ApproveTx(r), w)
    BY <1>2, <2>2, <2>4, ApproveTxIs DEF IsOf, NothingSent
  <2> QED
    BY <1>2, <2>1, <2>4, <2>5, <2>6, <2>7, <2>8, <2>9 DEF TakenAs
<1> QED
  BY <1>4, <1>5

\* It keeps what holds of the runs.
LEMMA TakenKeeps ==
    ASSUME CowInv, NEW r \in Runs, NEW w, run[r].stage = "approving", TakenAs(r, w),
           TakesIn(ApproveTx(r)),
           UNCHANGED <<now, inflight, mined, receipt, allowance, orders>>
    PROVE  CowInv'
<1>1. CowTyped /\ Sent /\ InTurn
  BY DEF CowInv
<1>2. /\ IsRun(w) /\ GoesOnAs(run[r], w) /\ run' = [run EXCEPT ![r] = w]
      /\ w.told # "reverted" /\ w.nonce = run[r].nonce
      /\ \A t : IsOf(t, run[r]) => IsOf(t, w)
      /\ IsOf(ApproveTx(r), w)
  BY DEF TakenAs, GoesOnAs
<1>3. PICK tx \in Tx : /\ tx = ApproveTx(r) /\ tx.run = r /\ tx.nonce = NextNonce(run[r])
                       /\ tx.nonce = run[r].nonce + run[r].step - 1
  BY <1>1, ApproveTxIs
<1>4. run[r].nonce \in Nat /\ run[r].step \in 1..2
  BY <1>1, RunOf
<1>5. w.stage = "approving" => NextNonce(w) = tx.nonce + 1
  <2>1. w.stage = "approving" => NextNonce(w) = run[r].nonce + (run[r].step + 1) - 1
    BY <1>2 DEF TakenAs, NextNonce
  <2> QED
    BY <1>3, <1>4, <2>1
<1>6. OneByOne' /\ Receipts' /\ Approved' /\ Submitted'
  BY <1>2, RunGoesOn
<1>7. \A t \in pool \cup inflight : t.run = r => IsOf(t, w)
  BY <1>1, <1>2 DEF Sent
<1>8. Sent' /\ InTurn'
  BY <1>2, <1>3, <1>5, <1>7, SentIsTaken
<1>9. CowTyped'
  <2>1. w \in RunRecord /\ run' \in [Runs -> RunRecord] /\ \A q \in Runs : IsRun(run'[q])
    BY <1>1, <1>2 DEF CowTyped, IsRun
  <2>2. Reached(tx.nonce)
    BY <1>1, <1>3 DEF InTurn
  <2>3. pool' \subseteq Tx
    BY <1>1, <1>3, <2>2, TakesInIs
  <2> QED
    BY <1>1, <2>1, <2>3 DEF CowTyped
<1> QED
  BY <1>6, <1>8, <1>9 DEF CowInv

\* What the command does with an approve: it is taken in, or it failed.
Taken(r) ==
    /\ TakesIn(ApproveTx(r)) /\ \E w : TakenAs(r, w)
    /\ UNCHANGED <<now, inflight, mined, receipt, allowance, orders>>

Failed(r) ==
    /\ UNCHANGED orders
    /\ \E w : /\ Talk(r, w) /\ (w.told # "unknown" => inflight' = inflight)
              /\ \A t \in inflight' : t \in inflight
                     \/ (t = ApproveTx(r) /\ IsOf(t, w))

\* One of the two it is.
LEMMA PostIs ==
    ASSUME CowTyped, NEW r \in Runs, PostApprove(r)
    PROVE  run[r].stage = "approving" /\ (Taken(r) \/ Failed(r))
<1>1. run[r].stage = "approving" /\ UNCHANGED <<now, mined, receipt, allowance, orders>>
  BY DEF PostApprove
<1>2. CASE /\ TakesIn(ApproveTx(r)) /\ UNCHANGED inflight
           /\ run' = IF run[r].step = Len(run[r].plan)
                     THEN [run EXCEPT ![r].stage = "waiting", ![r].deadline = now + WaitLimit]
                     ELSE [run EXCEPT ![r].step = @ + 1]
  <2>1. \E w : TakenAs(r, w)
    BY <1>1, <1>2, TakenIs
  <2> QED
    BY <1>1, <1>2, <2>1 DEF Taken
<1>3. CASE /\ \/ End(r, "rejected") /\ UNCHANGED inflight
              \/ End(r, "unknown") /\ inflight' = inflight \cup {ApproveTx(r)}
           /\ UNCHANGED pool
  <2>1. UNCHANGED <<now, pool, mined, receipt, allowance, orders>>
    BY <1>1, <1>3
  <2> QED
    BY <1>1, <1>3, <2>1, PostFails DEF Failed
<1>4. \/ /\ TakesIn(ApproveTx(r)) /\ UNCHANGED inflight
         /\ run' = IF run[r].step = Len(run[r].plan)
                   THEN [run EXCEPT ![r].stage = "waiting", ![r].deadline = now + WaitLimit]
                   ELSE [run EXCEPT ![r].step = @ + 1]
      \/ /\ \/ End(r, "rejected") /\ UNCHANGED inflight
            \/ End(r, "unknown") /\ inflight' = inflight \cup {ApproveTx(r)}
         /\ UNCHANGED pool
  BY DEF PostApprove
<1> QED
  BY <1>1, <1>2, <1>3, <1>4

\* Every step of the command keeps what holds of the runs.
LEMMA CommandKeeps ==
    ASSUME CowInv, NEW r \in Runs,
           \/ Prepare(r) \/ AnswerPrompt(r) \/ PostApprove(r)
           \/ Poll(r) \/ Submit(r) \/ Kill(r)
    PROVE  CowInv'
<1>1. CowTyped /\ orders \in [Runs -> {"none", "open", "filled"}]
  BY DEF CowInv, CowTyped
<1>2. CASE Prepare(r) \/ AnswerPrompt(r) \/ Poll(r) \/ Kill(r)
  <2>1. UNCHANGED <<inflight, orders>> /\ \E w : Talk(r, w) /\ w.told # "unknown"
    BY <1>1, <1>2, CommandTalks
  <2>2. PICK w : Talk(r, w)
    BY <2>1
  <2>3. orders' \in [Runs -> {"none", "open", "filled"}]
    BY <1>1, <2>1
  <2>4. \A q \in Runs : orders'[q] = orders[q]
            \/ (q = r /\ orders'[q] = "open" /\ w.told \in {"submitted", "submitfailed"})
    BY <2>1
  <2>5. \A t \in inflight' : t \in inflight
            \/ (run[r].stage = "approving" /\ t = ApproveTx(r) /\ IsOf(t, w))
    BY <2>1
  <2> QED
    BY <2>2, <2>3, <2>4, <2>5, TalkIsKept
<1>3. CASE Submit(r)
  <2>1. /\ UNCHANGED inflight
        /\ orders' \in [Runs -> {"none", "open", "filled"}]
        /\ \A q \in Runs : orders'[q] = orders[q]
               \/ (q = r /\ orders'[q] = "open" /\ allowance >= run[r].amt)
        /\ \E w : Talk(r, w) /\ w.told \in {"submitted", "submitfailed"}
    BY <1>1, <1>3, SubmitTalks
  <2>2. PICK w : Talk(r, w) /\ w.told \in {"submitted", "submitfailed"}
    BY <2>1
  <2>3. \A q \in Runs : orders'[q] = orders[q]
            \/ (q = r /\ orders'[q] = "open" /\ w.told \in {"submitted", "submitfailed"})
    BY <2>1, <2>2
  <2>4. \A t \in inflight' : t \in inflight
            \/ (run[r].stage = "approving" /\ t = ApproveTx(r) /\ IsOf(t, w))
    BY <2>1
  <2> QED
    BY <2>1, <2>2, <2>3, <2>4, TalkIsKept
<1>4. CASE PostApprove(r)
  <2>1. run[r].stage = "approving" /\ (Taken(r) \/ Failed(r))
    BY <1>1, <1>4, PostIs
  <2>2. CASE Taken(r)
    <3>1. PICK w : TakenAs(r, w)
      BY <2>2 DEF Taken
    <3>2. /\ TakesIn(ApproveTx(r))
          /\ UNCHANGED <<now, inflight, mined, receipt, allowance, orders>>
      BY <2>2 DEF Taken
    <3> QED
      BY <2>1, <3>1, <3>2, TakenKeeps
  <2>3. CASE Failed(r)
    <3>1. UNCHANGED orders
      BY <2>3 DEF Failed
    <3>2. PICK w : /\ Talk(r, w)
                   /\ \A t \in inflight' : t \in inflight
                          \/ (t = ApproveTx(r) /\ IsOf(t, w))
      BY <2>3 DEF Failed
    <3>3. orders' \in [Runs -> {"none", "open", "filled"}]
      BY <1>1, <3>1
    <3>4. \A q \in Runs : orders'[q] = orders[q]
              \/ (q = r /\ orders'[q] = "open" /\ w.told \in {"submitted", "submitfailed"})
      BY <3>1
    <3>5. \A t \in inflight' : t \in inflight
              \/ (run[r].stage = "approving" /\ t = ApproveTx(r) /\ IsOf(t, w))
      BY <2>1, <3>2
    <3> QED
      BY <3>2, <3>3, <3>4, <3>5, TalkIsKept
  <2> QED
    BY <2>1, <2>2, <2>3
<1> QED
  BY <1>2, <1>3, <1>4

-----------------------------------------------------------------------------
\* A plan that has a last step has it at 1 or 2, and it is for the amount.
LEMMA LastStep ==
    ASSUME CowTyped, NEW q \in Runs, run[q].plan # << >>
    PROVE  /\ run[q].stage \notin {"unused", "quoting"}
           /\ Len(run[q].plan) \in 1..2 /\ run[q].plan[Len(run[q].plan)] = run[q].amt
<1>1. IsRun(run[q])
  BY RunOf
<1>2. run[q].stage \notin {"unused", "quoting"}
  BY <1>1 DEF IsRun
<1>3. run[q].amt \in Nat \ {0} /\ run[q].plan \in Plans(run[q].amt)
  BY <1>1, <1>2, CowAssumption DEF IsRun
<1>4. /\ Len(run[q].plan) \in 0..2 /\ Len(run[q].plan) # 0
      /\ run[q].plan[Len(run[q].plan)] = run[q].amt
  BY <1>3, PlanOf
<1> QED
  BY <1>2, <1>4

\* The transaction that is mined.
Mines(t, status) ==
    /\ t \in pool /\ t.nonce = mined /\ mined' = mined + 1 /\ pool' = pool \ {t}
    /\ receipt' = [receipt EXCEPT ![<<t.run, t.step>>] = status]
    /\ \/ status = "ok" /\ allowance' = t.amt
       \/ status = "reverted" /\ allowance' = allowance /\ allowance > 0 /\ t.amt > 0
    /\ UNCHANGED <<now, run, inflight, orders>>

\* Whatever transaction it is, it goes through or it reverts.
LEMMA MineIs ==
    ASSUME MineApproval
    PROVE  \E t, status : Mines(t, status)
<1>1. PICK t \in pool :
          /\ t.nonce = mined /\ mined' = mined + 1 /\ pool' = pool \ {t}
          /\ receipt' = [receipt EXCEPT ![<<t.run, t.step>>] =
                 IF Resets /\ t.amt > 0 /\ allowance > 0 THEN "reverted" ELSE "ok"]
          /\ allowance' = IF Resets /\ t.amt > 0 /\ allowance > 0 THEN allowance ELSE t.amt
          /\ UNCHANGED <<now, run, inflight, orders>>
  BY DEF MineApproval
<1>2. CASE Resets /\ t.amt > 0 /\ allowance > 0
  <2>1. Mines(t, "reverted")
    BY <1>1, <1>2 DEF Mines
  <2> QED
    BY <2>1
<1>3. CASE ~ (Resets /\ t.amt > 0 /\ allowance > 0)
  <2>1. Mines(t, "ok")
    BY <1>1, <1>3 DEF Mines
  <2> QED
    BY <2>1
<1> QED
  BY <1>2, <1>3

\* A transaction that is mined has its receipt, and nothing else has a new one.
GetsReceipt(t, status) ==
    \A q \in Runs : \A s \in 1..2 :
        \/ q = t.run /\ s = t.step /\ receipt'[<<q, s>>] = status
        \/ (q # t.run \/ s # t.step) /\ receipt'[<<q, s>>] = receipt[<<q, s>>]

\* No receipt is taken back.
LEMMA MinedReceipt ==
    ASSUME CowTyped, Sent, NEW t, NEW status, Mines(t, status)
    PROVE  /\ receipt' \in [Runs \X (1..2) -> {"none", "ok", "reverted"}]
           /\ GetsReceipt(t, status)
           /\ \A q \in Runs : \A s \in 1..2 :
                  receipt[<<q, s>>] # "none" => receipt'[<<q, s>>] # "none"
<1>1. /\ receipt' = [receipt EXCEPT ![<<t.run, t.step>>] = status]
      /\ status \in {"ok", "reverted"} /\ t \in Tx
      /\ receipt \in [Runs \X (1..2) -> {"none", "ok", "reverted"}]
  BY DEF Mines, CowTyped
<1>2. t.run \in Runs /\ t.step \in 1..2
  BY <1>1 DEF Tx
<1>3. receipt' \in [Runs \X (1..2) -> {"none", "ok", "reverted"}]
  BY <1>1, <1>2
<1>4. ASSUME NEW q \in Runs, NEW s \in 1..2
      PROVE  \/ q = t.run /\ s = t.step /\ receipt'[<<q, s>>] = status
             \/ (q # t.run \/ s # t.step) /\ receipt'[<<q, s>>] = receipt[<<q, s>>]
  BY <1>1, <1>2
<1>5. status # "none"
  BY <1>1
<1> QED
  BY <1>3, <1>4, <1>5 DEF GetsReceipt

\* A transaction that is mined keeps what is still pending.
LEMMA MinedSent ==
    ASSUME CowInv, NEW t, NEW status, Mines(t, status)
    PROVE  Sent' /\ InTurn'
<1>1. /\ CowTyped /\ Sent /\ InTurn /\ pool \subseteq Tx /\ inflight \subseteq Tx
      /\ mined \in Nat
  BY DEF CowInv, CowTyped
<1>2. /\ t \in pool /\ t.nonce = mined /\ mined' = mined + 1 /\ pool' = pool \ {t}
      /\ UNCHANGED <<run, inflight>>
  BY DEF Mines
<1>3. \A n \in Nat : Reached(n) => Reached(n)'
  <2>1. ASSUME NEW n \in Nat, Reached(n), NEW m \in mined'..(n - 1)
        PROVE  \E u \in pool' : u.nonce = m
    <3>1. m \in mined..(n - 1) /\ m # mined
      BY <1>1, <1>2
    <3>2. PICK u \in pool : u.nonce = m
      BY <2>1, <3>1 DEF Reached
    <3> QED
      BY <1>2, <3>1, <3>2
  <2> QED
    BY <2>1 DEF Reached
<1>4. \A u \in pool \cup inflight : u.nonce \in Nat
  BY <1>1 DEF Tx
<1>5. \A u \in pool' : u.nonce >= mined'
  <2>1. ASSUME NEW u \in pool' PROVE u.nonce >= mined + 1
    <3>1. u \in pool /\ u # t /\ u.nonce # mined /\ u.nonce >= mined /\ u.nonce \in Nat
      BY <1>1, <1>2, <1>4 DEF Sent
    <3> QED
      BY <1>1, <3>1
  <2> QED
    BY <1>2, <2>1
<1>6. Sent'
  <2>1. \A u \in pool' \cup inflight' : IsOf(u, run[u.run]) /\ Reached(u.nonce)'
    BY <1>1, <1>2, <1>3, <1>4 DEF Sent
  <2>2. \A u, v \in pool' : u.nonce = v.nonce => u = v
    BY <1>1, <1>2 DEF Sent
  <2> QED
    BY <1>2, <1>5, <2>1, <2>2 DEF Sent
<1>7. ASSUME NEW r \in Runs, run[r].stage = "unused" PROVE mined + 1 <= 2 * (r - 1)
  <2>1. t.nonce < 2 * (r - 1)
    BY <1>2, <1>7, BeforeStart
  <2>2. r \in Nat
    BY DEF Runs
  <2> QED
    BY <1>1, <1>2, <2>1, <2>2
<1>8. ASSUME NEW r \in Runs, run[r].stage # "unused"
      PROVE  run[r].nonce <= 2 * (r - 1) /\ \A n : n = NextNonce(run[r]) => Reached(n)'
  <2>1. run[r].nonce \in Nat /\ run[r].step \in 1..2
    BY <1>1, RunOf
  <2>2. NextNonce(run[r]) \in Nat
    BY <2>1 DEF NextNonce
  <2> QED
    BY <1>1, <1>3, <1>8, <2>2 DEF InTurn
<1>9. \A r \in Runs : \A u \in pool' \cup inflight' :
          run[r].stage # "unused" /\ u.run < r => u.nonce <= run[r].nonce
  BY <1>1, <1>2 DEF InTurn
<1>10. InTurn'
  BY <1>2, <1>7, <1>8, <1>9 DEF InTurn
<1> QED
  BY <1>6, <1>10

\* A transaction that is mined leaves approved what was approved last.
LEMMA MinedApproved ==
    ASSUME CowInv, NEW t, NEW status, Mines(t, status)
    PROVE  Approved'
<1>1. CowTyped /\ Sent /\ InTurn /\ Receipts /\ Approved /\ t \in Tx /\ mined \in Nat
  BY DEF CowInv, CowTyped, Mines
<1>2. /\ t \in pool /\ t.nonce = mined
      /\ \/ status = "ok" /\ allowance' = t.amt
         \/ status = "reverted" /\ allowance' = allowance
      /\ UNCHANGED <<run, orders>>
  BY DEF Mines
<1>3. /\ t.run \in Runs /\ t.step \in 1..2 /\ t.amt = run[t.run].plan[t.step]
      /\ run[t.run].stage \notin {"unused", "quoting", "prompt"}
      /\ t.step <= Len(run[t.run].plan) /\ t.nonce = run[t.run].nonce + t.step - 1
  BY <1>1, <1>2, TxOf DEF Sent
<1>4. \A q \in Runs : \A s \in 1..2 :
          \/ q = t.run /\ s = t.step /\ receipt'[<<q, s>>] = status
          \/ (q # t.run \/ s # t.step) /\ receipt'[<<q, s>>] = receipt[<<q, s>>]
  <2>1. GetsReceipt(t, status)
    BY <1>1, MinedReceipt
  <2> QED
    BY <2>1 DEF GetsReceipt
<1> SUFFICES ASSUME NEW q \in Runs, run[q].plan # << >>,
                    receipt'[<<q, Len(run[q].plan)>>] = "ok", orders[q] # "filled",
                    \A r \in Runs : r > q => run[r].stage \in {"unused", "quoting"}
             PROVE  allowance' >= run[q].amt
  BY <1>2 DEF Approved
<1>5. PICK last : last = Len(run[q].plan)
  OBVIOUS
<1>6. /\ last \in 1..2 /\ run[q].plan[last] = run[q].amt /\ run[q].stage # "unused"
      /\ run[q].amt \in Nat /\ run[q].nonce \in Nat /\ q \in Nat
  BY <1>1, <1>5, LastStep, RunOf
<1>7. \/ q = t.run /\ last = t.step /\ status = "ok"
      \/ (q # t.run \/ last # t.step) /\ receipt[<<q, last>>] = "ok"
  <2>1. \/ q = t.run /\ last = t.step /\ receipt'[<<q, last>>] = status
        \/ (q # t.run \/ last # t.step) /\ receipt'[<<q, last>>] = receipt[<<q, last>>]
    BY <1>4, <1>6
  <2>2. receipt'[<<q, last>>] = "ok"
    BY <1>5
  <2> QED
    BY <2>1, <2>2
<1>8. CASE q = t.run /\ last = t.step /\ status = "ok"
  BY <1>2, <1>3, <1>6, <1>8
<1>9. CASE (q # t.run \/ last # t.step) /\ receipt[<<q, last>>] = "ok"
  <2>1. run[q].nonce + last - 1 < mined
    BY <1>1, <1>6, <1>9 DEF Receipts
  <2>2. q # t.run
    <3>1. SUFFICES ASSUME q = t.run PROVE FALSE
      OBVIOUS
    <3>2. t.step <= last /\ mined = run[q].nonce + t.step - 1
      BY <1>2, <1>3, <1>5, <3>1
    <3> QED
      BY <1>1, <1>3, <1>6, <2>1, <3>2
  <2>3. ~ (t.run > q)
    BY <1>3
  <2>4. t.run \in Nat /\ t.run < q
    BY <1>3, <1>6, <2>2, <2>3 DEF Runs
  <2>5. mined <= run[q].nonce
    BY <1>1, <1>2, <1>6, <2>4 DEF InTurn
  <2> QED
    BY <1>1, <1>6, <2>1, <2>5
<1> QED
  BY <1>7, <1>8, <1>9

\* A transaction that is mined keeps what holds of the runs.
LEMMA ApprovalMinedKeeps ==
    ASSUME CowInv, MineApproval
    PROVE  CowInv'
<1>1. /\ CowTyped /\ OneByOne /\ Sent /\ Receipts /\ Submitted
      /\ pool \subseteq Tx /\ inflight \subseteq Tx /\ mined \in Nat
  BY DEF CowInv, CowTyped
<1>2. PICK t, status : Mines(t, status)
  BY MineIs
<1>3. /\ t \in pool /\ t.nonce = mined /\ mined' = mined + 1 /\ pool' = pool \ {t}
      /\ UNCHANGED <<now, run, inflight, orders>>
      /\ allowance' = t.amt \/ allowance' = allowance
  BY <1>2 DEF Mines
<1>4. /\ receipt' \in [Runs \X (1..2) -> {"none", "ok", "reverted"}]
      /\ \A q \in Runs : \A s \in 1..2 :
             (q = t.run /\ s = t.step) \/ receipt'[<<q, s>>] = receipt[<<q, s>>]
      /\ \A q \in Runs : \A s \in 1..2 :
             receipt[<<q, s>>] # "none" => receipt'[<<q, s>>] # "none"
  BY <1>1, <1>2, MinedReceipt DEF GetsReceipt
<1>5. /\ t.run \in Runs /\ t.step \in 1..2 /\ t.amt \in Nat
      /\ t.step <= Len(run[t.run].plan) /\ t.nonce = run[t.run].nonce + t.step - 1
  BY <1>1, <1>3, TxOf DEF Sent
<1>6. CowTyped'
  BY <1>1, <1>3, <1>4, <1>5 DEF CowTyped
<1>7. ASSUME NEW q \in Runs, run[q].told \in {"timeout", "reverted"}
      PROVE  Len(run[q].plan) \in 1..2
  <2>1. run[q].plan # << >>
    BY <1>1, <1>7, RunOf DEF IsRun
  <2> QED
    BY <1>1, <2>1, LastStep
<1>8. OneByOne'
  <2> SUFFICES ASSUME NEW r \in Runs, run[r].stage # "unused", NEW q \in 1..(r - 1)
               PROVE  MayRerun(q)'
    BY <1>3 DEF OneByOne
  <2>1. q \in Runs /\ MayRerun(q)
    BY <1>1, CowAssumption DEF OneByOne, Runs
  <2> QED
    BY <1>3, <1>4, <1>7, <2>1 DEF MayRerun
<1>9. Receipts'
  <2>1. ASSUME NEW q \in Runs, NEW s \in 1..2, receipt'[<<q, s>>] # "none"
        PROVE  s <= Len(run[q].plan) /\ run[q].nonce + s - 1 < mined + 1
    <3>1. CASE q = t.run /\ s = t.step
      <4>1. s <= Len(run[q].plan) /\ run[q].nonce + s - 1 = mined
        BY <1>3, <1>5, <3>1
      <4> QED
        BY <1>1, <4>1
    <3>2. CASE receipt'[<<q, s>>] = receipt[<<q, s>>]
      <4>1. s <= Len(run[q].plan) /\ run[q].nonce + s - 1 < mined
        BY <1>1, <2>1, <3>2 DEF Receipts
      <4>2. run[q].nonce \in Nat
        BY <1>1, RunOf
      <4> QED
        BY <1>1, <4>1, <4>2
    <3> QED
      BY <1>4, <3>1, <3>2
  <2>2. ASSUME NEW q \in Runs, run[q].told = "reverted"
        PROVE  receipt'[<<q, Len(run[q].plan)>>] # "none"
    BY <1>1, <1>4, <1>7, <2>2 DEF Receipts
  <2> QED
    BY <1>3, <2>1, <2>2 DEF Receipts
<1>10. Sent' /\ InTurn' /\ Approved'
  BY <1>2, MinedSent, MinedApproved
<1>11. Submitted'
  BY <1>1, <1>3 DEF Submitted
<1> QED
  BY <1>6, <1>8, <1>9, <1>10, <1>11 DEF CowInv

-----------------------------------------------------------------------------
\* What depends on the runs and on what is pending alone rests with them.
LEMMA PendingRests ==
    ASSUME CowInv, UNCHANGED <<run, pool, inflight, mined, receipt>>
    PROVE  OneByOne' /\ Sent' /\ InTurn' /\ Receipts'
<1>1. \A n : Reached(n)' <=> Reached(n)
  BY DEF Reached
<1>2. OneByOne' /\ Receipts'
  BY DEF CowInv, OneByOne, MayRerun, Receipts
<1>3. Sent' /\ InTurn'
  BY <1>1 DEF CowInv, Sent, InTurn
<1> QED
  BY <1>2, <1>3

\* An order that is filled takes what was approved for it.
LEMMA SettleKeeps ==
    ASSUME SameSwap, CowInv, NEW r \in Runs, Settle(r)
    PROVE  CowInv'
<1>1. /\ CowTyped /\ OneByOne /\ Approved /\ Submitted
      /\ orders \in [Runs -> {"none", "open", "filled"}]
  BY DEF CowInv, CowTyped
<1>2. /\ orders[r] = "open" /\ allowance >= run[r].amt
      /\ orders' = [orders EXCEPT ![r] = "filled"]
      /\ allowance' = allowance - run[r].amt
      /\ UNCHANGED <<now, run, pool, inflight, mined, receipt>>
  BY DEF Settle
<1>3. OneByOne' /\ Sent' /\ InTurn' /\ Receipts'
  BY <1>2, PendingRests
<1>4. CowTyped'
  <2>1. allowance \in Nat /\ run[r].amt \in Nat
    BY <1>1, RunOf DEF CowTyped
  <2>2. allowance' \in Nat
    BY <1>2, <2>1
  <2>3. orders' \in [Runs -> {"none", "open", "filled"}]
    BY <1>1, <1>2
  <2> QED
    BY <1>1, <1>2, <2>2, <2>3 DEF CowTyped
<1>5. run[r].stage = "ended"
  <2>1. run[r].told # "nothing"
    BY <1>1, <1>2 DEF Submitted
  <2> QED
    BY <1>1, <2>1, RunOf DEF IsRun
<1>6. Approved'
  <2> SUFFICES ASSUME NEW q \in Runs, run[q].plan # << >>, orders'[q] # "filled",
                      \A s \in Runs : s > q => run[s].stage \in {"unused", "quoting"}
               PROVE  FALSE
    BY <1>2 DEF Approved
  <2>1. q # r
    BY <1>1, <1>2
  <2>2. ~ (r > q)
    BY <1>5
  <2>3. q > r
    BY <2>1, <2>2 DEF Runs
  <2>4. run[q].stage = "unused"
    BY <1>1, <1>2, <2>3, OrderIsLast
  <2> QED
    BY <1>1, <2>4, RunOf DEF IsRun
<1>7. Submitted'
  <2>1. \A q \in Runs : orders'[q] # "none" => orders[q] # "none"
    BY <1>1, <1>2
  <2> QED
    BY <1>1, <1>2, <2>1 DEF Submitted
<1> QED
  BY <1>3, <1>4, <1>6, <1>7 DEF CowInv

\* A tick, or a stutter, moves nothing but the clock.
LEMMA TickKeeps ==
    ASSUME CowInv, now' = now \/ now' = now + 1, UNCHANGED <<run, chain, orders>>
    PROVE  CowInv'
<1>1. CowTyped /\ UNCHANGED <<run, pool, inflight, mined, receipt, allowance, orders>>
  BY DEF CowInv, chain
<1>2. OneByOne' /\ Sent' /\ InTurn' /\ Receipts'
  BY <1>1, PendingRests
<1>3. Approved' /\ Submitted'
  BY <1>1, RunsRest
<1>4. CowTyped'
  BY <1>1 DEF CowTyped
<1> QED
  BY <1>2, <1>3, <1>4 DEF CowInv

\* Nothing has been asked for, and nothing is pending.
LEMMA CowInitInv ==
    ASSUME CowInit
    PROVE  CowInv
<1>1. /\ now = 0 /\ pool = {} /\ inflight = {} /\ mined = 0
      /\ receipt = [s \in Runs \X (1..2) |-> "none"]
      /\ orders = [r \in Runs |-> "none"]
      /\ allowance \in Nat
  BY CowAssumption DEF CowInit
<1>2. PICK w : w = [stage |-> "unused", told |-> "nothing", amt |-> 0, exp |-> 0,
                    nonce |-> 0, plan |-> << >>, step |-> 1, deadline |-> 0]
  OBVIOUS
<1>3. run = [r \in Runs |-> w]
  BY <1>2 DEF CowInit
<1>4. \A r \in Runs : run[r] = w
  BY <1>3
<1>5. w \in RunRecord /\ w.stage = "unused" /\ w.told = "nothing" /\ w.plan = << >> /\ w.step = 1
  BY <1>2 DEF RunRecord, Stage
<1>6. IsRun(w)
  BY <1>5 DEF IsRun, Plans
<1>7. \A q \in Runs : \A s \in 1..2 : receipt[<<q, s>>] = "none"
  BY <1>1
<1>8. CowTyped
  BY <1>1, <1>3, <1>4, <1>5, <1>6 DEF CowTyped
<1>9. OneByOne /\ Sent /\ Submitted /\ Receipts
  BY <1>1, <1>4, <1>5, <1>7 DEF OneByOne, Sent, Submitted, Receipts
<1>10. Approved
  BY <1>4, <1>5 DEF Approved
<1>11. InTurn
  <2>1. \A r \in Runs : 0 <= 2 * (r - 1)
    BY DEF Runs
  <2> QED
    BY <1>1, <1>4, <1>5, <2>1 DEF InTurn
<1> QED
  BY <1>8, <1>9, <1>10, <1>11 DEF CowInv

\* Every step keeps what holds of the runs.
LEMMA CowNextInv ==
    ASSUME SameSwap, CowInv, [CowNext]_cowVars
    PROVE  CowInv'
<1>1. ASSUME NEW r \in Runs, Start(r) PROVE CowInv'
  BY <1>1, StartKeeps
<1>2. ASSUME NEW r \in Runs,
             \/ Prepare(r) \/ AnswerPrompt(r) \/ PostApprove(r)
             \/ Poll(r) \/ Submit(r) \/ Kill(r)
      PROVE  CowInv'
  BY <1>2, CommandKeeps
<1>3. ASSUME NEW r \in Runs, Settle(r) PROVE CowInv'
  BY <1>3, SettleKeeps
<1>4. CASE Deliver
  BY <1>4, DeliverSent
<1>5. CASE MineApproval
  BY <1>5, ApprovalMinedKeeps
<1>6. CASE Tick
  BY <1>6, TickKeeps DEF Tick
<1>7. CASE UNCHANGED cowVars
  BY <1>7, TickKeeps DEF cowVars
<1> QED
  BY <1>1, <1>2, <1>3, <1>4, <1>5, <1>6, <1>7 DEF CowNext

\* What holds of the runs holds always.
LEMMA CowInvHolds ==
    ASSUME SameSwap
    PROVE  CowSpec => []CowInv
<1>1. CowInit => CowInv
  BY CowInitInv
<1>2. CowInv /\ [CowNext]_cowVars => CowInv'
  BY CowNextInv
<1> QED
  BY <1>1, <1>2, PTL DEF CowSpec

-----------------------------------------------------------------------------
\* A run that was being quoted and is at its prompt was prepared.
LEMMA PreparedIs ==
    ASSUME CowTyped, [CowNext]_cowVars, NEW r \in Runs,
           run[r].stage = "quoting", run'[r].stage = "prompt"
    PROVE  run'[r].plan = Approvals(run[r].amt, allowance)
<1>1. run \in [Runs -> RunRecord]
  BY DEF CowTyped
<1>2. ASSUME NEW q \in Runs, NEW w, run' = [run EXCEPT ![q] = w], q # r \/ w.stage # "prompt"
      PROVE  FALSE
  BY <1>1, <1>2
<1>3. ASSUME NEW q \in Runs, NEW told, End(q, told) PROVE FALSE
  <2>1. run' = [run EXCEPT ![q] = [run[q] EXCEPT !.stage = "ended", !.told = told]]
    BY <1>1, <1>3 DEF End
  <2>2. [run[q] EXCEPT !.stage = "ended", !.told = told].stage = "ended"
    BY <1>1 DEF RunRecord
  <2> QED
    BY <1>2, <2>1, <2>2
<1>4. ASSUME NEW q \in Runs, Prepare(q)
      PROVE  run'[r].plan = Approvals(run[r].amt, allowance)
  <2>1. CASE \E told \in {"aborted", "gate", "dryrun"} : End(q, told)
    BY <1>3, <2>1
  <2>2. CASE run' = [run EXCEPT ![q].stage = "prompt", ![q].exp = now + OrderLife,
                                ![q].plan = Approvals(run[q].amt, allowance)]
    <3>1. PICK plan : plan = Approvals(run[q].amt, allowance)
      OBVIOUS
    <3>2. PICK exp : exp = now + OrderLife
      OBVIOUS
    <3>3. run' = [run EXCEPT ![q] = [run[q] EXCEPT !.stage = "prompt", !.exp = exp, !.plan = plan]]
      BY <1>1, <2>2, <3>1, <3>2
    <3>4. q = r
      BY <1>2, <3>3
    <3>5. run'[r].plan = plan
      BY <1>1, <3>3, <3>4 DEF RunRecord
    <3> QED
      BY <3>1, <3>4, <3>5
  <2> QED
    BY <1>4, <2>1, <2>2 DEF Prepare
<1>5. ASSUME NEW q \in Runs, Start(q) PROVE FALSE
  <2>1. PICK n : n = PendingNonce
    OBVIOUS
  <2>2. PICK a \in Amounts :
            run' = [run EXCEPT ![q].stage = "quoting", ![q].amt = a, ![q].nonce = n]
    BY <1>5, <2>1 DEF Start
  <2>3. run' = [run EXCEPT ![q] = [run[q] EXCEPT !.stage = "quoting", !.amt = a, !.nonce = n]]
    BY <1>1, <2>2
  <2>4. [run[q] EXCEPT !.stage = "quoting", !.amt = a, !.nonce = n].stage = "quoting"
    BY <1>1 DEF RunRecord
  <2> QED
    BY <1>2, <2>3, <2>4
<1>6. ASSUME NEW q \in Runs,
             AnswerPrompt(q) \/ PostApprove(q) \/ Poll(q) \/ Submit(q)
      PROVE  FALSE
  <2>1. run[q].stage # "quoting"
    BY <1>6 DEF AnswerPrompt, PostApprove, Poll, Submit
  <2>2. q # r => run'[r] = run[r]
    BY <1>1, <1>6 DEF AnswerPrompt, PostApprove, Poll, Submit, End
  <2> QED
    BY <2>1, <2>2
<1>7. ASSUME NEW q \in Runs, Kill(q) PROVE FALSE
  BY <1>3, <1>7 DEF Kill
<1>8. ASSUME run' = run PROVE FALSE
  BY <1>8
<1>9. ASSUME \/ \E q \in Runs : Settle(q)
              \/ Deliver \/ MineApproval \/ Tick \/ UNCHANGED cowVars
       PROVE  FALSE
  <2>1. run' = run
    BY <1>9 DEF Settle, Deliver, MineApproval, Tick, cowVars
  <2> QED
    BY <1>8, <2>1
<1> QED
  BY <1>4, <1>5, <1>6, <1>7, <1>9 DEF CowNext

\* No new approval is sent after one that confirmed late.
LEMMA NothingMissing ==
    ASSUME SameSwap, CowInv, [CowNext]_cowVars, NEW r \in Runs \ {1},
           run[r].stage = "quoting", run'[r].stage = "prompt",
           run[r - 1].told = "timeout",
           receipt[<<r - 1, Len(run[r - 1].plan)>>] = "ok"
    PROVE  run'[r].plan = << >>
<1>1. /\ CowTyped /\ OneByOne /\ Approved /\ Submitted /\ allowance \in Nat
      /\ orders \in [Runs -> {"none", "open", "filled"}]
  BY DEF CowInv, CowTyped
<1>2. run'[r].plan = Approvals(run[r].amt, allowance)
  BY <1>1, PreparedIs
<1>3. PICK q \in Runs : q = r - 1
  BY CowAssumption DEF Runs
<1>4. IsRun(run[q]) /\ IsRun(run[r]) /\ run[q].amt \in Nat /\ run[r].amt \in Nat
  BY <1>1, <1>3, RunOf
<1>5. run[q].told = "timeout" /\ receipt[<<q, Len(run[q].plan)>>] = "ok"
  BY <1>3
<1>6. run[q].plan # << >> /\ run[q].stage = "ended"
  BY <1>4, <1>5 DEF IsRun
<1>7. orders[q] = "none"
  BY <1>1, <1>5 DEF Submitted
<1>8. \A s \in Runs : s > q => run[s].stage \in {"unused", "quoting"}
  <2>1. \A s \in Runs : s > r => run[s].stage = "unused"
    BY <1>1, NoneLater
  <2>2. \A s \in Runs : s > q => s = r \/ s > r
    BY <1>3 DEF Runs
  <2> QED
    BY <2>1, <2>2
<1>9. allowance >= run[q].amt
  BY <1>1, <1>5, <1>6, <1>7, <1>8 DEF Approved
<1>10. run[q].amt = run[r].amt
  <2>1. run[q].amt \in Amounts /\ run[r].amt \in Amounts
    BY <1>4, <1>6 DEF IsRun
  <2> QED
    BY <2>1 DEF SameSwap
<1> QED
  BY <1>1, <1>2, <1>4, <1>9, <1>10 DEF Approvals

\* cli._swap_via_cow: "once it confirms, re-run the same command: the allowance
\* will already be in place, so no new approval is sent".  For a user who runs
\* the command again for the same amount, and never while an order of his may be
\* in the book, it is so.
THEOREM NoSecondApproval ==
    ASSUME SameSwap
    PROVE  CowSpec => RerunNeedsNoApproval
<1>1. CowInv /\ [CowNext]_cowVars =>
          [\A r \in Runs \ {1} :
              LET prepared  == run[r].stage = "quoting" /\ run'[r].stage = "prompt"
                  last      == <<r - 1, Len(run[r - 1].plan)>>
                  confirmed == run[r - 1].told = "timeout" /\ receipt[last] = "ok"
              IN  prepared /\ confirmed => run'[r].plan = << >>]_cowVars
  BY NothingMissing
<1>2. CowSpec => []CowInv
  BY CowInvHolds
<1> QED
  BY <1>1, <1>2, PTL DEF CowSpec, RerunNeedsNoApproval

-----------------------------------------------------------------------------
\* The allowance is short of what a run asks for, or it is not.
LEMMA ShortIs ==
    ASSUME SameSwap, CowTyped, NEW r \in Runs, run[r].stage # "unused"
    PROVE  Short <=> ~ (allowance >= run[r].amt)
<1>1. run[r].amt \in Amounts /\ run[r].amt \in Nat /\ allowance \in Nat
  BY RunOf DEF IsRun, CowTyped
<1>2. \A a \in Amounts : a = run[r].amt
  BY <1>1 DEF SameSwap
<1> QED
  BY <1>1, <1>2 DEF Short

\* An approval of an amount is the last of its run's plan.
LEMMA AmountIsLast ==
    ASSUME CowTyped, NEW t \in Tx, IsOf(t, run[t.run]), t.amt # 0
    PROVE  /\ t.step = Len(run[t.run].plan) /\ t.step \in 1..2
           /\ run[t.run].plan # << >> /\ run[t.run].stage # "unused"
<1>1. /\ t.run \in Runs /\ t.step \in 1..2 /\ t.step <= Len(run[t.run].plan)
      /\ t.amt = run[t.run].plan[t.step]
      /\ run[t.run].stage \notin {"unused", "quoting", "prompt"}
  BY TxOf
<1>2. IsRun(run[t.run])
  BY <1>1, RunOf
<1>3. run[t.run].amt \in Nat \ {0} /\ run[t.run].plan \in Plans(run[t.run].amt)
  BY <1>1, <1>2, CowAssumption DEF IsRun
<1>4. PICK a \in Nat \ {0} : run[t.run].plan \in Plans(a)
  BY <1>3
<1>5. PICK plan \in Plans(a) : plan = run[t.run].plan
  BY <1>4
<1>6. \A i \in 1..Len(plan) : plan[i] \in {0, a} /\ (plan[i] # 0 => i = Len(plan))
  BY PlanOf
<1>7. t.step \in 1..Len(plan) /\ plan[t.step] # 0
  BY <1>1, <1>5 DEF IsOf
<1>8. t.step = Len(plan)
  BY <1>6, <1>7
<1>9. run[t.run].plan # << >>
  BY <1>5, <1>7, PlanOf
<1> QED
  BY <1>1, <1>5, <1>8, <1>9

\* When a run may be run again and every approval was answered, its amount is
\* not pending.
LEMMA NoneIsLate ==
    ASSUME SameSwap, CowInv, Calm, NEW t \in pool, MayRerun(t.run)
    PROVE  t.amt = 0
<1> SUFFICES ASSUME t.amt # 0 PROVE FALSE
  OBVIOUS
<1>1. CowTyped /\ Sent /\ Receipts /\ t \in Tx /\ t.run \in Runs /\ mined \in Nat
  BY DEF CowInv, CowTyped, Tx
<1>2. IsOf(t, run[t.run]) /\ t.nonce >= mined
  BY <1>1 DEF Sent
<1>3. PICK q \in Runs : q = t.run
  BY <1>1
<1>4. PICK last : last = Len(run[q].plan)
  OBVIOUS
<1>5. /\ t.step = last /\ last \in 1..2 /\ t.nonce = run[q].nonce + last - 1
      /\ run[q].plan # << >> /\ run[q].nonce \in Nat /\ run[q].step \in 1..2
  BY <1>1, <1>2, <1>3, <1>4, AmountIsLast, TxOf, RunOf
<1>6. run[q].told \in NoOrder /\ run[q].told \notin NothingSent /\ run[q].told # "unknown"
  BY <1>2, <1>3 DEF MayRerun, SameSwap, IsOf, Calm
<1>7. run[q].told \in {"rejected", "timeout", "reverted"}
  BY <1>6 DEF NoOrder, NothingSent
<1>8. receipt[<<q, last>>] = "none"
  <2>1. receipt[<<q, last>>] # "none" => run[q].nonce + last - 1 < mined
    BY <1>1, <1>5 DEF Receipts
  <2> QED
    BY <1>1, <1>2, <1>5, <2>1
<1>9. run[q].told # "rejected"
  <2>1. run[q].told = "rejected" => t.step < run[q].step /\ run[q].step <= last
    BY <1>1, <1>2, <1>3, <1>4, RunOf DEF IsOf, IsRun
  <2> QED
    BY <1>5, <2>1
<1>10. run[q].told # "timeout"
  BY <1>3, <1>4, <1>8 DEF MayRerun
<1>11. run[q].told # "reverted"
  BY <1>1, <1>4, <1>8 DEF Receipts
<1> QED
  BY <1>7, <1>9, <1>10, <1>11

\* What a start leaves funded.
LEMMA StartFunds ==
    ASSUME SameSwap, CowInv, Calm, Funded, NEW r \in Runs, Start(r)
    PROVE  Funded'
<1>1. /\ run[r].stage = "unused" /\ \A q \in 1..(r - 1) : MayRerun(q)
      /\ UNCHANGED <<pool, inflight, allowance, orders>>
  BY DEF Start, chain
<1>2. CowTyped /\ Submitted /\ run \in [Runs -> RunRecord]
  BY DEF CowInv, CowTyped
<1>3. PICK n : n = PendingNonce
  OBVIOUS
<1>4. PICK a \in Amounts :
          run' = [run EXCEPT ![r].stage = "quoting", ![r].amt = a, ![r].nonce = n]
  BY <1>3 DEF Start
<1>5. run'[r].stage = "quoting" /\ \A q \in Runs : q # r => run'[q] = run[q]
  BY <1>2, <1>4 DEF RunRecord
<1>6. \A t \in pool : t.amt = 0
  <2>1. ASSUME NEW t \in pool PROVE t.amt = 0
    <3>1. t.run < r /\ t.run \in Runs
      BY <1>1, <1>2, BeforeStart DEF CowTyped, Tx
    <3>2. t.run \in 1..(r - 1)
      BY <3>1 DEF Runs
    <3> QED
      BY <1>1, <3>2, NoneIsLate
  <2> QED
    BY <2>1
<1>7. orders[r] = "none"
  <2>1. run[r].told = "nothing"
    BY <1>1, <1>2, RunOf DEF IsRun
  <2> QED
    BY <1>2, <2>1 DEF Submitted, CowTyped
<1>8. \A q \in Runs : ToApprove(q)' => ToApprove(q)
  BY <1>5 DEF ToApprove
<1>9. ASSUME NEW q \in Runs, Ready(q)' PROVE allowance >= run'[q].amt
  <2>1. q # r
    BY <1>1, <1>5, <1>7, <1>9 DEF Ready
  <2>2. Ready(q) /\ run'[q] = run[q]
    BY <1>1, <1>5, <1>9, <2>1 DEF Ready
  <2> QED
    BY <2>2 DEF Funded
<1>10. Short' <=> Short
  BY <1>1 DEF Short
<1> QED
  BY <1>1, <1>6, <1>8, <1>9, <1>10 DEF Funded

\* What a run leaves funded as it goes on.
LEMMA TalkFunds ==
    ASSUME SameSwap, CowInv, Funded, NEW r \in Runs, NEW w, Talk(r, w),
           inflight' = inflight,
           \A q \in Runs : orders'[q] = orders[q]
               \/ (q = r /\ orders'[q] = "open" /\ allowance >= run[r].amt)
    PROVE  Funded'
<1>1. /\ CowTyped /\ OneByOne /\ Sent /\ Approved /\ Submitted /\ pool \subseteq Tx
      /\ run \in [Runs -> RunRecord] /\ allowance \in Nat
  BY DEF CowInv, CowTyped
<1>2. /\ IsRun(w) /\ GoesOnAs(run[r], w) /\ run' = [run EXCEPT ![r] = w]
      /\ UNCHANGED <<pool, allowance>>
      /\ w.stage \in {"prompt", "approving", "submitting", "ended"}
  BY DEF Talk
<1>3. run[r].stage \notin {"unused", "ended"} /\ w.stage # "unused" /\ w.amt = run[r].amt
  BY <1>2 DEF GoesOnAs
<1>4. run'[r] = w /\ \A q \in Runs : q # r => run'[q] = run[q]
  BY <1>1, <1>2
<1>5. /\ IsRun(run[r]) /\ run[r].told = "nothing" /\ orders[r] = "none"
      /\ \A s \in Runs : s > r => run[s].stage = "unused"
  <2>1. IsRun(run[r]) /\ run[r].told = "nothing"
    BY <1>1, <1>3, RunOf DEF IsRun
  <2>2. orders[r] = "none"
    BY <1>1, <2>1 DEF Submitted, CowTyped
  <2> QED
    BY <1>1, <1>3, <2>1, <2>2, NoneLater
<1>6. Short <=> ~ (allowance >= run[r].amt)
  BY <1>1, <1>3, ShortIs
<1>7. ASSUME NEW t \in pool, t.amt # 0 PROVE LastApproval(t)'
  <2>1. run[t.run].stage # "approving" /\ \A q \in Runs : q > t.run => run[q].stage = "unused"
    BY <1>7 DEF Funded, LastApproval
  <2>2. \A q \in Runs : q > t.run => run'[q].stage = "unused"
    BY <1>3, <1>4, <2>1
  <2>3. run'[t.run].stage # "approving"
    <3>1. t.run \in Runs /\ run[t.run].stage \notin {"unused", "quoting", "prompt"}
      BY <1>1, TxOf DEF Sent
    <3>2. CASE t.run # r
      BY <1>4, <2>1, <3>1, <3>2
    <3>3. CASE t.run = r
      <4>1. w.stage = "approving" => run[r].stage = "prompt"
        BY DEF Talk
      <4> QED
        BY <1>4, <3>1, <3>3, <4>1
    <3> QED
      BY <3>2, <3>3
  <2> QED
    BY <2>2, <2>3 DEF LastApproval
<1>8. ASSUME NEW q \in Runs, ToApprove(q)' PROVE Short
  <2>1. CASE q # r
    <3>1. ToApprove(q)
      BY <1>4, <1>8, <2>1 DEF ToApprove
    <3> QED
      BY <3>1 DEF Funded
  <2>2. CASE q = r
    <3>1. CASE w.stage = "approving"
      <4>1. ToApprove(r)
        BY <3>1 DEF Talk, ToApprove
      <4> QED
        BY <4>1 DEF Funded
    <3>2. CASE w.stage = "prompt" /\ w.plan # << >>
      <4>1. allowance < w.amt
        BY <3>2 DEF Talk
      <4>2. w.amt \in Nat
        BY <1>1, <1>3, RunOf
      <4>3. ~ (allowance >= run[r].amt)
        BY <1>1, <1>3, <4>1, <4>2
      <4> QED
        BY <1>6, <4>3
    <3> QED
      BY <1>4, <1>8, <2>2, <3>1, <3>2 DEF ToApprove
  <2> QED
    BY <2>1, <2>2
<1>9. ASSUME NEW q \in Runs, Ready(q)' PROVE allowance >= run'[q].amt
  <2>1. CASE q # r
    <3>1. Ready(q) /\ run'[q] = run[q]
      BY <1>4, <1>9, <2>1 DEF Ready
    <3> QED
      BY <3>1 DEF Funded
  <2>2. CASE q = r
    <3>1. CASE w.stage = "prompt" /\ w.plan = << >>
      BY <1>4, <2>2, <3>1 DEF Talk
    <3>2. CASE orders'[r] = "open"
      BY <1>3, <1>4, <1>5, <2>2, <3>2
    <3>3. CASE w.stage = "submitting"
      <4>1. \/ run[r].stage = "prompt" /\ run[r].plan = << >>
            \/ run[r].plan # << >> /\ receipt[<<r, Len(run[r].plan)>>] = "ok"
        BY <3>3 DEF Talk
      <4>2. CASE run[r].stage = "prompt" /\ run[r].plan = << >>
        <5>1. Ready(r)
          BY <4>2 DEF Ready
        <5> QED
          BY <1>3, <1>4, <2>2, <5>1 DEF Funded
      <4>3. CASE run[r].plan # << >> /\ receipt[<<r, Len(run[r].plan)>>] = "ok"
        <5>1. allowance >= run[r].amt
          BY <1>1, <1>5, <4>3 DEF Approved
        <5> QED
          BY <1>3, <1>4, <2>2, <5>1
      <4> QED
        BY <4>1, <4>2, <4>3
    <3> QED
      BY <1>4, <1>9, <2>2, <3>1, <3>2, <3>3 DEF Ready
  <2> QED
    BY <2>1, <2>2
<1>10. Short' <=> Short
  BY <1>2 DEF Short
<1>11. inflight' = {} /\ (pool' # {} => Short)
  BY <1>2 DEF Funded
<1> QED
  BY <1>2, <1>7, <1>8, <1>9, <1>10, <1>11 DEF Funded

\* What is left funded when the node takes an approve in.
LEMMA TakenFunds ==
    ASSUME SameSwap, CowInv, Funded, NEW r \in Runs, run[r].stage = "approving", Taken(r)
    PROVE  Funded'
<1>1. /\ CowTyped /\ OneByOne /\ Sent /\ InTurn /\ Submitted /\ pool \subseteq Tx
      /\ run \in [Runs -> RunRecord]
  BY DEF CowInv, CowTyped
<1>2. TakesIn(ApproveTx(r)) /\ UNCHANGED <<now, inflight, mined, receipt, allowance, orders>>
  BY DEF Taken
<1>3. PICK w : TakenAs(r, w)
  BY DEF Taken
<1>4. PICK tx \in Tx : /\ tx = ApproveTx(r) /\ tx.run = r /\ tx.step = run[r].step
                       /\ tx.nonce = NextNonce(run[r])
  BY <1>1, ApproveTxIs
<1>5. \A t \in pool' : t = tx \/ t \in pool
  <2>1. Reached(tx.nonce)
    BY <1>1, <1>4 DEF InTurn
  <2> QED
    BY <1>1, <1>2, <1>4, <2>1, TakesInIs
<1>6. /\ IsRun(w) /\ run'[r] = w /\ \A q \in Runs : q # r => run'[q] = run[q]
      /\ w.stage \in {"approving", "waiting"} /\ w.plan = run[r].plan
      /\ w.stage = "approving" => w.step = run[r].step + 1
  BY <1>1, <1>3 DEF TakenAs
<1>7. Short
  BY DEF Funded, ToApprove
<1>8. \A s \in Runs : s > r => run'[s].stage = "unused"
  <2>1. \A s \in Runs : s > r => run[s].stage = "unused"
    BY <1>1, NoneLater
  <2>2. \A s \in Runs : s > r => s # r
    BY DEF Runs
  <2> QED
    BY <1>6, <2>1, <2>2
<1>9. ASSUME tx.amt # 0 PROVE LastApproval(tx)'
  <2>1. w.stage # "approving"
    <3>1. SUFFICES ASSUME w.stage = "approving" PROVE FALSE
      OBVIOUS
    <3>2. IsOf(tx, w)
      BY <1>3, <1>4 DEF TakenAs
    <3>3. w.amt \in Nat \ {0} /\ w.plan \in Plans(w.amt)
      BY <1>6, <3>1, CowAssumption DEF IsRun
    <3>4. tx.step \in 1..Len(w.plan) /\ w.plan[tx.step] # 0
      BY <1>9, <3>2 DEF IsOf
    <3>5. tx.step = Len(w.plan)
      BY <3>3, <3>4, PlanOf
    <3>6. run[r].step + 1 <= Len(w.plan)
      BY <1>6, <3>1 DEF IsRun
    <3>7. run[r].step \in 1..2
      BY <1>1, RunOf
    <3> QED
      BY <1>4, <3>5, <3>6, <3>7
  <2> QED
    BY <1>4, <1>6, <1>8, <2>1 DEF LastApproval
<1>10. ASSUME NEW t \in pool, t.amt # 0 PROVE LastApproval(t)'
  <2>1. run[t.run].stage # "approving" /\ \A q \in Runs : q > t.run => run[q].stage = "unused"
    BY <1>10 DEF Funded, LastApproval
  <2>2. t.run \in Runs /\ t.run # r
    BY <1>1, <2>1 DEF Tx
  <2>3. ~ (r > t.run)
    BY <2>1
  <2> QED
    BY <1>6, <2>1, <2>2, <2>3 DEF LastApproval
<1>11. ASSUME NEW q \in Runs, Ready(q)' PROVE allowance >= run'[q].amt
  <2>1. CASE q = r
    <3>1. run[r].told = "nothing"
      BY <1>1, RunOf DEF IsRun
    <3>2. orders[r] = "none"
      BY <1>1, <3>1 DEF Submitted, CowTyped
    <3> QED
      BY <1>2, <1>6, <1>11, <2>1, <3>2 DEF Ready
  <2>2. CASE q # r
    <3>1. Ready(q) /\ run'[q] = run[q]
      BY <1>2, <1>6, <1>11, <2>2 DEF Ready
    <3> QED
      BY <3>1 DEF Funded
  <2> QED
    BY <2>1, <2>2
<1>12. Short'
  BY <1>2, <1>7 DEF Short
<1>13. inflight' = {} /\ \A t \in pool' : t.amt # 0 => LastApproval(t)'
  BY <1>2, <1>5, <1>9, <1>10 DEF Funded
<1> QED
  BY <1>2, <1>11, <1>12, <1>13 DEF Funded

\* What is ready to be settled is a run that was started.
LEMMA ReadyIsStarted ==
    ASSUME CowTyped, Submitted, NEW r \in Runs, Ready(r)
    PROVE  run[r].stage # "unused"
<1>1. IsRun(run[r])
  BY RunOf
<1>2. orders[r] = "open" => run[r].told # "nothing"
  BY DEF Submitted
<1> QED
  BY <1>1, <1>2 DEF Ready, IsRun

\* While there is something pending, no run is ready to be settled.
LEMMA PendingIsShort ==
    ASSUME SameSwap, CowTyped, Submitted, Funded, pool # {}
    PROVE  Short /\ \A r \in Runs : ~ Ready(r)
<1>1. Short
  BY DEF Funded
<1>2. ASSUME NEW r \in Runs, Ready(r) PROVE FALSE
  <2>1. run[r].stage # "unused" /\ allowance >= run[r].amt
    BY <1>2, ReadyIsStarted DEF Funded
  <2> QED
    BY <1>1, <2>1, ShortIs
<1> QED
  BY <1>1, <1>2

\* The amount of the last run is the last that is pending.
LEMMA LastIsAlone ==
    ASSUME CowInv, Funded, NEW t \in pool, t.amt # 0, t.nonce = mined
    PROVE  /\ pool \ {t} = {}
           /\ \A r \in Runs : run[r].stage \notin {"approving", "prompt"}
<1>1. /\ CowTyped /\ OneByOne /\ Sent /\ InTurn /\ t \in Tx /\ pool \subseteq Tx
      /\ mined \in Nat
  BY DEF CowInv, CowTyped
<1>2. run[t.run].stage # "approving" /\ \A r \in Runs : r > t.run => run[r].stage = "unused"
  BY DEF Funded, LastApproval
<1>3. IsOf(t, run[t.run])
  BY <1>1 DEF Sent
<1>4. PICK q \in Runs : q = t.run
  BY <1>1 DEF Tx
<1>5. PICK last : last = Len(run[q].plan)
  OBVIOUS
<1>6. /\ t.step = last /\ last \in 1..2 /\ mined = run[q].nonce + last - 1
      /\ run[q].stage \notin {"unused", "quoting", "prompt"} /\ run[q].nonce \in Nat
  BY <1>1, <1>3, <1>4, <1>5, AmountIsLast, TxOf, RunOf
<1>7. ASSUME NEW u \in pool, u # t PROVE FALSE
  <2>1. u \in Tx /\ IsOf(u, run[u.run]) /\ u.nonce # mined /\ u.nonce >= mined
    BY <1>1, <1>7 DEF Sent
  <2>2. /\ u.run \in Runs /\ u.nonce \in Nat /\ u.step \in 1..2
        /\ u.step <= Len(run[u.run].plan)
        /\ run[u.run].stage # "unused" /\ u.nonce = run[u.run].nonce + u.step - 1
    BY <1>1, <2>1, TxOf
  <2>3. ~ (u.run > q)
    BY <1>2, <1>4, <2>2
  <2>4. CASE u.run = q
    <3>1. u.step <= last /\ u.nonce = run[q].nonce + u.step - 1
      BY <1>5, <2>2, <2>4
    <3> QED
      BY <1>1, <1>6, <2>1, <2>2, <3>1
  <2>5. CASE u.run # q
    <3>1. u.run < q
      BY <2>2, <2>3, <2>5 DEF Runs
    <3>2. u.nonce <= run[q].nonce
      BY <1>1, <1>6, <3>1 DEF InTurn
    <3> QED
      BY <1>1, <1>6, <2>1, <2>2, <3>2
  <2> QED
    BY <2>4, <2>5
<1>8. ASSUME NEW r \in Runs, run[r].stage \in {"approving", "prompt"} PROVE FALSE
  <2>1. r # q /\ ~ (r > q)
    BY <1>2, <1>4, <1>6, <1>8
  <2>2. q > r
    BY <2>1 DEF Runs
  <2>3. run[q].stage = "unused"
    BY <1>1, <1>8, <2>2, NoneLater
  <2> QED
    BY <1>6, <2>3
<1> QED
  BY <1>7, <1>8

\* What is left funded when a transaction is mined.
LEMMA MineFunds ==
    ASSUME SameSwap, CowInv, Funded, MineApproval
    PROVE  Funded'
<1>1. CowTyped /\ Submitted
  BY DEF CowInv
<1>2. PICK t, status : Mines(t, status)
  BY MineIs
<1>3. /\ t \in pool /\ t.nonce = mined /\ pool' = pool \ {t}
      /\ allowance' = t.amt \/ allowance' = allowance
      /\ UNCHANGED <<run, inflight, orders>>
  BY <1>2 DEF Mines
<1>4. Short /\ \A r \in Runs : ~ Ready(r)
  BY <1>1, <1>3, PendingIsShort
<1>5. \A r \in Runs : ~ Ready(r)'
  BY <1>3, <1>4 DEF Ready
<1>6. inflight' = {} /\ \A u \in pool' : u.amt # 0 => LastApproval(u)'
  BY <1>3 DEF Funded, LastApproval
<1>7. Short' \/ (pool' = {} /\ \A r \in Runs : ~ ToApprove(r)')
  <2>1. CASE allowance' = allowance
    BY <1>4, <2>1 DEF Short
  <2>2. CASE allowance' = t.amt /\ t.amt = 0
    <3>1. \A a \in Amounts : 0 < a
      BY CowAssumption
    <3> QED
      BY <2>2, <3>1 DEF Short
  <2>3. CASE t.amt # 0
    <3>1. pool \ {t} = {} /\ \A r \in Runs : run[r].stage \notin {"approving", "prompt"}
      BY <1>3, <2>3, LastIsAlone
    <3> QED
      BY <1>3, <3>1 DEF ToApprove
  <2> QED
    BY <1>3, <2>1, <2>2, <2>3
<1> QED
  BY <1>5, <1>6, <1>7 DEF Funded

\* What is left funded when an order is filled: no other run is ready.
LEMMA SettleFunds ==
    ASSUME SameSwap, CowInv, Funded, NEW r \in Runs, Settle(r)
    PROVE  Funded'
<1>1. /\ CowTyped /\ OneByOne /\ Submitted
      /\ orders \in [Runs -> {"none", "open", "filled"}]
  BY DEF CowInv, CowTyped
<1>2. /\ orders[r] = "open" /\ orders' = [orders EXCEPT ![r] = "filled"]
      /\ UNCHANGED <<run, pool, inflight>>
  BY DEF Settle
<1>3. Ready(r)
  BY <1>2 DEF Ready
<1>4. run[r].stage = "ended"
  BY <1>1, <1>2, RunOf DEF Submitted, IsRun
<1>5. ~ Short /\ pool = {}
  <2>1. allowance >= run[r].amt
    BY <1>3 DEF Funded
  <2>2. ~ Short
    BY <1>1, <1>4, <2>1, ShortIs
  <2> QED
    BY <2>2 DEF Funded
<1>6. \A s \in Runs : s > r => run[s].stage = "unused"
  BY <1>1, <1>2, OrderIsLast
<1>7. ASSUME NEW q \in Runs, Ready(q)' PROVE FALSE
  <2>1. Ready(q) /\ q # r
    BY <1>1, <1>2, <1>4, <1>7 DEF Ready
  <2>2. ~ (q > r)
    BY <1>1, <1>6, <2>1, ReadyIsStarted
  <2>3. r > q
    BY <2>1, <2>2 DEF Runs
  <2>4. run[r].stage = "unused"
    <3>1. CASE orders[q] = "open"
      BY <1>1, <2>3, <3>1, OrderIsLast
    <3>2. CASE run[q].stage # "ended"
      BY <1>1, <2>3, <3>2, NoneLater
    <3> QED
      BY <2>1, <3>1, <3>2 DEF Ready
  <2> QED
    BY <1>4, <2>4
<1>8. \A q \in Runs : ~ ToApprove(q)'
  BY <1>2, <1>5 DEF Funded, ToApprove
<1> QED
  BY <1>2, <1>5, <1>7, <1>8 DEF Funded

\* What is left funded when only the clock moves.
LEMMA RestFunds ==
    ASSUME Funded, UNCHANGED <<run, chain, orders>>
    PROVE  Funded'
<1>1. UNCHANGED <<run, pool, inflight, allowance, orders>>
  BY DEF chain
<1> QED
  BY <1>1 DEF Funded, LastApproval, ToApprove, Ready, Short

-----------------------------------------------------------------------------
\* A report is not forgotten: what was answered after a step was before it.
LEMMA CalmBefore ==
    ASSUME CowTyped, NEW r \in Runs, NEW w, run' = [run EXCEPT ![r] = w],
           run[r].told = "nothing", Calm'
    PROVE  Calm /\ w.told # "unknown"
<1>1. run'[r] = w /\ \A q \in Runs : q # r => run'[q] = run[q]
  BY DEF CowTyped
<1> QED
  BY <1>1 DEF Calm

\* A command that talks had no report yet.
LEMMA NothingTold ==
    ASSUME CowTyped, NEW r \in Runs, NEW w, Talk(r, w) \/ TakenAs(r, w)
    PROVE  run' = [run EXCEPT ![r] = w] /\ run[r].told = "nothing"
<1>1. GoesOnAs(run[r], w) /\ run' = [run EXCEPT ![r] = w]
  BY DEF Talk, TakenAs
<1>2. run[r].stage # "ended"
  BY <1>1 DEF GoesOnAs
<1> QED
  BY <1>1, <1>2, RunOf DEF IsRun

\* Every step of the command keeps what is funded.
LEMMA CommandFunds ==
    ASSUME SameSwap, CowInv, CalmInv, Calm', NEW r \in Runs,
           \/ Prepare(r) \/ AnswerPrompt(r) \/ PostApprove(r)
           \/ Poll(r) \/ Submit(r) \/ Kill(r)
    PROVE  Funded'
<1>1. CowTyped
  BY DEF CowInv
<1>2. ASSUME NEW w, Talk(r, w) \/ TakenAs(r, w)
      PROVE  Funded /\ w.told # "unknown"
  <2>1. run' = [run EXCEPT ![r] = w] /\ run[r].told = "nothing"
    BY <1>1, <1>2, NothingTold
  <2>2. Calm /\ w.told # "unknown"
    BY <1>1, <2>1, CalmBefore
  <2> QED
    BY <2>2 DEF CalmInv
<1>3. CASE Prepare(r) \/ AnswerPrompt(r) \/ Poll(r) \/ Kill(r)
  <2>1. UNCHANGED <<inflight, orders>> /\ \E w : Talk(r, w) /\ w.told # "unknown"
    BY <1>1, <1>3, CommandTalks
  <2>2. PICK w : Talk(r, w)
    BY <2>1
  <2>3. Funded
    BY <1>2, <2>2
  <2>4. /\ inflight' = inflight
        /\ \A q \in Runs : orders'[q] = orders[q]
               \/ (q = r /\ orders'[q] = "open" /\ allowance >= run[r].amt)
    BY <2>1
  <2> QED
    BY <2>2, <2>3, <2>4, TalkFunds
<1>4. CASE Submit(r)
  <2>1. /\ inflight' = inflight
        /\ \A q \in Runs : orders'[q] = orders[q]
               \/ (q = r /\ orders'[q] = "open" /\ allowance >= run[r].amt)
        /\ \E w : Talk(r, w) /\ w.told \in {"submitted", "submitfailed"}
    BY <1>1, <1>4, SubmitTalks
  <2>2. PICK w : Talk(r, w)
    BY <2>1
  <2>3. Funded
    BY <1>2, <2>2
  <2> QED
    BY <2>1, <2>2, <2>3, TalkFunds
<1>5. CASE PostApprove(r)
  <2>1. run[r].stage = "approving" /\ (Taken(r) \/ Failed(r))
    BY <1>1, <1>5, PostIs
  <2>2. CASE Taken(r)
    <3>1. PICK w : TakenAs(r, w)
      BY <2>2 DEF Taken
    <3>2. Funded
      BY <1>2, <3>1
    <3> QED
      BY <2>1, <2>2, <3>2, TakenFunds
  <2>3. CASE Failed(r)
    <3>1. PICK w : Talk(r, w) /\ (w.told # "unknown" => inflight' = inflight)
      BY <2>3 DEF Failed
    <3>2. Funded /\ w.told # "unknown"
      BY <1>2, <3>1
    <3>3. inflight' = inflight
      BY <3>1, <3>2
    <3>4. \A q \in Runs : orders'[q] = orders[q]
              \/ (q = r /\ orders'[q] = "open" /\ allowance >= run[r].amt)
      BY <2>3 DEF Failed
    <3> QED
      BY <3>1, <3>2, <3>3, <3>4, TalkFunds
  <2> QED
    BY <2>1, <2>2, <2>3
<1> QED
  BY <1>3, <1>4, <1>5

\* Every step keeps what is funded, while every approval is answered.
LEMMA CalmNextInv ==
    ASSUME SameSwap, CowInv, CalmInv, [CowNext]_cowVars
    PROVE  CalmInv'
<1> SUFFICES ASSUME Calm' PROVE Funded'
  BY DEF CalmInv
<1>1. ASSUME NEW r \in Runs, Start(r) PROVE Funded'
  <2>1. PICK n : n = PendingNonce
    OBVIOUS
  <2>2. PICK a \in Amounts :
            run' = [run EXCEPT ![r].stage = "quoting", ![r].amt = a, ![r].nonce = n]
    BY <1>1, <2>1 DEF Start
  <2>3. run' = [run EXCEPT ![r] = [run[r] EXCEPT !.stage = "quoting", !.amt = a, !.nonce = n]]
    BY <2>2 DEF CowInv, CowTyped
  <2>4. CowTyped /\ run[r].told = "nothing"
    BY <1>1, RunOf DEF CowInv, IsRun, Start
  <2>5. Calm
    BY <2>3, <2>4, CalmBefore
  <2> QED
    BY <1>1, <2>5, StartFunds DEF CalmInv
<1>2. ASSUME NEW r \in Runs,
             \/ Prepare(r) \/ AnswerPrompt(r) \/ PostApprove(r)
             \/ Poll(r) \/ Submit(r) \/ Kill(r)
      PROVE  Funded'
  BY <1>2, CommandFunds
<1>3. ASSUME run' = run PROVE Funded
  BY <1>3 DEF Calm, CalmInv
<1>4. ASSUME NEW r \in Runs, Settle(r) PROVE Funded'
  <2>1. Funded
    BY <1>3, <1>4 DEF Settle
  <2> QED
    BY <1>4, <2>1, SettleFunds
<1>5. CASE Deliver
  <2>1. Funded /\ inflight # {}
    BY <1>3, <1>5 DEF Deliver
  <2> QED
    BY <2>1 DEF Funded
<1>6. CASE MineApproval
  <2>1. Funded
    BY <1>3, <1>6 DEF MineApproval
  <2> QED
    BY <1>6, <2>1, MineFunds
<1>7. CASE Tick \/ UNCHANGED cowVars
  <2>1. UNCHANGED <<run, chain, orders>>
    BY <1>7 DEF Tick, cowVars
  <2> QED
    BY <1>3, <2>1, RestFunds
<1> QED
  BY <1>1, <1>2, <1>4, <1>5, <1>6, <1>7 DEF CowNext

\* At first nothing is pending and nothing is ready.
LEMMA CalmInitInv ==
    ASSUME CowInit
    PROVE  CalmInv
<1>1. /\ pool = {} /\ inflight = {}
      /\ \A r \in Runs : run[r].stage = "unused" /\ orders[r] = "none"
  BY DEF CowInit
<1> QED
  BY <1>1 DEF CalmInv, Funded, ToApprove, Ready

\* Who does not run the command again after an approval that was not answered
\* is not hurt by it.
LEMMA CarefulIsFunded ==
    ASSUME SameSwap, CowInv, CalmInv
    PROVE  OrderIsFunded
<1>1. CowTyped /\ OneByOne /\ Submitted
  BY DEF CowInv
<1> SUFFICES ASSUME Careful, NEW r \in Runs, run[r].stage = "submitting" \/ orders[r] = "open"
             PROVE  allowance >= run[r].amt
  BY DEF OrderIsFunded
<1>2. Ready(r)
  BY DEF Ready
<1>3. CASE Calm
  BY <1>2, <1>3 DEF CalmInv, Funded
<1>4. CASE ~ Calm
  <2>1. PICK u \in Runs : run[u].told = "unknown"
    BY <1>4 DEF Calm
  <2>2. run[u].stage = "ended" /\ r \in Nat /\ u \in Nat
    BY <1>1, <2>1, RunOf DEF IsRun
  <2>3. orders[r] = "open" => run[r].told \in {"submitted", "submitfailed"}
    BY <1>1 DEF Submitted
  <2>4. r # u
    BY <2>1, <2>2, <2>3
  <2>5. CASE r > u
    <3>1. PICK s \in Runs : s = u + 1
      BY <2>2, <2>5, CowAssumption DEF Runs
    <3>2. s \in Runs \ {1} /\ u = s - 1 /\ s <= r
      BY <2>2, <2>5, <3>1 DEF Runs
    <3>3. run[s].stage = "unused"
      BY <2>1, <3>2 DEF Careful
    <3>4. run[r].stage = "unused"
      <4>1. CASE r = s
        BY <3>3, <4>1
      <4>2. CASE r # s
        <5>1. r > s
          BY <2>2, <3>1, <3>2, <4>2
        <5> QED
          BY <1>1, <3>3, <5>1, NoneLater
      <4> QED
        BY <4>1, <4>2
    <3> QED
      BY <1>1, <1>2, <3>4, ReadyIsStarted
  <2>6. CASE u > r
    <3>1. r \in 1..(u - 1)
      BY <2>2, <2>6 DEF Runs
    <3>2. MayRerun(r)
      BY <1>1, <2>2, <3>1 DEF OneByOne
    <3>3. run[r].stage = "ended" /\ run[r].told \in NoOrder
      BY <3>2 DEF MayRerun, SameSwap
    <3> QED
      BY <2>3, <3>3 DEF NoOrder
  <2> QED
    BY <2>2, <2>4, <2>5, <2>6
<1> QED
  BY <1>3, <1>4

\* cli._swap_via_cow: an order that is about to be submitted or is open has its
\* approval in place, however late the approvals of earlier runs are mined.  For
\* a user who runs the command again for the same amount, never while an order
\* of his may be in the book and never after an approval that was not answered,
\* it is so.
THEOREM OrderStaysFunded ==
    ASSUME SameSwap
    PROVE  CowSpec => []OrderIsFunded
<1>1. CowInit => CalmInv
  BY CalmInitInv
<1>2. CowInv /\ CalmInv /\ [CowNext]_cowVars => CalmInv'
  BY CalmNextInv
<1>3. CowInv /\ CalmInv => OrderIsFunded
  BY CarefulIsFunded
<1>4. CowSpec => []CowInv
  BY CowInvHolds
<1> QED
  BY <1>1, <1>2, <1>3, <1>4, PTL DEF CowSpec
=============================================================================
