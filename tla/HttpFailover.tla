---------------------------- MODULE HttpFailover ----------------------------
(***************************************************************************)
(* Reads through net.FailoverHttpClient: interchangeable endpoints, a pin   *)
(* on the one that answered last, and net.HttpClient._attempt's laps over   *)
(* them with backoff in between.  One client is shared by the worker        *)
(* threads of a scan, so the pin is read and written by all of them.        *)
(*                                                                         *)
(* The endpoints are the environment: a healthy one always answers, a dead  *)
(* one never does, a flaky one answers, throttles or stalls as it likes.    *)
(***************************************************************************)
EXTENDS Integers

CONSTANTS
    Threads,        \* the workers sharing the client
    N,              \* how many endpoints there are
    Retries,        \* laps after the first one
    Backoff,        \* the pause after the first lap; it doubles
    RetryAfters,    \* what an endpoint may ask for
    MaxRetryAfter,  \* ... and how much of it is granted
    MaxRequests,    \* bound: how many requests a thread makes
    Conditions      \* how an endpoint may be doing

ASSUME HttpAssumption ==
    /\ N \in Nat \ {0}
    /\ Retries \in Nat
    /\ Backoff \in Nat
    /\ RetryAfters \subseteq Nat
    /\ MaxRetryAfter \in Nat
    /\ MaxRequests \in Nat
    /\ Conditions \subseteq {"healthy", "dead", "flaky"}

VARIABLES
    condition,  \* how each endpoint is doing
    pin,        \* base_url: the endpoint the next request starts from
    req         \* the request of each thread

vars == <<condition, pin, req>>

Hosts  == 0..(N - 1)
Stages == {"idle", "asking", "sleeping", "answered", "served",
           "ratelimited", "unreachable"}

Larger(a, b)  == IF a >= b THEN a ELSE b
Smaller(a, b) == IF a <= b THEN a ELSE b

Done == {"idle", "served", "ratelimited", "unreachable"}

Init ==
    /\ condition \in [Hosts -> Conditions]
    /\ pin = 0
    /\ req = [t \in Threads |->
           [stage |-> "idle", made |-> 0, start |-> 0, lap |-> 0, pos |-> 0,
            wait |-> 0, host |-> 0, asked |-> [h \in Hosts |-> 0],
            throttled |-> FALSE, floor |-> 0]]

-----------------------------------------------------------------------------
\* candidates[start:] + candidates[:start]
Ordered(start, pos) == (start + pos) % N

\* A faulty wait: the last endpoint's Retry-After replaces the others'.
LastWord(wait, ra) == ra

\* _retry_after, capped, is a floor for the wait at the end of the lap.
WaitFor(wait, ra) == Larger(wait, Smaller(ra, MaxRetryAfter))

\* A request starts from the endpoint that is pinned just then.
Begin(t) ==
    /\ req[t].stage \in Done
    /\ req[t].made < MaxRequests
    /\ req' = [req EXCEPT ![t] =
           [stage |-> "asking", made |-> @.made + 1, start |-> pin, lap |-> 0,
            pos |-> 0, wait |-> Backoff, host |-> 0,
            asked |-> [h \in Hosts |-> 0],
            throttled |-> FALSE, floor |-> 0]]
    /\ UNCHANGED <<condition, pin>>

Here(t) == Ordered(req[t].start, req[t].pos)

\* The endpoint at hand answers; any status but a throttle is an answer.
Answer(t) ==
    /\ req[t].stage = "asking" /\ req[t].pos < N
    /\ condition[Here(t)] # "dead"
    /\ req' = [req EXCEPT ![t].stage = "answered", ![t].host = Here(t),
                          ![t].asked[Here(t)] = @ + 1]
    /\ UNCHANGED <<condition, pin>>

\* It stalls or cannot be reached: the next one is asked at once.
Stall(t) ==
    /\ req[t].stage = "asking" /\ req[t].pos < N
    /\ condition[Here(t)] # "healthy"
    /\ req' = [req EXCEPT ![t].pos = @ + 1, ![t].asked[Here(t)] = @ + 1]
    /\ UNCHANGED <<condition, pin>>

\* A faulty variant: a throttle is raised to the caller like any error status.
ThrottleRaised(t) ==
    /\ req[t].stage = "asking" /\ req[t].pos < N
    /\ condition[Here(t)] = "flaky"
    /\ req' = [req EXCEPT ![t].stage = "ratelimited"]
    /\ UNCHANGED <<condition, pin>>

\* It throttles: the next one is asked at once, the wait gets a floor.
Throttle(t) ==
    /\ req[t].stage = "asking" /\ req[t].pos < N
    /\ condition[Here(t)] = "flaky"
    /\ \E ra \in RetryAfters :
           req' = [req EXCEPT ![t] =
               [req[t] EXCEPT !.pos = @ + 1, !.asked[Here(t)] = @ + 1,
                         !.throttled = TRUE,
                         !.wait = WaitFor(@, ra), !.floor = Larger(@, ra)]]
    /\ UNCHANGED <<condition, pin>>

\* Faulty ends of a lap: one lap too few; a throttle that nobody handles.
OneLapShort(t) ==
    /\ req[t].stage = "asking" /\ req[t].pos = N
    /\ req' = [req EXCEPT ![t].stage =
                   IF req[t].lap + 1 < Retries THEN "sleeping" ELSE "unreachable"]
    /\ UNCHANGED <<condition, pin>>
ThrottleUnhandled(t) ==
    /\ req[t].stage = "asking" /\ req[t].pos = N
    /\ ~req[t].throttled
    /\ req' = [req EXCEPT ![t].stage =
                   IF req[t].lap < Retries THEN "sleeping" ELSE "unreachable"]
    /\ UNCHANGED <<condition, pin>>

\* Every endpoint failed this lap: sleep, or give up.  A throttle in any lap
\* outranks the transport failures.
EndLap(t) ==
    /\ req[t].stage = "asking" /\ req[t].pos = N
    /\ req' = [req EXCEPT ![t].stage =
                   IF req[t].lap < Retries THEN "sleeping"
                   ELSE IF req[t].throttled
                   THEN "ratelimited" ELSE "unreachable"]
    /\ UNCHANGED <<condition, pin>>

\* The next lap; its own wait starts from the doubled backoff.
Wake(t) ==
    /\ req[t].stage = "sleeping"
    /\ req' = [req EXCEPT ![t].stage = "asking", ![t].lap = @ + 1, ![t].pos = 0,
                          ![t].wait = Backoff * 2 ^ (req[t].lap + 1),
                          ![t].floor = 0]
    /\ UNCHANGED <<condition, pin>>

\* A faulty pin: the place in the rotation taken for the endpoint.
PinsThePlace(t) ==
    /\ req[t].stage = "answered"
    /\ pin' = req[t].pos
    /\ req' = [req EXCEPT ![t].stage = "served"]
    /\ UNCHANGED condition

\* The endpoint that answered is pinned, whatever other threads pinned since.
Pin(t) ==
    /\ req[t].stage = "answered"
    /\ pin' = req[t].host
    /\ req' = [req EXCEPT ![t].stage = "served"]
    /\ UNCHANGED condition

Step(t) == Answer(t) \/ Stall(t) \/ Throttle(t) \/ EndLap(t) \/ Wake(t) \/ Pin(t)

Next == \E t \in Threads : Begin(t) \/ Step(t)

Spec     == Init /\ [][Next]_vars
\* A thread keeps running, and every ask comes back: requests have a timeout.
FairSpec == Spec /\ \A t \in Threads : WF_vars(Step(t))

-----------------------------------------------------------------------------
\* A request that gives up has asked every endpoint the same number of times,
\* once a lap, wherever the pin made it start (_attempt's "retries + 1 laps").
AskedEvenly ==
    \A t \in Threads :
        req[t].stage \in {"ratelimited", "unreachable"} =>
            \A h \in Hosts : req[t].asked[h] = Retries + 1

\* As long as one endpoint answers, no read fails, whatever the other endpoints
\* do and wherever other threads leave the pin.
OneHealthyIsEnough ==
    (\E h \in Hosts : condition[h] = "healthy") =>
        \A t \in Threads : req[t].stage \notin {"ratelimited", "unreachable"}

\* "A 60-call scan does not re-probe a dead host every time": whichever threads
\* race for the pin, it never moves to an endpoint that never answers.
DeadHostLeftBehind == [][pin' # pin => condition[pin'] # "dead"]_vars

\* A lap never ends with a shorter pause than any endpoint asked for in it, up
\* to the cap, nor with a longer one than the backoff or the cap.
PauseIsGranted ==
    \A t \in Threads : req[t].stage = "sleeping" =>
        /\ req[t].wait >= Smaller(req[t].floor, MaxRetryAfter)
        /\ req[t].wait >= Backoff * 2 ^ req[t].lap
        /\ req[t].wait <= Larger(MaxRetryAfter, Backoff * 2 ^ req[t].lap)

\* Every read ends: served, or given up with a reason.
ReadEnds == \A t \in Threads : req[t].stage = "asking" ~> req[t].stage \in Done
=============================================================================
