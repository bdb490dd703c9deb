----------------------------- MODULE TwoLegAdd ------------------------------
(***************************************************************************)
(* What a symmetric (two-sided) liquidity add promises its user: the       *)
(* protocol leg goes first, the asset leg is sent only on top of it, and    *)
(* the outcome that is reported names exactly the legs that are live.      *)
(***************************************************************************)
CONSTANT Attempts

VARIABLES
    live,     \* the legs of an attempt that a network has taken
    outcome   \* what the user was told

Outcomes == {"open", "refused", "failed", "partial", "complete"}

Init ==
    /\ live = [a \in Attempts |-> {}]
    /\ outcome = [a \in Attempts |-> "open"]

\* The attempt ends with nothing sent: refused up front, or at the first leg.
Stop(a) ==
    /\ outcome[a] = "open"
    /\ live[a] = {}
    /\ \E o \in {"refused", "failed"} : outcome' = [outcome EXCEPT ![a] = o]
    /\ UNCHANGED live

SendProtocolLeg(a) ==
    /\ outcome[a] = "open"
    /\ live[a] = {}
    /\ live' = [live EXCEPT ![a] = {"protocol"}]
    /\ UNCHANGED outcome

SendAssetLeg(a) ==
    /\ outcome[a] = "open"
    /\ live[a] = {"protocol"}
    /\ live' = [live EXCEPT ![a] = {"protocol", "asset"}]
    /\ outcome' = [outcome EXCEPT ![a] = "complete"]

\* The asset leg cannot be sent: the half-add is reported as such.
GiveUp(a) ==
    /\ outcome[a] = "open"
    /\ live[a] = {"protocol"}
    /\ outcome' = [outcome EXCEPT ![a] = "partial"]
    /\ UNCHANGED live

Next == \E a \in Attempts :
            Stop(a) \/ SendProtocolLeg(a) \/ SendAssetLeg(a) \/ GiveUp(a)

Spec == Init /\ [][Next]_<<live, outcome>>
=============================================================================
