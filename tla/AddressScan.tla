----------------------------- MODULE AddressScan ----------------------------
(***************************************************************************)
(* The gap-limit scan of one account (chains/scan.scan_account): branch by  *)
(* branch, a window of addresses is probed by a few workers at once, and    *)
(* the branch ends when, at the end of a window, GapLimit or more addresses *)
(* in a row had no history.                                                 *)
(*                                                                         *)
(* The chain moves while it is being scanned: info is what an explorer      *)
(* would answer now, and each probe reads it at a moment of its own.        *)
(***************************************************************************)
EXTENDS Integers, FiniteSets, FiniteSetsExt, Functions

CONSTANTS
    Branches,   \* receive and change: 0..Branches - 1
    LastIndex,  \* no address beyond it is ever used
    Window, Workers, GapLimit

ASSUME ScanAssumption ==
    /\ Branches \in Nat \ {0} /\ LastIndex \in Nat
    /\ Window \in Nat \ {0} /\ Workers \in Nat \ {0} /\ GapLimit \in Nat \ {0}

VARIABLES
    info,    \* [Addresses -> what address_info would return now]
    branch, base, gap,
    probes,  \* the answers of this window so far, by position
    found    \* the used addresses met, with what the probe returned

Addresses == (0..Branches - 1) \X (0..LastIndex)
place     == <<branch, base, gap>>
scanVars  == <<place, probes, found>>

\* What an explorer says of an address nobody has used.
Fresh == [used |-> FALSE, confirmed |-> 0, pending |-> 0]
InfoOf(a) == IF a \in Addresses THEN info[a] ELSE Fresh

Scanning == branch < Branches

ScanInit ==
    /\ branch = 0 /\ base = 0 /\ gap = 0
    /\ probes = <<>> /\ found = <<>>

\* A worker asks about the k-th address of the window; the pool starts them in
\* order and keeps at most Workers of them out.
Probe(k) ==
    /\ Scanning
    /\ k \in (0..Window - 1) \ DOMAIN probes
    /\ Cardinality((0..k - 1) \ DOMAIN probes) < Workers
    /\ probes' = [i \in DOMAIN probes \cup {k} |->
                    IF i = k THEN InfoOf(<<branch, base + k>>) ELSE probes[i]]
    /\ UNCHANGED <<place, found>>

\* The positions of the window whose address has history.
IsHit(k) == probes[k].used
Hits == {k \in DOMAIN probes : IsHit(k)}

\* Faulty: a hit does not start the gap anew.
NeverReset == gap + Window - Cardinality(Hits)

\* The gap after the window: the unused addresses since the last hit.
GapAfter == IF Hits = {} THEN gap + Window ELSE Window - 1 - Max(Hits)

\* The window is complete: its hits are kept, and the loop's condition decides
\* between the next window and the next branch.
CloseWindow ==
    /\ Scanning
    /\ DOMAIN probes = 0..Window - 1
    /\ LET hit == {<<branch, base + k>> : k \in Hits}
       IN  found' = [a \in DOMAIN found \cup hit |->
                       IF a \in hit THEN probes[a[2] - base] ELSE found[a]]
    /\ IF GapAfter < GapLimit
       THEN branch' = branch /\ base' = base + Window /\ gap' = GapAfter
       ELSE branch' = branch + 1 /\ base' = 0 /\ gap' = 0
    /\ probes' = <<>>

ScanStep == CloseWindow \/ \E k \in 0..Window - 1 : Probe(k)

\* What the gap limit promises of a set of used addresses: those with fewer
\* than GapLimit unused ones in a row below them on their branch.
WithinGap(used) ==
    {a \in used :
        \A j \in 0..a[2] - GapLimit :
            \E i \in j..j + GapLimit - 1 : <<a[1], i>> \in used}
=============================================================================
