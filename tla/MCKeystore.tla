----------------------------- MODULE MCKeystore -----------------------------
(* Three runs of the program that may overlap, and two labels. *)
EXTENDS Keystore, TLC

CONSTANTS spending, savings

Old(pass) == [label |-> spending, by |-> "before", pass |-> pass]

\* None, an empty one, and one entry with and without a passphrase.
MCFiles ==
    {Missing, [version |-> 2, entries |-> {}, whole |-> TRUE]}
    \cup {[version |-> v, entries |-> {Old(p)}, whole |-> TRUE]
            : v \in {1, 2}, p \in BOOLEAN}

Symmetric == Permutations(Runs)
=============================================================================
