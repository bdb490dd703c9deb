------------------------------ MODULE UtxoSpend -----------------------------
(***************************************************************************)
(* How a command on a UTXO chain collects what it may spend and spends it:  *)
(* cli._spendable_utxos scans the account, then reads the outputs of the    *)
(* addresses that held money when they were probed; select_coins takes some *)
(* of them; the transaction is gated, confirmed, signed and broadcast.      *)
(*                                                                         *)
(* Everything read is read at a different moment while outputs arrive, are  *)
(* mined or evicted, and are spent by other wallets of the same seed.       *)
(* Amounts and the choice of inputs are CoinSelection's; here any choice    *)
(* from what was offered can be the one made.                               *)
(***************************************************************************)
EXTENDS AddressScan

CONSTANTS
    Outs,    \* the outputs that may ever pay this wallet
    AddrOf,  \* [Outs -> Addresses]
    Worth,   \* [Outs -> Nat]
    Chains,  \* "mempool": BTC and DASH explorers; "mined": ZEC's index
    MaxMoves \* the changes of the chain explored during one command

ASSUME SpendAssumption ==
    /\ IsFiniteSet(Outs)
    /\ AddrOf \in [Outs -> Addresses]
    /\ Worth \in [Outs -> Nat \ {0}]
    /\ Chains \subseteq {"mempool", "mined"} /\ MaxMoves \in Nat

VARIABLES
    chain,    \* the source of this chain's data
    allow,    \* --allow-unconfirmed, where it has an effect
    status,   \* where each output is in its life
    stage,    \* where the command is
    unread,   \* the addresses whose outputs are still to be read
    offered,  \* the outputs read as spendable
    chosen,   \* the inputs of the transaction
    steady,   \* (history) mined before the command began and untouched since
    usedThen, \* (history) the addresses mined history had touched by then
    moves     \* (history) how often the chain has changed since

history   == <<steady, usedThen, moves>>
progress  == <<stage, unread, offered, chosen>>
spendVars == <<chain, allow, status, info, progress, history, scanVars>>

Statuses == {"none",     \* not seen, or evicted
             "pool",     \* created by a mempool transaction
             "mined",    \* mined and unspent
             "leaving",  \* mined, a mempool transaction spends it
             "spent"}

Mined == {"mined", "leaving", "spent"}
At(a) == {o \in Outs : AddrOf[o] = a}
WorthOf(S) == MapThenSumSet(LAMBDA o : Worth[o], S)

\* parse_address_info, and its ZEC counterpart, which has no mempool.
InfoWith(life, a) ==
    LET have(S) == {o \in At(a) : life[o] \in S}
        seen    == IF chain = "mined" THEN Mined ELSE Statuses \ {"none"}
    IN  [used      |-> have(seen) # {},
         confirmed |-> WorthOf(have({"mined", "leaving"})),
         pending   |-> IF chain = "mined" THEN 0
                       ELSE WorthOf(have({"pool"})) - WorthOf(have({"leaving"}))]

InfoIsCurrent == info = [a \in Addresses |-> InfoWith(status, a)]

SpendInit ==
    /\ ScanInit
    /\ chain \in Chains
    /\ allow \in IF chain = "mined" THEN {FALSE} ELSE BOOLEAN
    /\ status \in [Outs -> {"none", "pool", "mined", "spent"}]
    /\ InfoIsCurrent
    /\ stage = "scan"
    /\ unread = {} /\ offered = {} /\ chosen = {}
    /\ moves = 0
    /\ steady = {o \in Outs : status[o] = "mined"}
    /\ usedThen = {AddrOf[o] : o \in {p \in Outs : status[p] \in Mined}}

-----------------------------------------------------------------------------
\* The scan, probe by probe.
Scan ==
    /\ stage = "scan" /\ Scanning
    /\ ScanStep
    /\ UNCHANGED <<info, chain, allow, status, stage, unread, offered, chosen,
                   history>>

\* Faulty: opting in to mempool money looks at that money only.
OnlyPending(a) == IF allow THEN found[a].pending > 0 ELSE found[a].confirmed > 0

\* An address is read if its probe saw money the command may spend.
WorthReading(a) == found[a].confirmed > 0 \/ (allow /\ found[a].pending > 0)

ScanDone ==
    /\ stage = "scan" /\ ~ Scanning
    /\ unread' = {a \in DOMAIN found : WorthReading(a)}
    /\ stage' = "read"
    /\ UNCHANGED <<info, chain, allow, status, offered, chosen, scanVars, history>>

\* fetch_utxos: an explorer leaves out what a mempool transaction spends; the
\* ZEC index holds mined outputs only and keeps those.
Spendable(o) ==
    \/ status[o] = "mined"
    \/ status[o] = "pool" /\ allow
    \/ status[o] = "leaving" /\ chain = "mined"

Read(a) ==
    /\ stage = "read" /\ a \in unread
    /\ offered' = offered \cup {o \in At(a) : Spendable(o)}
    /\ unread' = unread \ {a}
    /\ UNCHANGED <<info, chain, allow, status, stage, chosen, scanVars, history>>

ReadDone ==
    /\ stage = "read" /\ unread = {}
    /\ stage' = IF offered = {} THEN "nothing" ELSE "select"
    /\ UNCHANGED <<info, chain, allow, status, unread, offered, chosen,
                   scanVars, history>>

\* select_coins or a sweep, the gate, and the prompt.
Select ==
    /\ stage = "select"
    /\ chosen' \in SUBSET offered \ {{}}
    /\ stage' = "gated"
    /\ UNCHANGED <<info, chain, allow, status, unread, offered, scanVars, history>>

Decline ==
    /\ stage = "gated"
    /\ stage' = "declined"
    /\ UNCHANGED <<info, chain, allow, status, unread, offered, chosen,
                   scanVars, history>>

\* The node takes a transaction whose inputs are there and free.  Where an
\* input is already being spent it may still take it as a replacement of the
\* other transaction (mempools with replacement), or refuse it.
Broadcast ==
    /\ stage = "gated"
    /\ LET there == \A o \in chosen : status[o] \in {"mined", "pool", "leaving"}
           free  == \A o \in chosen : status[o] # "leaving"
       IN  \/ /\ there /\ (free \/ chain = "mempool")
              /\ stage' = "posted"
              /\ status' = [o \in Outs |-> IF o \in chosen THEN "leaving"
                                           ELSE status[o]]
              /\ info' = [a \in Addresses |-> InfoWith(status', a)]
              /\ steady' = steady \ chosen
           \/ /\ ~ (there /\ free)
              /\ stage' = "rejected"
              /\ UNCHANGED <<info, status, steady>>
    /\ UNCHANGED <<chain, allow, unread, offered, chosen, scanVars, usedThen,
                   moves>>

\* The command's own steps.
SpendStep == \/ Scan \/ ScanDone \/ ReadDone
             \/ \E a \in Addresses : Read(a)
             \/ Select \/ Decline \/ Broadcast

-----------------------------------------------------------------------------
\* The chain: an output arrives, is mined or evicted; another wallet of the
\* seed spends it, and that spend is mined or evicted.
Life == {<<"none", "pool">>, <<"pool", "mined">>, <<"pool", "none">>,
         <<"mined", "leaving">>, <<"leaving", "spent">>, <<"leaving", "mined">>}

Move(o) ==
    /\ stage \in {"scan", "read", "select", "gated"}
    /\ \E s \in Statuses :
          /\ <<status[o], s>> \in Life
          /\ status' = [status EXCEPT ![o] = s]
    /\ info' = [a \in Addresses |-> InfoWith(status', a)]
    /\ moves < MaxMoves /\ moves' = moves + 1
    /\ steady' = steady \ {o}
    /\ UNCHANGED <<chain, allow, progress, scanVars, usedThen>>

SpendNext == SpendStep \/ \E o \in Outs : Move(o)

-----------------------------------------------------------------------------
\* Whatever happens during the scan, an address whose history was mined before
\* it began is found, unless more than the gap limit lies below it: neither
\* the window borders, nor the workers' order, nor an address that was used
\* and emptied hides it (scan_account).
UsedIsFound ==
    stage \in {"read", "select", "gated"} => WithinGap(usedThen) \subseteq DOMAIN found

\* An output that was mined before the command began and is untouched since is
\* offered for spending, even if the balance that decides whether its address
\* is read was taken while other money was moving through that address
\* (_spendable_utxos reads twice).
OwnMoneyIsOffered ==
    stage \in {"select", "gated", "nothing"} =>
        {o \in steady : AddrOf[o] \in WithinGap(usedThen)} \subseteq offered
=============================================================================
