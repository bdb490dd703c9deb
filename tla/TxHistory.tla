------------------------------ MODULE TxHistory -----------------------------
(***************************************************************************)
(* The history and utxos listings: chains.history.wallet_history walks the  *)
(* pages of every used address, each on a worker of its own, and infers     *)
(* from what came back which outputs are spent.  collect_pages is the one   *)
(* walk; BtcAdapter.address_txs continues it from a txid, DashAdapter       *)
(* .address_txs from a position under a total that must not move.           *)
(*                                                                         *)
(* The explorer and its chain are the environment: transactions arrive in   *)
(* the mempool, are mined or evicted while the pages are read, and a page   *)
(* lists the mempool before the blocks, newest first.  All endpoints of an  *)
(* explorer have the same view, and no block is undone.                     *)
(***************************************************************************)
EXTENDS Naturals, FiniteSets, Sequences, SequencesExt

CONSTANTS
    Addresses,  \* the used addresses a scan has found
    Txs,        \* every transaction that may come to touch them
    Pays,       \* [Txs -> SUBSET Addresses]
    Spends,     \* [Txs -> SUBSET (Txs \X Addresses)]: the outputs it spends
    Mined,      \* the mined transactions at the start, newest first
    Explorers,  \* the explorers that may be asked, each of them
                \*   paging by "txid", "offset" or "page",
                \*   dropping some transactions of its mempool,
                \*   stubborn: may answer any page with the first one,
                \*   served by some number of hosts
    PageSize,   \* transactions per page
    Limit,      \* DEFAULT_TX_LIMIT
    Attempts    \* INSIGHT_WALK_ATTEMPTS

ASSUME HistoryAssumption ==
    /\ Pays \in [Txs -> SUBSET Addresses]
    /\ Spends \in [Txs -> SUBSET (Txs \X Addresses)]
    /\ Mined \in Seq(Txs) /\ IsInjective(Mined)
    /\ Explorers \subseteq [paging: {"txid", "offset", "page"},
                           drops: SUBSET Txs, stubborn: BOOLEAN,
                           hosts: Nat \ {0}]
    /\ PageSize \in Nat \ {0} /\ Limit \in Nat \ {0}
    /\ Attempts \in Nat \ {0}

VARIABLES
    explorer, \* the explorer that is asked
    mempool,  \* unmined transactions, newest first
    blocks,   \* mined transactions, newest first
    walk,     \* the walk of each address
    known     \* what touched the address when its walk began, and is still there

world       == <<mempool, blocks>>
historyVars == <<explorer, world, walk, known>>

\* A cursor or a total that may be missing: an empty sequence.
None == << >>

Fresh == [stage |-> "idle", cursor |-> None, total |-> None, got |-> << >>,
          truncated |-> FALSE, attempt |-> 1, host |-> 1]

HistoryInit ==
    /\ explorer \in Explorers
    /\ mempool = << >>
    /\ blocks = Mined
    /\ walk = [a \in Addresses |-> Fresh]
    /\ known = [a \in Addresses |-> {}]

-----------------------------------------------------------------------------
\* The chain.
Present == ToSet(mempool) \cup ToSet(blocks)
Touches(t) == Pays[t] \cup {o[2] : o \in Spends[t]}
Touching   == [a \in Addresses |-> {t \in Txs : a \in Touches(t)}]
\* The transactions of a list that are in a set, in the list's order.
Only(txs, set) ==
    LET only[n \in 0..Len(txs)] ==
            IF n = 0 THEN << >>
            ELSE IF txs[n] \in set THEN Append(only[n - 1], txs[n])
            ELSE only[n - 1]
    IN  only[Len(txs)]
Of(a, txs)      == Only(txs, Touching[a])
Without(t, txs) == Only(txs, Txs \ {t})

\* A transaction whose inputs exist, unspent, reaches the mempool.
Arrive(t) ==
    /\ t \notin Present
    /\ \A o \in Spends[t] : o[1] \in Present
    /\ \A u \in Present : Spends[u] \cap Spends[t] = {}
    /\ mempool' = <<t>> \o mempool
    /\ UNCHANGED <<explorer, blocks, walk, known>>

Mine(t) ==
    /\ t \in ToSet(mempool)
    /\ \A o \in Spends[t] : o[1] \in ToSet(blocks)
    /\ mempool' = Without(t, mempool)
    /\ blocks' = <<t>> \o blocks
    /\ UNCHANGED <<explorer, walk, known>>

Evict(t) ==
    /\ t \in ToSet(mempool) \cap explorer.drops
    /\ \A u \in ToSet(mempool) : \A o \in Spends[u] : o[1] # t
    /\ mempool' = Without(t, mempool)
    /\ known' = [a \in Addresses |-> known[a] \ {t}]
    /\ UNCHANGED <<explorer, blocks, walk>>

-----------------------------------------------------------------------------
\* A window of a list, from a position on.
Window(txs, from) ==
    SubSeq(txs, from + 1, IF from + PageSize <= Len(txs) THEN from + PageSize ELSE Len(txs))

\* The cursor after an Esplora page: its last mined transaction.
CursorOf(page, mined) ==
    LET there == Only(page, ToSet(mined))
    IN  IF there = << >> THEN None ELSE <<Last(there)>>

\* Esplora: the mempool and the first mined ones, then the mined ones after a
\* txid (an unknown one: the first page again).
TxidPage(a, cursor) ==
    LET mined == Of(a, blocks)
        at    == {i \in DOMAIN mined : <<mined[i]>> = cursor}
        page  == IF at = {} THEN Of(a, mempool) \o Window(mined, 0)
                 ELSE Window(mined, CHOOSE i \in at : TRUE)
    IN  [txs |-> page, next |-> CursorOf(page, mined), total |-> None]

\* Insight: by offset, with totalItems.
OffsetPage(a, cursor) ==
    LET all  == Of(a, mempool) \o Of(a, blocks)
        from == IF cursor = None THEN 0 ELSE cursor[1]
        page == Window(all, from)
    IN  [txs |-> page, next |-> <<from + Len(page)>>, total |-> <<Len(all), 0>>]

\* Blockbook: by page (here its position), with txs and unconfirmedTxs.
NumberedPage(a, cursor) ==
    LET all  == Of(a, mempool) \o Of(a, blocks)
        from == IF cursor = None THEN 0 ELSE cursor[1]
    IN  [txs   |-> Window(all, from),
         next  |-> IF from + PageSize < Len(all) THEN <<from + PageSize>> ELSE None,
         total |-> <<Len(Of(a, blocks)), Len(Of(a, mempool))>>]

PageAt(a, cursor) ==
    CASE explorer.paging = "txid"   -> TxidPage(a, cursor)
      [] explorer.paging = "offset" -> OffsetPage(a, cursor)
      [] explorer.paging = "page"   -> NumberedPage(a, cursor)

\* A faulty walk never compares totals.
NeverRaced(w, page) == FALSE

\* The list moved under the walk: its total is not the first page's.
Raced(w, page) == w.total # None /\ page.total # w.total

MayRestart(w) == w.attempt < Attempts

\* What collect_pages returns; the walk's own variables are gone.
Returned(got, truncated) ==
    [Fresh EXCEPT !.stage = "done", !.got = got, !.truncated = truncated]

Restarted(w) == [w EXCEPT !.cursor = None, !.total = None, !.got = << >>]

\* Faulty ends of a page: the limit passed off as the end; the same page taken
\* for more.
LimitIsTheEnd(w, page) ==
    LET new == Only(page.txs, Txs \ ToSet(w.got))
        all == w.got \o new
    IN  IF Len(all) >= Limit
        THEN Returned(SubSeq(all, 1, Limit), FALSE)
        ELSE IF page.next = None \/ new = << >>
        THEN Returned(all, FALSE)
        ELSE [w EXCEPT !.got = all, !.cursor = page.next,
                       !.total = IF w.total = None THEN page.total ELSE @]
TakesRepeats(w, page) ==
    LET new == Only(page.txs, Txs \ ToSet(w.got))
        all == w.got \o new
    IN  IF Len(all) >= Limit
        THEN Returned(SubSeq(all, 1, Limit), TRUE)
        ELSE IF page.next = None
        THEN Returned(all, FALSE)
        ELSE [w EXCEPT !.got = all, !.cursor = page.next,
                       !.total = IF w.total = None THEN page.total ELSE @]

\* collect_pages' turn: what is new, the limit, and the two ends of the walk.
Turned(w, page) ==
    LET new == Only(page.txs, Txs \ ToSet(w.got))
        all == w.got \o new
    IN  IF Len(all) >= Limit
        THEN Returned(SubSeq(all, 1, Limit), TRUE)
        ELSE IF page.next = None \/ new = << >>
        THEN Returned(all, FALSE)
        ELSE [w EXCEPT !.got = all, !.cursor = page.next,
                       !.total = IF w.total = None THEN page.total ELSE @]

\* A worker takes an address.
BeginWalk(a) ==
    /\ walk[a].stage = "idle"
    /\ walk' = [walk EXCEPT ![a].stage = "walking"]
    /\ known' = [known EXCEPT ![a] = Present \cap Touching[a]]
    /\ UNCHANGED <<explorer, world>>

\* Where the page that comes back starts.
Answered(cursor) == {cursor} \cup (IF explorer.stubborn THEN {None} ELSE {})

\* One page is answered: a moved list starts the walk over, or ends it
\* truncated at the last attempt.
FetchPage(a) ==
    LET w == walk[a] IN
    /\ w.stage = "walking"
    /\ \E page \in {PageAt(a, at) : at \in Answered(w.cursor)} :
           walk' = [walk EXCEPT ![a] =
               IF ~Raced(w, page) THEN Turned(w, page)
               ELSE IF MayRestart(w)
               THEN [Restarted(w) EXCEPT !.attempt = @ + 1]
               ELSE Returned(w.got, TRUE)]
    /\ UNCHANGED <<explorer, world, known>>

\* Every endpoint throttles (RateLimited): the walk ends, truncated.
Throttled(a) ==
    /\ walk[a].stage = "walking"
    /\ walk' = [walk EXCEPT ![a] = Returned(@.got, TRUE)]
    /\ UNCHANGED <<explorer, world, known>>

\* No answer: a position-paged walk starts over on the next endpoint; when
\* there is none, or the client has tried them all itself, the listing fails.
Unreachable(a) ==
    LET w == walk[a] IN
    /\ w.stage = "walking"
    /\ walk' = [walk EXCEPT ![a] =
           IF explorer.paging # "txid" /\ w.host < explorer.hosts
           THEN [Restarted(w) EXCEPT !.host = @ + 1, !.attempt = 1]
           ELSE [Fresh EXCEPT !.stage = "failed"]]
    /\ UNCHANGED <<explorer, world, known>>

HistoryNext ==
    \/ \E t \in Txs : Arrive(t) \/ Mine(t) \/ Evict(t)
    \/ \E a \in Addresses :
           BeginWalk(a) \/ FetchPage(a) \/ Throttled(a) \/ Unreachable(a)

HistorySpec     == HistoryInit /\ [][HistoryNext]_historyVars
\* A worker keeps asking, and every request comes back (net.HttpClient).
FairHistorySpec == HistorySpec /\ \A a \in Addresses : WF_historyVars(FetchPage(a))

-----------------------------------------------------------------------------
\* wallet_history: the outputs of everything that was fetched, and the spends
\* that can be inferred from it.
Listed       == UNION {ToSet(walk[a].got) : a \in Addresses}
Outputs      == {o \in Txs \X Addresses : o[1] \in Listed /\ o[2] \in Pays[o[1]]}
SeenSpent(o) == \E t \in Listed : o \in Spends[t]
Assembled    == \A a \in Addresses : walk[a].stage = "done"

\* A walk that does not call itself truncated has every transaction that was
\* there when it began (and still is), however the list moved under it.
CompleteOrSaidSo ==
    ~explorer.stubborn =>
        \A a \in Addresses :
            walk[a].stage = "done" /\ ~walk[a].truncated
                => known[a] \subseteq ToSet(walk[a].got)

\* Money reported as unspent, on an address the listing vouches for, was not
\* already spent when the listing began.
UnspentIsTrue ==
    Assembled /\ ~explorer.stubborn =>
        \A o \in Outputs :
            ~SeenSpent(o) /\ ~walk[o[2]].truncated
                => \A t \in known[o[2]] : o \notin Spends[t]

\* A walk ends although the explorer "keeps replying with the same page".
WalkEnds ==
    \A a \in Addresses : walk[a].stage = "walking" ~> walk[a].stage \in {"done", "failed"}
=============================================================================
