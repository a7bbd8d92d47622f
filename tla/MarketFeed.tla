------------------------------ MODULE MarketFeed ------------------------------
(***************************************************************************)
(* PolymarketWatcher (watcher.py) with the fetches it and the tree refresh *)
(* make, the snapshots it writes and the retention job that deletes them   *)
(* (retention.py).  Events open and close at Gamma and the user changes    *)
(* the filters at any time.                                                *)
(*                                                                          *)
(* The snapshots of a token are represented by the newest one.  What goes  *)
(* to the bus and the lengths of the backoff are left out.                 *)
(***************************************************************************)
EXTENDS Catalog

CONSTANTS
    Quotes,      \* pairs of best bid and best ask
    Quoted,      \* bound: the tokens that messages are about
    MaxChanges,  \* bound on openings, closings and selections
    MaxFaults,   \* bound on failed fetches and writes and on restarts
    NoQuote

ASSUME FeedAssumption == Quoted \subseteq Tokens

VARIABLES
    open,        \* the events Gamma calls active and not closed
    filters,     \* market_filters
    tree,        \* the events of polymarket_tree_cache
    fetch,       \* each fetcher's loop over the pages
    watcher,     \* where _cycle is
    check,       \* where _periodic_resubscribe_check is
    index,       \* _token_index
    tokenRows,   \* polymarket_tokens
    last,        \* _last_persisted
    heard,       \* ghost: token -> last price heard since the start
    emitting,    \* the snapshot that _emit is writing, if any
    snapshots,   \* token -> newest odds_snapshots row, a set of at most one
    excused,     \* ghost: tokens whose newest price was lost or purged
    unlisted,    \* ghost: tokens whose upsert failed
    changes, faults
watching == <<watcher, check, index, tokenRows>>
pricing  == <<last, heard, emitting, snapshots, excused>>
vars == <<open, filters, tree, fetch, watching, pricing, unlisted, changes, faults>>

Fetchers == {"watcher", "check", "tree"}
NoFetch  == [busy |-> FALSE, sel |-> {}, page |-> 0, got |-> <<>>, done |-> FALSE]
Snapshot == [token : Tokens, quote : Quotes, old : BOOLEAN]

TypeOK ==
    /\ open \in SUBSET Events /\ tree \in SUBSET Events /\ filters \in SUBSET Offers
    /\ fetch \in [Fetchers -> [busy : BOOLEAN, sel : SUBSET Offers, page : 0 .. MaxPages,
                               got : Seq(Events), done : BOOLEAN]]
    /\ watcher \in {"resolve", "persist", "idle", "connect", "stream", "backoff"}
    /\ check \in {"off", "sleep", "fetch", "closing", "dead"}
    /\ (check = "off") = (watcher # "stream")
    /\ index \in SUBSET Tokens /\ Cardinality(index) <= MaxTokens
    /\ tokenRows \in SUBSET Tokens /\ unlisted \in SUBSET Tokens /\ excused \in SUBSET Tokens
    /\ last \in [Tokens -> Quotes \cup {NoQuote}] /\ heard \in [Tokens -> Quotes \cup {NoQuote}]
    /\ emitting \in SUBSET Snapshot /\ Cardinality(emitting) <= 1
    /\ \A t \in Tokens : \/ snapshots[t] = {}
                         \/ \E r \in Snapshot : r.token = t /\ snapshots[t] = {r}

Init ==
    /\ open \in SUBSET Events /\ tree = open
    /\ filters \in SUBSET UNION {OffersOf[e] : e \in tree} /\ Cardinality(filters) <= 1
    /\ fetch = [f \in Fetchers |-> NoFetch]
    /\ watcher = "resolve" /\ check = "off" /\ index = {} /\ tokenRows = {}
    /\ last = [t \in Tokens |-> NoQuote] /\ heard = last /\ emitting = {}
    /\ snapshots = [t \in Tokens |-> {}]
    /\ excused = {} /\ unlisted = {} /\ changes = 0 /\ faults = 0

Fault == faults < MaxFaults /\ faults' = faults + 1

-----------------------------------------------------------------------------
(* fetch_sports_events, one page per await *)

Fetching(f, sel) == [NoFetch EXCEPT !.busy = TRUE, !.sel = sel]

FetchPage(f) ==
    /\ fetch[f].busy /\ ~fetch[f].done
    /\ LET batch == Page(open, fetch[f].page)
       IN  fetch' = [fetch EXCEPT ![f].got = @ \o batch, ![f].page = @ + 1,
                                  ![f].done = IsLastPage(batch, fetch[f].page)]
    /\ UNCHANGED <<open, filters, tree, watching, pricing, unlisted, changes, faults>>

Fetched(f)    == fetch[f].done
FetchEnds(f)  == fetch' = [fetch EXCEPT ![f] = NoFetch]
Plan(f)       == ToSet(Resolve(fetch[f].got, fetch[f].sel))

\* resolve_subscriptions: without filters nothing is fetched
ResolveStart(f) ==
    /\ ~fetch[f].busy
    /\ fetch' = [fetch EXCEPT ![f] = [Fetching(f, filters) EXCEPT !.done = filters = {}]]

-----------------------------------------------------------------------------
(* PolymarketWatcher._cycle and run *)

CycleStart ==
    /\ watcher = "resolve"
    /\ ResolveStart("watcher")
    /\ UNCHANGED <<open, filters, tree, watching, pricing, unlisted, changes, faults>>

CycleResolvedUnlisted ==                  \* mutant: the tokens are not made known
    /\ Fetched("watcher") /\ FetchEnds("watcher")
    /\ index' = Plan("watcher")
    /\ watcher' = IF index' = {} THEN "idle" ELSE "connect"
    /\ UNCHANGED <<open, filters, tree, check, tokenRows, pricing, unlisted, changes, faults>>

CycleResolved ==
    /\ Fetched("watcher") /\ FetchEnds("watcher")
    /\ index' = Plan("watcher")
    /\ watcher' = IF index' = {} THEN "idle" ELSE "persist"
    /\ UNCHANGED <<open, filters, tree, check, tokenRows, pricing, unlisted, changes, faults>>

\* Gamma fails: the exception reaches run(), which backs off.
CycleFails ==
    /\ fetch["watcher"].busy /\ ~Fetched("watcher") /\ FetchEnds("watcher")
    /\ watcher' = "backoff" /\ Fault
    /\ UNCHANGED <<open, filters, tree, check, index, tokenRows, pricing, unlisted, changes>>

PersistIndex ==
    /\ watcher = "persist" /\ watcher' = "connect"
    /\ tokenRows' = tokenRows \cup index /\ unlisted' = unlisted \ index
    /\ UNCHANGED <<open, filters, tree, fetch, check, index, pricing, changes, faults>>

\* "Failed to persist token index" is logged and the cycle goes on.
PersistIndexFails ==
    /\ watcher = "persist" /\ watcher' = "connect" /\ Fault
    /\ unlisted' = unlisted \cup (index \ tokenRows)
    /\ UNCHANGED <<open, filters, tree, fetch, check, index, tokenRows, pricing, changes>>

Connect ==
    /\ watcher = "connect" /\ watcher' = "stream" /\ check' = "sleep"
    /\ UNCHANGED <<open, filters, tree, fetch, index, tokenRows, pricing, unlisted, changes, faults>>

ConnectFails ==
    /\ watcher = "connect" /\ watcher' = "backoff"
    /\ UNCHANGED <<open, filters, tree, fetch, check, index, tokenRows, pricing, unlisted, changes, faults>>

StreamEndsUncancelled ==                  \* mutant: the finally block is forgotten
    /\ watcher = "stream" /\ emitting = {}
    /\ watcher' = "backoff"
    /\ UNCHANGED <<open, filters, tree, fetch, check, index, tokenRows, pricing, unlisted, changes, faults>>

\* The stream has ended, lost or closed by the check task, which is cancelled and
\* its fetch with it.  The message being handled is handled to its end.
StreamEnds ==
    /\ watcher = "stream" /\ emitting = {}
    /\ watcher' = "backoff" /\ check' = "off" /\ FetchEnds("check")
    /\ UNCHANGED <<open, filters, tree, index, tokenRows, pricing, unlisted, changes, faults>>

WaitIdle ==
    /\ watcher = "idle" /\ watcher' = "backoff"
    /\ UNCHANGED <<open, filters, tree, fetch, check, index, tokenRows, pricing, unlisted, changes, faults>>

Reconnect ==
    /\ watcher = "backoff" /\ watcher' = "resolve"
    /\ UNCHANGED <<open, filters, tree, fetch, check, index, tokenRows, pricing, unlisted, changes, faults>>

-----------------------------------------------------------------------------
(* _periodic_resubscribe_check *)

CheckWakes ==
    /\ check = "sleep" /\ check' = "fetch"
    /\ ResolveStart("check")
    /\ UNCHANGED <<open, filters, tree, watcher, index, tokenRows, pricing, unlisted, changes, faults>>

CheckFindsSameSize ==                     \* mutant: compares the number of tokens
    /\ Fetched("check") /\ Cardinality(Plan("check")) = Cardinality(index)
    /\ check' = "sleep" /\ FetchEnds("check")
    /\ UNCHANGED <<open, filters, tree, watcher, index, tokenRows, pricing, unlisted, changes, faults>>

CheckFindsSame ==
    /\ Fetched("check") /\ Plan("check") = index
    /\ check' = "sleep" /\ FetchEnds("check")
    /\ UNCHANGED <<open, filters, tree, watcher, index, tokenRows, pricing, unlisted, changes, faults>>

CheckCloses ==
    /\ Fetched("check") /\ Plan("check") # index
    /\ check' = "closing" /\ FetchEnds("check")
    /\ UNCHANGED <<open, filters, tree, watcher, index, tokenRows, pricing, unlisted, changes, faults>>

\* Nothing but a cancellation is caught: the task ends and the stream goes on.
CheckDies ==
    /\ check = "fetch" /\ ~Fetched("check") /\ FetchEnds("check")
    /\ check' = "dead" /\ Fault
    /\ UNCHANGED <<open, filters, tree, watcher, index, tokenRows, pricing, unlisted, changes>>

-----------------------------------------------------------------------------
(* _handle_msg and _emit *)

\* A message names a pair; the pair last noted as persisted decides whether it
\* is written.
SameBid(p, q) == p # NoQuote /\ p[1] = q[1]       \* mutant: compares the first of the pair

Same(p, q) == p = q

Heard(t, q) ==
    /\ watcher = "stream" /\ emitting = {} /\ t \in index
    /\ heard' = [heard EXCEPT ![t] = q]
    /\ IF Same(last[t], q)
       THEN UNCHANGED <<last, emitting>>
       ELSE /\ last' = [last EXCEPT ![t] = q]
            /\ emitting' = {[token |-> t, quote |-> q, old |-> FALSE]}
    /\ UNCHANGED <<open, filters, tree, fetch, watching, snapshots, excused, unlisted, changes, faults>>

SnapshotWritten ==
    /\ \E r \in emitting : /\ snapshots' = [snapshots EXCEPT ![r.token] = {r}]
                           /\ excused' = excused \ {r.token}
    /\ emitting' = {}
    /\ UNCHANGED <<open, filters, tree, fetch, watching, last, heard, unlisted, changes, faults>>

SnapshotLost ==
    /\ \E r \in emitting : excused' = excused \cup {r.token}
    /\ emitting' = {} /\ Fault
    /\ UNCHANGED <<open, filters, tree, fetch, watching, last, heard, snapshots, unlisted, changes>>

-----------------------------------------------------------------------------
(* RetentionMonitor._cycle; two hours pass without a new price *)

SnapshotAges(t) ==
    /\ \E r \in snapshots[t] :
          ~r.old /\ snapshots' = [snapshots EXCEPT ![t] = {[r EXCEPT !.old = TRUE]}]
    /\ UNCHANGED <<open, filters, tree, fetch, watching, last, heard, emitting, excused, unlisted, changes, faults>>

Old == {t \in Tokens : \E r \in snapshots[t] : r.old}

Purge ==
    /\ Old # {}
    /\ snapshots' = [t \in Tokens |-> IF t \in Old THEN {} ELSE snapshots[t]]
    /\ excused' = excused \cup Old
    /\ UNCHANGED <<open, filters, tree, fetch, watching, last, heard, emitting, unlisted, changes, faults>>

-----------------------------------------------------------------------------
(* The user and Gamma *)

Change == changes < MaxChanges /\ changes' = changes + 1

RefreshTree ==
    /\ ~fetch["tree"].busy /\ Change
    /\ fetch' = [fetch EXCEPT !["tree"] = Fetching("tree", {})]
    /\ UNCHANGED <<open, filters, tree, watching, pricing, unlisted, faults>>

StoreTree ==
    /\ Fetched("tree") /\ FetchEnds("tree")
    /\ tree' = ToSet(fetch["tree"].got)
    /\ UNCHANGED <<open, filters, watching, pricing, unlisted, changes, faults>>

RefreshFails ==
    /\ fetch["tree"].busy /\ ~Fetched("tree") /\ FetchEnds("tree") /\ Fault
    /\ UNCHANGED <<open, filters, tree, watching, pricing, unlisted, changes>>

\* PUT /api/filters replaces the set by ticks in the tree that is shown.
Select ==
    /\ Change
    /\ filters' \in SUBSET (filters \cup UNION {OffersOf[e] : e \in tree})
    /\ UNCHANGED <<open, tree, fetch, watching, pricing, unlisted, faults>>

EventOpensOrCloses(e) ==
    /\ Change
    /\ open' = IF e \in open THEN open \ {e} ELSE open \cup {e}
    /\ UNCHANGED <<filters, tree, fetch, watching, pricing, unlisted, faults>>

\* The process is started again: what the watcher had in memory is gone.
Restart ==
    /\ Fault
    /\ fetch' = [f \in Fetchers |-> NoFetch]
    /\ watcher' = "resolve" /\ check' = "off" /\ index' = {}
    /\ last' = [t \in Tokens |-> NoQuote] /\ heard' = last' /\ emitting' = {}
    /\ UNCHANGED <<open, filters, tree, tokenRows, snapshots, excused, unlisted, changes>>

-----------------------------------------------------------------------------
Cycle == CycleStart \/ CycleResolved \/ PersistIndex \/ Connect \/ WaitIdle \/ Reconnect
Check == CheckWakes \/ CheckFindsSame \/ CheckCloses
Emit  == SnapshotWritten \/ \E t \in Quoted, q \in Quotes : Heard(t, q)
Failures == CycleFails \/ PersistIndexFails \/ ConnectFails \/ StreamEnds \/ CheckDies
                \/ SnapshotLost \/ RefreshFails \/ Restart
Retention == Purge \/ \E t \in Quoted : SnapshotAges(t)
UserAndGamma == RefreshTree \/ StoreTree \/ Select \/ \E e \in Events : EventOpensOrCloses(e)

Next == Cycle \/ Check \/ Emit \/ Failures \/ Retention \/ UserAndGamma
            \/ \E f \in Fetchers : FetchPage(f)

Spec == Init /\ [][Next]_vars

\* The tasks run on; nothing is assumed of prices, failures, the user or Gamma.
Fairness ==
    /\ \A f \in Fetchers : WF_vars(FetchPage(f))
    /\ WF_vars(Cycle) /\ WF_vars(Check) /\ WF_vars(SnapshotWritten)
    /\ SF_vars(check = "closing" /\ StreamEnds)   \* what was received before the close runs out

FairSpec == Spec /\ Fairness

-----------------------------------------------------------------------------
\* The newest snapshot of a token shows the last price heard since the start,
\* unless its write failed or retention deleted it: skipping repeated prices
\* never hides a change (watcher.py:311-319).
NewestIsLastHeard ==
    \A t \in Tokens \ excused :
        heard[t] = NoQuote \/ \E r \in snapshots[t] \cup emitting : r.token = t /\ r.quote = heard[t]

\* A token with a snapshot is in polymarket_tokens, where the decision engine looks
\* its event and outcome up, unless its upsert failed (watcher.py:107-110).
PricedTokensAreListed ==
    \A t \in Tokens \ unlisted : snapshots[t] # {} => t \in tokenRows

\* Every event shown in a selected branch of the tree is one the resolver matches;
\* "general" is no tag and selects nothing (resolver.py:55-70, tree.py:71-100).
TicksAreWatched ==
    \A e \in tree : (OffersOf[e] \cap filters) \ {[level |-> "league", id |-> "general"]} # {}
                        => EventMatches(e, filters)

\* Once filters and events stand still, the subscription becomes what they resolve
\* to and stays so, unless the check task died of a failed fetch (watcher.py:4-7).
Subscribed == index = ToSet(Resolve(Fetchable(open), filters))
FollowsFilters == <>[](Subscribed \/ check = "dead")
===============================================================================
