------------------------------- MODULE ProxyPool -------------------------------
(***************************************************************************)
(* ProxyPool (proxies.py): round robin over the proxies that are not       *)
(* parked.  The scrapers call it from threads.  Each operation holds the    *)
(* pool's lock and is one step, but next_proxy reads the clock before it    *)
(* takes the lock: another thread may read and take both in between.       *)
(***************************************************************************)
EXTENDS Integers, FiniteSets

CONSTANTS
    Scrapers,    \* the callers
    N,           \* proxies in the pool
    Threshold,   \* proxy_block_threshold
    Direct       \* next_proxy's None: connect without a proxy

ASSUME PoolAssumption == N \in Nat /\ Threshold \in Nat \ {0} /\ Direct \notin Nat

VARIABLES
    cursor,
    failures,    \* consecutive_failures of a proxy
    parked,      \* its cooldown_until lies in the future
    behind,      \* caller -> proxies whose cooldown ended after it read the clock
    waiting      \* ghost: proxy -> those not handed out since it last was, and
                 \*   free on the clock of every caller since
poolVars == <<cursor, failures, parked, behind, waiting>>

Proxies == 0 .. N - 1
Free    == {p \in Proxies : ~parked[p]}

PoolTypeOK ==
    /\ cursor \in Proxies \cup {0}
    /\ failures \in [Proxies -> 0 .. Threshold - 1]
    /\ parked \in [Proxies -> BOOLEAN]
    /\ behind \in [Scrapers -> SUBSET Proxies]
    /\ waiting \in [Proxies -> SUBSET Proxies]

PoolInit ==
    /\ cursor = 0
    /\ failures = [p \in Proxies |-> 0]
    /\ parked = [p \in Proxies |-> FALSE]
    /\ behind = [s \in Scrapers |-> {}]
    /\ waiting = [p \in Proxies |-> {}]

-----------------------------------------------------------------------------
\* how far ahead of the cursor a proxy is
Ahead(p) == IF p >= cursor THEN p - cursor ELSE p - cursor + N

\* not in cooldown at the time the caller has read
FreeFor(s) == Free \ behind[s]

FirstFreeFromZero(s) == {p \in FreeFor(s) : \A q \in FreeFor(s) : p <= q}   \* mutant: the cursor is ignored

FirstFree(s) == {p \in FreeFor(s) : \A q \in FreeFor(s) : Ahead(p) <= Ahead(q)}

Next_Proxy(s) == IF FirstFree(s) = {} THEN Direct ELSE CHOOSE p \in FirstFree(s) : TRUE

ReadClock(s) ==
    /\ behind' = [behind EXCEPT ![s] = {}]
    /\ UNCHANGED <<cursor, failures, parked, waiting>>

HandOut(s, p) ==
    /\ p = Next_Proxy(s)
    /\ behind' = [behind EXCEPT ![s] = {}]
    /\ IF p = Direct
       THEN UNCHANGED <<cursor, waiting>>
       ELSE /\ cursor' = IF p + 1 = N THEN 0 ELSE p + 1
            /\ waiting' = [r \in Proxies |-> IF r = p THEN Free \ {p}
                                             ELSE waiting[r] \ ({p} \cup behind[s])]
    /\ UNCHANGED <<failures, parked>>

MarkFailure(p) ==
    IF p = Direct THEN UNCHANGED poolVars
    ELSE IF failures[p] + 1 < Threshold
    THEN /\ failures' = [failures EXCEPT ![p] = @ + 1]
         /\ UNCHANGED <<cursor, parked, behind, waiting>>
    ELSE /\ failures' = [failures EXCEPT ![p] = 0]
         /\ parked' = [parked EXCEPT ![p] = TRUE]
         /\ waiting' = [r \in Proxies |-> waiting[r] \ {p}]
         /\ UNCHANGED <<cursor, behind>>

\* A cooldown that has been scheduled is left alone.
MarkSuccess(p) ==
    IF p = Direct THEN UNCHANGED poolVars
    ELSE /\ failures' = [failures EXCEPT ![p] = 0]
         /\ UNCHANGED <<cursor, parked, behind, waiting>>

\* The callers that have read the clock by now will not see it.
CooldownEnds(p, callers) ==
    /\ parked[p]
    /\ parked' = [parked EXCEPT ![p] = FALSE]
    /\ behind' = [s \in Scrapers |-> IF s \in callers THEN behind[s] \cup {p} ELSE behind[s]]
    /\ UNCHANGED <<cursor, failures, waiting>>

-----------------------------------------------------------------------------
\* No caller is handed a proxy again while another one waits that it finds free
\* and that has been free, on the clock of every caller served in between, since
\* the proxy was last handed out: requests are spread over the exit addresses
\* whatever the interleaving of threads, clocks, parkings and cooldowns
\* (proxies.py:3-6).
RotatesFairly ==
    \A s \in Scrapers, p \in Proxies : waiting[p] \ behind[s] # {} => Next_Proxy(s) # p
===============================================================================
