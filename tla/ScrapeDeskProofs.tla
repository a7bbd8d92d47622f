--------------------------- MODULE ScrapeDeskProofs ---------------------------
(***************************************************************************)
(* Proofs about ScrapeDesk, for any number of proxies, scrapers, sports,    *)
(* requests and retries: its type invariant, and that the pool hands its    *)
(* proxies out in turn.                                                     *)
(***************************************************************************)
EXTENDS ScrapeDesk, TLAPS

(***************************************************************************)
(* The inductive invariant of the pool.  A proxy p that was handed out comes *)
(* again after every proxy that callers have found free since: the round    *)
(* robin passes those before it gets back to p.                             *)
(***************************************************************************)
InTurn ==
    \A p \in Proxies : \A q \in waiting[p] : ~parked[q] /\ Ahead(q) < Ahead(p)

PoolInv == PoolTypeOK /\ InTurn

(***************************************************************************)
(* The inductive invariant of the scrapers: a GET belongs to a sport of the *)
(* run, is one of those the sport needs, and one of the tries it has.       *)
(***************************************************************************)
ScraperType(s) ==
    [pc : {"loop", "cooling", "sport", "pick", "lock", "get", "persist", "rest", "ended"},
     sports : 0 .. SportsOf[s], gets : 0 .. GetsOf[s], tries : 0 .. Retries,
     proxy : Proxies \cup {Direct}]

ScraperOK(s, r) ==
    /\ r \in ScraperType(s)
    /\ r.pc \in {"pick", "lock", "get"} => r.sports > 0 /\ r.gets > 0 /\ r.tries > 0
    /\ r.pc = "persist" => r.sports > 0

BackoffOK(s, b) ==
    /\ b \in [failures : 0 .. Tired, offline : BOOLEAN]
    /\ b.offline => b.failures >= OfflineAfter
    /\ s \notin Raising => b = Rested

Inv ==
    /\ PoolInv
    /\ scraper = [s \in Scrapers |-> scraper[s]]
    /\ backoff = [s \in Scrapers |-> backoff[s]]
    /\ \A s \in Scrapers : ScraperOK(s, scraper[s]) /\ BackoffOK(s, backoff[s])
    /\ disabled \in SUBSET Keyed
    /\ queued \in 0 .. QueueSize
    /\ phase \in {"running", "stopping"}
-----------------------------------------------------------------------------
(* The pool *)

\* After p was handed out it is the last in turn, and the others keep their order.
LEMMA Turn ==
    ASSUME NEW p \in Proxies, NEW q \in Proxies, q # p, cursor \in Proxies,
           cursor' = IF p + 1 = N THEN 0 ELSE p + 1
    PROVE  /\ cursor' \in Proxies
           /\ Ahead(p)' = N - 1
           /\ Ahead(q)' < N - 1
           /\ Ahead(p) <= Ahead(q) => Ahead(q)' = Ahead(q) - Ahead(p) - 1
           /\ Ahead(p) \in Nat /\ Ahead(q) \in Nat
  BY PoolAssumption DEF Proxies, Ahead

\* No other proxy is as far ahead of the cursor as p.
LEMMA AheadOnce ==
    ASSUME NEW p \in Proxies, cursor \in Proxies
    PROVE  /\ Ahead(p) \in 0 .. N - 1
           /\ cursor' = (IF p + 1 = N THEN 0 ELSE p + 1) => cursor' \in Proxies /\ Ahead(p)' = N - 1
  BY PoolAssumption DEF Proxies, Ahead

\* next_proxy
LEMMA HandOutInv ==
    ASSUME PoolInv, NEW s \in Scrapers, HandOut(s, Next_Proxy(s))
    PROVE  PoolInv' /\ Next_Proxy(s) \in Proxies \cup {Direct}
  <1>0. behind' \in [Scrapers -> SUBSET Proxies] /\ behind[s] \in SUBSET Proxies
    BY DEF HandOut, PoolInv, PoolTypeOK
  <1>1. CASE FirstFree(s) = {}
    <2>1. Next_Proxy(s) = Direct  BY <1>1 DEF Next_Proxy
    <2>2. UNCHANGED <<cursor, failures, parked, waiting>>  BY <2>1 DEF HandOut
    <2> QED BY <1>0, <2>1, <2>2 DEF PoolInv, PoolTypeOK, InTurn, Ahead
  <1>2. CASE FirstFree(s) # {}
    <2> DEFINE p == Next_Proxy(s)
    <2>1. p \in FirstFree(s)  BY <1>2 DEF Next_Proxy
    <2>2. /\ p \in Proxies /\ ~parked[p]
          /\ \A q \in Proxies : ~parked[q] /\ q \notin behind[s] => Ahead(p) <= Ahead(q)
      BY <2>1 DEF FirstFree, FreeFor, Free
    <2>3. p # Direct /\ N \in Nat /\ N > 0 /\ cursor \in Proxies
      BY <2>2, PoolAssumption DEF Proxies, PoolInv, PoolTypeOK
    <2>4. /\ cursor' = IF p + 1 = N THEN 0 ELSE p + 1
          /\ waiting' = [r \in Proxies |-> IF r = p THEN Free \ {p}
                                           ELSE waiting[r] \ ({p} \cup behind[s])]
          /\ UNCHANGED <<failures, parked>>
      BY <2>3 DEF HandOut
    <2> HIDE DEF p
    <2>5. PoolTypeOK'
      <3>1. cursor' \in Proxies  BY <2>2, <2>3, <2>4, AheadOnce
      <3>2. waiting' \in [Proxies -> SUBSET Proxies]
        BY <2>4 DEF Free, PoolInv, PoolTypeOK
      <3> QED BY <1>0, <2>4, <3>1, <3>2 DEF PoolInv, PoolTypeOK
    <2>6. InTurn'
      <3> SUFFICES ASSUME NEW r \in Proxies, NEW q \in waiting'[r]
                   PROVE  ~parked'[q] /\ Ahead(q)' < Ahead(r)'
        BY DEF InTurn
      <3>1. CASE r = p
        <4>1. q \in Free \ {p}  BY <2>4, <3>1
        <4>2. q \in Proxies /\ q # p /\ ~parked[q]  BY <4>1 DEF Free
        <4>3. cursor' = (IF r + 1 = N THEN 0 ELSE r + 1) /\ q # r  BY <2>4, <3>1, <4>2
        <4>4. Ahead(q)' < N - 1 /\ Ahead(r)' = N - 1  BY <2>3, <4>2, <4>3, Turn
        <4> QED BY <2>4, <4>2, <4>4
      <3>2. CASE r # p
        <4>1. q \in waiting[r] \ ({p} \cup behind[s])  BY <2>4, <3>2
        <4>2. /\ q \in Proxies /\ q # p /\ ~parked[q] /\ Ahead(q) < Ahead(r)
              /\ Ahead(p) <= Ahead(q)
          BY <2>2, <4>1 DEF PoolInv, PoolTypeOK, InTurn
        <4>3. Ahead(p) \in Nat /\ Ahead(q) \in Nat /\ Ahead(r) \in Nat
          BY <2>2, <2>3, <4>2, AheadOnce
        <4>4. Ahead(p) <= Ahead(r)  BY <4>2, <4>3
        <4>5. /\ Ahead(q)' = Ahead(q) - Ahead(p) - 1
              /\ Ahead(r)' = Ahead(r) - Ahead(p) - 1
          BY <2>2, <2>3, <2>4, <3>2, <4>2, <4>4, Turn
        <4> QED BY <2>4, <4>2, <4>3, <4>5
      <3> QED BY <3>1, <3>2
    <2> QED BY <2>2, <2>5, <2>6 DEF PoolInv, p
  <1> QED BY <1>1, <1>2

\* The caller reads the clock.
LEMMA ReadClockInv ==
    ASSUME PoolInv, NEW s \in Scrapers, ReadClock(s)
    PROVE  PoolInv'
  BY DEF ReadClock, PoolInv, PoolTypeOK, InTurn, Ahead

\* A step that hands nothing out keeps the order as long as it parks only proxies
\* that nobody waits behind any more.
LEMMA OrderKept ==
    ASSUME PoolInv, UNCHANGED cursor, failures' \in [Proxies -> 0 .. Threshold - 1],
           behind' \in [Scrapers -> SUBSET Proxies],
           parked' \in [Proxies -> BOOLEAN], waiting' \in [Proxies -> SUBSET Proxies],
           \A p \in Proxies : \A q \in waiting'[p] : q \in waiting[p] /\ (parked'[q] => parked[q])
    PROVE  PoolInv'
  BY DEF PoolInv, PoolTypeOK, InTurn, Ahead

\* mark_failure
LEMMA MarkFailureInv ==
    ASSUME PoolInv, NEW p \in Proxies \cup {Direct}, MarkFailure(p)
    PROVE  PoolInv'
  <1>1. CASE p = Direct
    <2>1. UNCHANGED poolVars  BY <1>1 DEF MarkFailure
    <2> QED BY <2>1, OrderKept DEF poolVars, PoolInv, PoolTypeOK
  <1>2. CASE p # Direct
    <2>1. Threshold \in Nat \ {0} /\ p \in Proxies /\ failures[p] \in 0 .. Threshold - 1
      BY <1>2, PoolAssumption DEF PoolInv, PoolTypeOK
    <2>2. CASE failures[p] + 1 < Threshold
      <3>1. /\ failures' = [failures EXCEPT ![p] = failures[p] + 1]
            /\ UNCHANGED <<cursor, parked, behind, waiting>>
        BY <1>2, <2>2 DEF MarkFailure
      <3>2. failures[p] + 1 \in 0 .. Threshold - 1  BY <2>1, <2>2
      <3>3. failures' \in [Proxies -> 0 .. Threshold - 1]
        BY <3>1, <3>2 DEF PoolInv, PoolTypeOK
      <3> QED BY <3>1, <3>3, OrderKept DEF PoolInv, PoolTypeOK
    <2>3. CASE ~(failures[p] + 1 < Threshold)
      <3>1. /\ failures' = [failures EXCEPT ![p] = 0]
            /\ parked' = [parked EXCEPT ![p] = TRUE]
            /\ waiting' = [r \in Proxies |-> waiting[r] \ {p}]
            /\ UNCHANGED <<cursor, behind>>
        BY <1>2, <2>3 DEF MarkFailure
      <3>2. 0 \in 0 .. Threshold - 1  BY <2>1
      <3>3. failures' \in [Proxies -> 0 .. Threshold - 1]
        BY <3>1, <3>2 DEF PoolInv, PoolTypeOK
      <3> QED BY <3>1, <3>3, OrderKept DEF PoolInv, PoolTypeOK
    <2> QED BY <2>2, <2>3
  <1> QED BY <1>1, <1>2

\* mark_success
LEMMA MarkSuccessInv ==
    ASSUME PoolInv, NEW p \in Proxies \cup {Direct}, MarkSuccess(p)
    PROVE  PoolInv'
  <1>1. CASE p = Direct
    <2>1. UNCHANGED poolVars  BY <1>1 DEF MarkSuccess
    <2> QED BY <2>1, OrderKept DEF poolVars, PoolInv, PoolTypeOK
  <1>2. CASE p # Direct
    <2>1. failures' = [failures EXCEPT ![p] = 0] /\ UNCHANGED <<cursor, parked, behind, waiting>>
      BY <1>2 DEF MarkSuccess
    <2>2. 0 \in 0 .. Threshold - 1  BY PoolAssumption
    <2>3. failures' \in [Proxies -> 0 .. Threshold - 1]
      BY <2>1, <2>2 DEF PoolInv, PoolTypeOK
    <2> QED BY <2>1, <2>3, OrderKept DEF PoolInv, PoolTypeOK
  <1> QED BY <1>1, <1>2

\* A cooldown that ends frees a proxy nobody is said to have passed over.
LEMMA CooldownEndsInv ==
    ASSUME PoolInv, NEW p \in Proxies, NEW callers, CooldownEnds(p, callers)
    PROVE  PoolInv'
  <1>1. behind' \in [Scrapers -> SUBSET Proxies]  BY DEF PoolInv, PoolTypeOK, CooldownEnds
  <1> QED BY <1>1, OrderKept DEF PoolInv, PoolTypeOK, CooldownEnds

\* A pool left alone
LEMMA PoolStays ==
    ASSUME PoolInv, UNCHANGED poolVars
    PROVE  PoolInv'
  BY OrderKept DEF PoolInv, PoolTypeOK, poolVars

\* The pool of a process that has just started
LEMMA PoolStarts ==
    /\ PoolInit => PoolInv
    /\ Restart => PoolInv'
  <1>1. 0 \in 0 .. Threshold - 1  BY PoolAssumption
  <1> QED BY <1>1 DEF PoolInit, Restart, PoolInv, PoolTypeOK, InTurn

-----------------------------------------------------------------------------
(* The scrapers *)

\* A scraper at rest in its loop, and one that has not failed
LEMMA FreshScraper ==
    ASSUME NEW s \in Scrapers
    PROVE  /\ ScraperOK(s, Looping) /\ Looping.pc = "loop" /\ Looping.proxy = Direct
           /\ BackoffOK(s, Rested)
           /\ Looping.sports = 0 /\ Looping.gets = 0 /\ Looping.tries = 0
  <1>1. SportsOf[s] \in Nat /\ GetsOf[s] \in Nat /\ Retries \in Nat /\ OfflineAfter \in Nat
    BY ScrapeAssumption
  <1> QED BY <1>1 DEF ScraperOK, ScraperType, Looping, BackoffOK, Rested, Tired

\* A backoff without failures that is not offline is the rested one.
LEMMA RestedBackoff ==
    ASSUME NEW b \in [failures : 0 .. Tired, offline : BOOLEAN], b.failures = 0, ~b.offline
    PROVE  b = Rested
  BY DEF Rested

\* What is known of a scraper before it moves
LEMMA OfScraper ==
    ASSUME Inv, NEW s \in Scrapers
    PROVE  /\ ScraperOK(s, scraper[s]) /\ BackoffOK(s, backoff[s])
           /\ scraper[s].proxy \in Proxies \cup {Direct}
           /\ scraper[s].sports \in 0 .. SportsOf[s] /\ SportsOf[s] \in Nat
           /\ scraper[s].gets \in 0 .. GetsOf[s] /\ GetsOf[s] \in Nat \ {0}
           /\ scraper[s].tries \in 0 .. Retries /\ Retries \in Nat \ {0}
           /\ OfflineAfter \in Nat \ {0}
  BY ScrapeAssumption DEF Inv, ScraperOK, ScraperType

\* One scraper moved, and what it did to the pool and the queue is in order.
LEMMA ScraperStepInv ==
    ASSUME Inv, PoolInv', NEW s \in Scrapers, NEW r, ScraperOK(s, r),
           scraper' = [scraper EXCEPT ![s] = r],
           backoff' = backoff \/ \E b : BackoffOK(s, b) /\ backoff' = [backoff EXCEPT ![s] = b],
           disabled' \in SUBSET Keyed, queued' \in 0 .. QueueSize,
           phase' \in {"running", "stopping"}
    PROVE  Inv'
  <1>1. /\ scraper' = [k \in Scrapers |-> scraper'[k]]
        /\ \A k \in Scrapers : ScraperOK(k, scraper'[k])
    BY DEF Inv
  <1>2. /\ backoff' = [k \in Scrapers |-> backoff'[k]]
        /\ \A k \in Scrapers : BackoffOK(k, backoff'[k])
    BY DEF Inv
  <1> QED BY <1>1, <1>2 DEF Inv, ScraperOK, ScraperType, BackoffOK

\* A scraper that only goes to another place of its loop, where it holds no GET.
LEMMA GotoInv ==
    ASSUME Inv, PoolInv', NEW s \in Scrapers,
           NEW pc \in {"loop", "cooling", "sport", "rest", "ended"}, Goto(s, pc),
           backoff' = backoff \/ \E b : BackoffOK(s, b) /\ backoff' = [backoff EXCEPT ![s] = b],
           UNCHANGED <<disabled, queued, phase>>
    PROVE  Inv'
  <1> DEFINE r == [scraper[s] EXCEPT !.pc = pc]
  <1>1. ScraperOK(s, r)  BY OfScraper DEF ScraperOK, ScraperType
  <1>2. scraper' = [scraper EXCEPT ![s] = r]  BY DEF Goto
  <1> HIDE DEF r
  <1> QED BY <1>1, <1>2, ScraperStepInv DEF Inv

\* The loop of run(): it ends, waits out the offline pause, or waits for its interval.
LEMMA LoopInv ==
    ASSUME Inv, NEW s \in Scrapers,
           Ends(s) \/ GoesOffline(s) \/ IntervalOver(s) \/ Cancel(s)
    PROVE  Inv'
  <1>1. UNCHANGED <<poolVars, backoff, disabled, queued, phase>>
        /\ \E pc \in {"loop", "cooling", "sport", "rest", "ended"} : Goto(s, pc)
    BY DEF Ends, GoesOffline, IntervalOver, Cancel
  <1>2. PoolInv'  BY <1>1, PoolStays DEF Inv
  <1> QED BY <1>1, <1>2, GotoInv

\* The pause is over: failures are counted anew.
LEMMA CooledInv ==
    ASSUME Inv, NEW s \in Scrapers, Cooled(s)
    PROVE  Inv'
  <1> DEFINE b == [backoff[s] EXCEPT !.offline = FALSE, !.failures = 0]
  <1>1. PoolInv'  BY PoolStays DEF Inv, Cooled
  <1>2. BackoffOK(s, b)
    <2>1. backoff[s] \in [failures : 0 .. Tired, offline : BOOLEAN]  BY OfScraper DEF BackoffOK
    <2>2. 0 \in 0 .. Tired  BY OfScraper DEF Tired
    <2>3. b \in [failures : 0 .. Tired, offline : BOOLEAN] /\ b.failures = 0 /\ ~b.offline
      BY <2>1, <2>2
    <2> HIDE DEF b
    <2> QED BY <2>3, RestedBackoff, FreshScraper
  <1>3. backoff' = backoff \/ backoff' = [backoff EXCEPT ![s] = b]  BY DEF Cooled
  <1> HIDE DEF b
  <1>4. Goto(s, "loop") /\ UNCHANGED <<disabled, queued, phase>>  BY DEF Cooled
  <1> QED BY <1>1, <1>2, <1>3, <1>4, GotoInv

\* A run without a failure ends, and rests the backoff.
LEMMA RunSucceedsInv ==
    ASSUME Inv, NEW s \in Scrapers, RunSucceeds(s)
    PROVE  Inv'
  <1>1. PoolInv'  BY PoolStays DEF Inv, RunSucceeds
  <1>2. /\ Goto(s, "rest") /\ UNCHANGED <<disabled, queued, phase>>
        /\ backoff' = [backoff EXCEPT ![s] = Rested]
    BY DEF RunSucceeds, Success
  <1> QED BY <1>1, <1>2, FreshScraper, GotoInv

\* The pause runs out while the scraper waits elsewhere.
LEMMA OfflineExpiresInv ==
    ASSUME Inv, NEW s \in Scrapers, OfflineExpires(s)
    PROVE  Inv'
  <1> DEFINE b == [backoff[s] EXCEPT !.offline = FALSE]
  <1>1. PoolInv'  BY PoolStays DEF Inv, OfflineExpires
  <1>2. BackoffOK(s, b)
    <2>1. backoff[s] \in [failures : 0 .. Tired, offline : BOOLEAN]  BY OfScraper DEF BackoffOK
    <2>2. /\ b \in [failures : 0 .. Tired, offline : BOOLEAN] /\ ~b.offline
          /\ b.failures = backoff[s].failures
      BY <2>1
    <2> HIDE DEF b
    <2>3. Rested.failures = 0  BY DEF Rested
    <2> QED BY <2>2, <2>3, OfScraper, RestedBackoff DEF BackoffOK
  <1>3. backoff' = [backoff EXCEPT ![s] = b] /\ UNCHANGED <<scraper, disabled, queued, phase>>
    BY DEF OfflineExpires
  <1> HIDE DEF b
  <1>4. scraper' = [scraper EXCEPT ![s] = scraper[s]]  BY <1>3 DEF Inv
  <1> QED BY <1>1, <1>2, <1>3, <1>4, OfScraper, ScraperStepInv DEF Inv

\* A run starts with all the sports of the scraper, or with none.
LEMMA StartRunInv ==
    ASSUME Inv, NEW s \in Scrapers, StartRun(s)
    PROVE  Inv'
  <1> DEFINE n == IF s \in disabled THEN 0 ELSE SportsOf[s]
             r == [Looping EXCEPT !.pc = "sport", !.sports = n]
  <1>1. PoolInv'  BY PoolStays DEF Inv, StartRun
  <1>2. n \in 0 .. SportsOf[s]  BY OfScraper
  <1>3. scraper' = [scraper EXCEPT ![s] = r] /\ UNCHANGED <<backoff, disabled, queued, phase>>
    BY DEF StartRun
  <1> HIDE DEF n
  <1>4. ScraperOK(s, r)  BY <1>2, FreshScraper DEF ScraperOK, ScraperType
  <1> HIDE DEF r
  <1> QED BY <1>1, <1>3, <1>4, ScraperStepInv DEF Inv

-----------------------------------------------------------------------------
(* A run *)

\* A sport is begun with all its GETs and all their tries.
LEMMA NextSportInv ==
    ASSUME Inv, NEW s \in Scrapers, NextSport(s)
    PROVE  Inv'
  <1> DEFINE r == [scraper[s] EXCEPT !.pc = "pick", !.gets = GetsOf[s], !.tries = Retries]
  <1>1. PoolInv'  BY PoolStays DEF Inv, NextSport
  <1>2. scraper[s].sports > 0  BY DEF NextSport
  <1>3. ScraperOK(s, r)
    <2>1. /\ scraper[s] \in ScraperType(s)
          /\ GetsOf[s] \in 0 .. GetsOf[s] /\ GetsOf[s] > 0
          /\ Retries \in 0 .. Retries /\ Retries > 0
      BY OfScraper DEF ScraperOK
    <2>2. /\ r \in ScraperType(s) /\ r.pc = "pick" /\ r.sports = scraper[s].sports
          /\ r.gets = GetsOf[s] /\ r.tries = Retries
      BY <2>1 DEF ScraperType
    <2> HIDE DEF r
    <2> QED BY <1>2, <2>1, <2>2 DEF ScraperOK
  <1>4. scraper' = [scraper EXCEPT ![s] = r] /\ UNCHANGED <<backoff, disabled, queued, phase>>
    BY DEF NextSport
  <1> HIDE DEF r
  <1> QED BY <1>1, <1>3, <1>4, ScraperStepInv DEF Inv

\* The clock is read for a try.
LEMMA AskPoolInv ==
    ASSUME Inv, NEW s \in Scrapers, AskPool(s)
    PROVE  Inv'
  <1> DEFINE r == [scraper[s] EXCEPT !.pc = "lock"]
  <1>1. PoolInv'  BY ReadClockInv DEF Inv, AskPool
  <1>2. ScraperOK(s, r)  BY OfScraper DEF ScraperOK, ScraperType, AskPool, At
  <1>3. scraper' = [scraper EXCEPT ![s] = r] /\ UNCHANGED <<backoff, disabled, queued, phase>>
    BY DEF AskPool, Goto
  <1> HIDE DEF r
  <1> QED BY <1>1, <1>2, <1>3, ScraperStepInv DEF Inv

\* A try is given a proxy, or none.
LEMMA PickInv ==
    ASSUME Inv, NEW s \in Scrapers, Pick(s)
    PROVE  Inv'
  <1> DEFINE r == [scraper[s] EXCEPT !.pc = "get", !.proxy = Next_Proxy(s)]
  <1>1. PoolInv' /\ Next_Proxy(s) \in Proxies \cup {Direct}  BY HandOutInv DEF Inv, Pick
  <1>2. ScraperOK(s, r)  BY <1>1, OfScraper DEF ScraperOK, ScraperType, Pick, At
  <1>3. scraper' = [scraper EXCEPT ![s] = r] /\ UNCHANGED <<backoff, disabled, queued, phase>>
    BY DEF Pick
  <1> HIDE DEF r
  <1> QED BY <1>1, <1>2, <1>3, ScraperStepInv DEF Inv

\* The record of a scraper that is done with a sport
LEMMA NextIsOK ==
    ASSUME Inv, NEW s \in Scrapers, scraper[s].sports > 0
    PROVE  ScraperOK(s, [Looping EXCEPT !.pc = "sport", !.sports = scraper[s].sports - 1])
  <1> DEFINE n == scraper[s].sports - 1
  <1>1. n \in 0 .. SportsOf[s]  BY OfScraper
  <1> HIDE DEF n
  <1>2. ScraperOK(s, [Looping EXCEPT !.pc = "sport", !.sports = n])
    BY <1>1, FreshScraper DEF ScraperOK, ScraperType
  <1> QED BY <1>2 DEF n

\* A sport that is done with keeps the invariant if the pool is in order.
LEMMA NextIsInv ==
    ASSUME Inv, PoolInv', NEW s \in Scrapers, scraper[s].sports > 0, NextIs(s),
           UNCHANGED <<backoff, disabled, phase>>, queued' \in 0 .. QueueSize
    PROVE  Inv'
  BY NextIsOK, ScraperStepInv DEF NextIs, Inv

\* A sport that is given up: passed over, or the run fails with it.
LEMMA SportFailsInv ==
    ASSUME Inv, PoolInv', NEW s \in Scrapers, scraper[s].sports > 0, SportFails(s),
           UNCHANGED <<disabled, queued, phase>>
    PROVE  Inv'
  <1>1. CASE s \notin Raising
    <2>1. NextIs(s) /\ UNCHANGED backoff  BY <1>1 DEF SportFails
    <2> QED BY <2>1, NextIsInv DEF Inv
  <1>2. CASE s \in Raising
    <2> DEFINE n == IF backoff[s].failures < Tired THEN backoff[s].failures + 1 ELSE Tired
               r == [Looping EXCEPT !.pc = "rest"]
               b == [failures |-> n, offline |-> n >= OfflineAfter \/ backoff[s].offline]
    <2>1. ScraperOK(s, r)  BY FreshScraper DEF ScraperOK, ScraperType
    <2>2. BackoffOK(s, b)
      <3>1. /\ backoff[s].failures \in 0 .. Tired /\ backoff[s].offline \in BOOLEAN
            /\ backoff[s].offline => backoff[s].failures >= OfflineAfter
            /\ Tired = OfflineAfter + 1 /\ OfflineAfter \in Nat
        BY OfScraper DEF BackoffOK, Tired
      <3>2. /\ n \in 0 .. Tired
            /\ (n >= OfflineAfter \/ backoff[s].offline) => n >= OfflineAfter
        BY <3>1
      <3> HIDE DEF n
      <3>3. (n >= OfflineAfter \/ backoff[s].offline) \in BOOLEAN  BY <3>1
      <3> QED BY <1>2, <3>2, <3>3 DEF BackoffOK
    <2>3. scraper' = [scraper EXCEPT ![s] = r] /\ backoff' = [backoff EXCEPT ![s] = b]
      BY <1>2 DEF SportFails, Failure
    <2> HIDE DEF r, b
    <2> QED BY <2>1, <2>2, <2>3, ScraperStepInv DEF Inv
  <1> QED BY <1>1, <1>2

\* 200
LEMMA AnsweredInv ==
    ASSUME Inv, NEW s \in Scrapers, Answered(s)
    PROVE  Inv'
  <1> DEFINE g  == scraper[s].gets - 1
             pc == IF scraper[s].gets = 1 THEN "persist" ELSE "pick"
             r  == [scraper[s] EXCEPT !.gets = g, !.tries = Retries, !.proxy = Direct, !.pc = pc]
  <1>1. PoolInv'  BY OfScraper, MarkSuccessInv DEF Inv, Answered
  <1>2. /\ g \in 0 .. GetsOf[s] /\ pc \in {"persist", "pick"} /\ (pc = "pick" => g > 0)
        /\ scraper[s].sports > 0
    BY OfScraper DEF Answered, At, ScraperOK
  <1>3. scraper' = [scraper EXCEPT ![s] = r] /\ UNCHANGED <<backoff, disabled, queued, phase>>
    BY DEF Answered
  <1> HIDE DEF g, pc
  <1>4. ScraperOK(s, r)
    <2>1. scraper[s] \in ScraperType(s) /\ Retries \in 0 .. Retries /\ Retries > 0
      BY OfScraper DEF ScraperOK
    <2>2. /\ r \in ScraperType(s) /\ r.pc = pc /\ r.sports = scraper[s].sports
          /\ r.gets = g /\ r.tries = Retries
      BY <1>2, <2>1 DEF ScraperType
    <2> HIDE DEF r
    <2> QED BY <1>2, <2>1, <2>2 DEF ScraperOK
  <1> HIDE DEF r
  <1> QED BY <1>1, <1>3, <1>4, ScraperStepInv DEF Inv

\* An answer that is refused, or lists nothing
LEMMA RefusedInv ==
    ASSUME Inv, NEW s \in Scrapers, Refused(s) \/ NothingListed(s)
    PROVE  Inv'
  <1>1. scraper[s].sports > 0
    BY OfScraper DEF Refused, NothingListed, At, ScraperOK
  <1>2. PoolInv'  BY OfScraper, MarkSuccessInv DEF Inv, Refused, NothingListed
  <1>3. CASE Refused(s)  BY <1>1, <1>2, <1>3, SportFailsInv DEF Refused
  <1>4. CASE NothingListed(s)  BY <1>1, <1>2, <1>4, NextIsInv DEF NothingListed, Inv
  <1> QED BY <1>3, <1>4

\* A key that is rejected ends the run and disables the scraper.
LEMMA KeyRejectedInv ==
    ASSUME Inv, NEW s \in Scrapers, KeyRejected(s)
    PROVE  Inv'
  <1> DEFINE r == [Looping EXCEPT !.pc = "sport"]
  <1>1. PoolInv'  BY OfScraper, MarkSuccessInv, MarkFailureInv DEF Inv, KeyRejected
  <1>2. ScraperOK(s, r)  BY FreshScraper DEF ScraperOK, ScraperType
  <1>3. /\ scraper' = [scraper EXCEPT ![s] = r] /\ UNCHANGED <<backoff, queued, phase>>
        /\ disabled' \in SUBSET Keyed
    BY DEF KeyRejected, Inv
  <1> HIDE DEF r
  <1> QED BY <1>1, <1>2, <1>3, ScraperStepInv DEF Inv

\* The next proxy, until the tries are used up
LEMMA BlockedInv ==
    ASSUME Inv, NEW s \in Scrapers, Blocked(s)
    PROVE  Inv'
  <1>1. PoolInv'  BY OfScraper, MarkFailureInv DEF Inv, Blocked
  <1>2. scraper[s].sports > 0 /\ scraper[s].gets > 0
    BY OfScraper DEF Blocked, At, ScraperOK
  <1>3. CASE scraper[s].tries > 1
    <2> DEFINE n == scraper[s].tries - 1
               r == [scraper[s] EXCEPT !.pc = "pick", !.tries = n, !.proxy = Direct]
    <2>1. n \in 0 .. Retries /\ n > 0  BY <1>3, OfScraper
    <2>2. scraper' = [scraper EXCEPT ![s] = r] /\ UNCHANGED <<backoff, disabled, queued, phase>>
      BY <1>3 DEF Blocked
    <2> HIDE DEF n
    <2>3. ScraperOK(s, r)  BY <1>2, <2>1, OfScraper DEF ScraperOK, ScraperType
    <2> HIDE DEF r
    <2> QED BY <1>1, <2>2, <2>3, ScraperStepInv DEF Inv
  <1>4. CASE ~(scraper[s].tries > 1)
    BY <1>1, <1>2, <1>4, SportFailsInv DEF Blocked
  <1> QED BY <1>3, <1>4

\* What was fetched is published to a queue that never overflows.
LEMMA PersistInv ==
    ASSUME Inv, NEW s \in Scrapers, Persist(s)
    PROVE  Inv'
  <1>1. PoolInv'  BY PoolStays DEF Inv, Persist
  <1>2. scraper[s].sports > 0  BY OfScraper DEF Persist, At, ScraperOK
  <1>3. queued' \in 0 .. QueueSize  BY ScrapeAssumption DEF Persist, Published, Inv
  <1> QED BY <1>1, <1>2, <1>3, NextIsInv DEF Persist

-----------------------------------------------------------------------------
\* The subscriber reads, or the process is told to stop.
LEMMA OutsideInv ==
    ASSUME Inv, SubscriberReads \/ Stop
    PROVE  Inv'
  <1>1. PoolInv'  BY PoolStays DEF Inv, SubscriberReads, Stop
  <1>2. queued' \in 0 .. QueueSize /\ phase' \in {"running", "stopping"}
        /\ UNCHANGED <<scraper, backoff, disabled>>
    BY ScrapeAssumption DEF Inv, SubscriberReads, Stop
  <1> QED BY <1>1, <1>2 DEF Inv

\* Nothing has run yet.
LEMMA StartInv ==
    /\ Init => Inv
    /\ Restart => Inv'
  <1>1. 0 \in 0 .. QueueSize  BY ScrapeAssumption
  <1> QED BY <1>1, PoolStarts, FreshScraper DEF Init, DeskInit, Restart, Inv

\* Every step keeps the invariant.
LEMMA NextInv ==
    ASSUME Inv, Next
    PROVE  Inv'
  <1>1. ASSUME NEW s \in Scrapers, Run(s)
        PROVE  Inv'
    BY <1>1, LoopInv, CooledInv, StartRunInv, RunSucceedsInv, NextSportInv, AskPoolInv, PickInv, PersistInv,
       AnsweredInv, RefusedInv, KeyRejectedInv, BlockedInv DEF Run
  <1>2. ASSUME NEW s \in Scrapers, OfflineExpires(s) \/ Cancel(s)
        PROVE  Inv'
    BY <1>2, OfflineExpiresInv, LoopInv
  <1>3. ASSUME NEW p \in Proxies, CooldownEnds(p, {s \in Scrapers : At(s, "lock")}),
               UNCHANGED deskVars
        PROVE  Inv'
    <2>1. PoolInv'  BY <1>3, CooldownEndsInv DEF Inv
    <2> QED BY <1>3, <2>1 DEF Inv, deskVars
  <1>4. CASE SubscriberReads \/ Stop \/ Restart  BY <1>4, OutsideInv, StartInv
  <1> QED BY <1>1, <1>2, <1>3, <1>4 DEF Next

\* A step that changes nothing keeps the invariant.
LEMMA StutterInv ==
    ASSUME Inv, UNCHANGED vars
    PROVE  Inv'
  <1>1. UNCHANGED poolVars /\ UNCHANGED deskVars  BY DEF vars
  <1>2. PoolInv'  BY <1>1, PoolStays DEF Inv
  <1> QED BY <1>1, <1>2 DEF Inv, deskVars

-----------------------------------------------------------------------------
\* In every reachable state of the scrapers and their pool the inductive invariant
\* holds.
THEOREM Invariance == Spec => []Inv
  <1>1. Init => Inv  BY StartInv
  <1>2. Inv /\ [Next]_vars => Inv'  BY NextInv, StutterInv
  <1> QED BY <1>1, <1>2, PTL DEF Spec

\* Scrapers, backoffs, the pool and the queue keep their types: no try or GET is
\* counted below zero, a queue never holds more than its size (odds_bus.py:30-41),
\* and a scraper whose fetch lets nothing through never backs off (base.py:70-110).
THEOREM TypeCorrect == Spec => []TypeOK
  <1>1. Inv => TypeOK
    BY DEF Inv, PoolInv, ScraperOK, ScraperType, BackoffOK, TypeOK
  <1> QED BY <1>1, Invariance, PTL

\* With any number of proxies and of scrapers, whatever is parked and comes back
\* and whenever the callers read their clocks, no caller is handed a proxy again
\* while another waits that it finds free and that every caller served since has
\* found free (proxies.py:3-6, 133-148).
THEOREM TakesTurns == Spec => []RotatesFairly
  <1>1. Inv => RotatesFairly
    <2> SUFFICES ASSUME Inv, NEW s \in Scrapers, NEW p \in Proxies,
                        NEW q \in waiting[p] \ behind[s]
                 PROVE  Next_Proxy(s) # p
      BY DEF RotatesFairly
    <2>1. /\ q \in FreeFor(s) /\ q \in Proxies /\ Ahead(q) < Ahead(p) /\ cursor \in Proxies
          /\ p # Direct
      BY PoolAssumption DEF Inv, PoolInv, PoolTypeOK, InTurn, FreeFor, Free, Proxies
    <2>2. p \notin FirstFree(s)
      <3>1. Ahead(q) \in Nat /\ Ahead(p) \in Nat  BY <2>1, AheadOnce
      <3> QED BY <2>1, <3>1 DEF FirstFree
    <2>3. Next_Proxy(s) \in FirstFree(s) \cup {Direct}  BY DEF Next_Proxy
    <2> QED BY <2>1, <2>2, <2>3
  <1> QED BY <1>1, Invariance, PTL
===============================================================================
