------------------------------ MODULE ScrapeDesk ------------------------------
(***************************************************************************)
(* The scrapers: BookmakerScraper.run with its BackoffState (base.py), the *)
(* fetches of PinnacleScraper and TheOddsApiScraper, proxied_get_sync over  *)
(* the shared pool, the OddsBus they publish on, and the coordinator that  *)
(* starts and stops them.  What they store is Decide's Listing and Scraped. *)
(*                                                                          *)
(* Time is left out: an interval, doubled or not, and a cooldown end at    *)
(* some time.                                                              *)
(***************************************************************************)
EXTENDS ProxyPool

CONSTANTS
    SportsOf,    \* scraper -> how many sports one run fetches
    GetsOf,      \* scraper -> GETs per sport
    Raising,     \* scrapers whose _fetch_once lets an error through: neither of the two
    Keyed,       \* scrapers with an API key that may be rejected
    Retries,     \* max_retries of proxied_get_sync
    OfflineAfter, \* failures in a row that take a scraper offline: 5
    QueueSize    \* of a subscriber of the bus

ASSUME ScrapeAssumption ==
    /\ Retries \in Nat \ {0} /\ OfflineAfter \in Nat \ {0} /\ QueueSize \in Nat
    /\ SportsOf \in [Scrapers -> Nat] /\ GetsOf \in [Scrapers -> Nat \ {0}]

VARIABLES
    scraper,     \* each scraper's task
    backoff,     \* its BackoffState
    disabled,    \* _api_key_disabled
    queued,      \* snapshots in the queue of a subscriber that may not read it
    phase
deskVars == <<scraper, backoff, disabled, queued, phase>>
vars == <<poolVars, deskVars>>

Tired == OfflineAfter + 1   \* bound: failures beyond are counted as this many

Looping == [pc |-> "loop", sports |-> 0, gets |-> 0, tries |-> 0, proxy |-> Direct]
Rested  == [failures |-> 0, offline |-> FALSE]

TypeOK ==
    /\ PoolTypeOK
    /\ \A s \in Scrapers :
          /\ scraper[s] \in [pc : {"loop", "cooling", "sport", "pick", "lock", "get", "persist", "rest", "ended"},
                             sports : 0 .. SportsOf[s], gets : 0 .. GetsOf[s], tries : 0 .. Retries,
                             proxy : Proxies \cup {Direct}]
          /\ backoff[s] \in [failures : 0 .. Tired, offline : BOOLEAN]
          /\ backoff[s].offline => backoff[s].failures >= OfflineAfter
          /\ s \notin Raising => backoff[s] = Rested
    /\ disabled \in SUBSET Keyed
    /\ queued \in 0 .. QueueSize
    /\ phase \in {"running", "stopping"}

DeskInit ==
    /\ scraper = [s \in Scrapers |-> Looping]
    /\ backoff = [s \in Scrapers |-> Rested]
    /\ disabled = {} /\ queued = 0 /\ phase = "running"

Init == PoolInit /\ DeskInit

At(s, pc)   == scraper[s].pc = pc
Goto(s, pc) == scraper' = [scraper EXCEPT ![s].pc = pc]

-----------------------------------------------------------------------------
(* BackoffState *)

Success(s) == backoff' = [backoff EXCEPT ![s] = Rested]

FailureUncounted(s) ==                    \* mutant: a failure is treated as a success
    backoff' = [backoff EXCEPT ![s].offline = TRUE]

Failure(s) ==
    LET n == IF backoff[s].failures < Tired THEN backoff[s].failures + 1 ELSE Tired
    IN  backoff' = [backoff EXCEPT ![s] = [failures |-> n, offline |-> n >= OfflineAfter \/ @.offline]]

\* 600 s after the failure, in whatever wait the scraper is.
OfflineExpires(s) ==
    /\ backoff[s].offline /\ ~At(s, "cooling")
    /\ backoff' = [backoff EXCEPT ![s].offline = FALSE]
    /\ UNCHANGED <<poolVars, scraper, disabled, queued, phase>>

-----------------------------------------------------------------------------
(* BookmakerScraper.run *)

Ends(s) ==
    /\ At(s, "loop") /\ phase = "stopping"
    /\ Goto(s, "ended")
    /\ UNCHANGED <<poolVars, backoff, disabled, queued, phase>>

GoesOffline(s) ==
    /\ At(s, "loop") /\ phase = "running" /\ backoff[s].offline
    /\ Goto(s, "cooling")
    /\ UNCHANGED <<poolVars, backoff, disabled, queued, phase>>

Cooled(s) ==
    /\ At(s, "cooling")
    /\ Goto(s, "loop")
    /\ backoff' = IF phase = "stopping" THEN backoff
                  ELSE [backoff EXCEPT ![s].offline = FALSE, ![s].failures = 0]
    /\ UNCHANGED <<poolVars, disabled, queued, phase>>

\* A disabled scraper runs without fetching and reports a success.
StartRun(s) ==
    /\ At(s, "loop") /\ phase = "running" /\ ~backoff[s].offline
    /\ scraper' = [scraper EXCEPT ![s] = [Looping EXCEPT !.pc = "sport",
                       !.sports = IF s \in disabled THEN 0 ELSE SportsOf[s]]]
    /\ UNCHANGED <<poolVars, backoff, disabled, queued, phase>>

RunSucceeds(s) ==
    /\ At(s, "sport") /\ scraper[s].sports = 0
    /\ Goto(s, "rest") /\ Success(s)
    /\ UNCHANGED <<poolVars, disabled, queued, phase>>

IntervalOver(s) ==
    /\ At(s, "rest")
    /\ Goto(s, "loop")
    /\ UNCHANGED <<poolVars, backoff, disabled, queued, phase>>

-----------------------------------------------------------------------------
(* _fetch_once, _get_json and proxied_get_sync *)

NextSport(s) ==
    /\ At(s, "sport") /\ scraper[s].sports > 0
    /\ scraper' = [scraper EXCEPT ![s].pc = "pick", ![s].gets = GetsOf[s], ![s].tries = Retries]
    /\ UNCHANGED <<poolVars, backoff, disabled, queued, phase>>

AskPool(s) ==
    /\ At(s, "pick")
    /\ ReadClock(s)
    /\ Goto(s, "lock")
    /\ UNCHANGED <<backoff, disabled, queued, phase>>

Pick(s) ==
    /\ At(s, "lock")
    /\ HandOut(s, Next_Proxy(s))
    /\ scraper' = [scraper EXCEPT ![s].pc = "get", ![s].proxy = Next_Proxy(s)]
    /\ UNCHANGED <<backoff, disabled, queued, phase>>

\* done with the sport
NextIs(s) ==
    scraper' = [scraper EXCEPT ![s] = [Looping EXCEPT !.pc = "sport", !.sports = scraper[s].sports - 1]]

\* the sport is given up: logged and passed over, unless the scraper lets it through
SportFails(s) ==
    IF s \in Raising
    THEN /\ scraper' = [scraper EXCEPT ![s] = [Looping EXCEPT !.pc = "rest"]]
         /\ Failure(s)
    ELSE NextIs(s) /\ UNCHANGED backoff

\* 200: the next GET of the sport, or what was fetched is stored
Answered(s) ==
    /\ At(s, "get")
    /\ MarkSuccess(scraper[s].proxy)
    /\ scraper' = [scraper EXCEPT ![s].gets = @ - 1, ![s].tries = Retries, ![s].proxy = Direct,
                                  ![s].pc = IF scraper[s].gets = 1 THEN "persist" ELSE "pick"]
    /\ UNCHANGED <<backoff, disabled, queued, phase>>

\* any other status that does not count as a block
Refused(s) ==
    /\ At(s, "get")
    /\ MarkSuccess(scraper[s].proxy)
    /\ SportFails(s)
    /\ UNCHANGED <<disabled, queued, phase>>

\* Nothing is on offer: the sport is passed over without a write.
NothingListed(s) ==
    /\ At(s, "get") /\ scraper[s].gets = 1
    /\ MarkSuccess(scraper[s].proxy)
    /\ NextIs(s)
    /\ UNCHANGED <<backoff, disabled, queued, phase>>

\* 401, or any error whose text has a 401 in it.
KeyRejected(s) ==
    /\ At(s, "get") /\ s \in Keyed
    /\ \/ MarkSuccess(scraper[s].proxy)
       \/ scraper[s].tries = 1 /\ MarkFailure(scraper[s].proxy)
    /\ disabled' = disabled \cup {s}
    /\ scraper' = [scraper EXCEPT ![s] = [Looping EXCEPT !.pc = "sport"]]
    /\ UNCHANGED <<backoff, queued, phase>>

\* an exception or a blocked status: the next proxy, or the last answer stands
Blocked(s) ==
    /\ At(s, "get")
    /\ MarkFailure(scraper[s].proxy)
    /\ IF scraper[s].tries > 1
       THEN /\ scraper' = [scraper EXCEPT ![s].pc = "pick", ![s].tries = @ - 1, ![s].proxy = Direct]
            /\ UNCHANGED backoff
       ELSE SportFails(s)
    /\ UNCHANGED <<disabled, queued, phase>>

-----------------------------------------------------------------------------
(* _persist_*: published snapshot by snapshot, committed once *)

PublishedWaiting == queued < QueueSize /\ queued' = queued + 1   \* mutant: waits for room

Published == queued' = IF queued < QueueSize THEN queued + 1 ELSE queued

\* committed, or lost to a busy database after it was published
Persist(s) ==
    /\ At(s, "persist")
    /\ Published
    /\ NextIs(s)
    /\ UNCHANGED <<poolVars, backoff, disabled, phase>>

SubscriberReads ==
    /\ queued > 0 /\ queued' = queued - 1
    /\ UNCHANGED <<poolVars, scraper, backoff, disabled, phase>>

-----------------------------------------------------------------------------
(* ScrapingCoordinator.stop: the flags, then ten seconds, then a cancel *)

Stop ==
    /\ phase = "running" /\ phase' = "stopping"
    /\ UNCHANGED <<poolVars, scraper, backoff, disabled, queued>>

Cancel(s) ==
    /\ phase = "stopping" /\ ~At(s, "ended")
    /\ Goto(s, "ended")
    /\ UNCHANGED <<poolVars, backoff, disabled, queued, phase>>

\* The process starts again, with another key.
Restart ==
    /\ phase = "stopping" /\ \A s \in Scrapers : At(s, "ended")
    /\ scraper' = [s \in Scrapers |-> Looping] /\ backoff' = [s \in Scrapers |-> Rested]
    /\ disabled' = {} /\ queued' = 0 /\ phase' = "running"
    /\ cursor' = 0 /\ failures' = [p \in Proxies |-> 0] /\ parked' = [p \in Proxies |-> FALSE]
    /\ behind' = [s \in Scrapers |-> {}] /\ waiting' = [p \in Proxies |-> {}]

Run(s) ==
    \/ Ends(s) \/ GoesOffline(s) \/ Cooled(s) \/ StartRun(s) \/ RunSucceeds(s) \/ IntervalOver(s)
    \/ NextSport(s) \/ AskPool(s) \/ Pick(s) \/ Persist(s)
    \/ Answered(s) \/ NothingListed(s) \/ Refused(s) \/ KeyRejected(s) \/ Blocked(s)

Next ==
    \/ \E s \in Scrapers : Run(s) \/ OfflineExpires(s) \/ Cancel(s)
    \/ \E p \in Proxies : CooldownEnds(p, {s \in Scrapers : At(s, "lock")}) /\ UNCHANGED deskVars
    \/ SubscriberReads \/ Stop \/ Restart

Spec == Init /\ [][Next]_vars

\* The tasks go on, every GET ends and every wait is over some time.  Nothing is
\* assumed of answers, of cooldowns of proxies or of the subscriber.
FairSpec == Spec /\ \A s \in Scrapers : WF_vars(Run(s)) /\ WF_vars(Cancel(s))

-----------------------------------------------------------------------------
\* Every scraper starts a run again and again until the process is told to stop,
\* whatever fails, is parked or is not read (base.py:3-5, odds_bus.py:3-4).
KeepsTrying ==
    \A s \in Scrapers : []<>(At(s, "sport") \/ phase = "stopping")
===============================================================================
