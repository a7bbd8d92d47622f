# A TLA+ verification of the trading backend

The backend is one Python process: a FastAPI application and a dozen asyncio
tasks that share one SQLite file and one account at the Polymarket CLOB. It
scrapes bookmaker odds, compares them with Polymarket prices, buys outcome
tokens whose expected value is high enough and sells them again.

The specifications follow that path: what a filter subscribes to and which
prices are stored (MarketFeed), which bookmaker event is which Polymarket event
(Matching), which decision comes out of odds and prices (Decide), what happens to a
BUY and to the position it opens (EntryDesk, ExitDesk); beside it the scrapers and
their proxies (ScrapeDesk) and the vault, wallet and balance cache (Wallet).
Everywhere the tasks are interleaved at every `await`, calls fail or are late, and
the process may die. All paths are relative to the repository.

## 1. The system

| Component | State | Operations | Talks to |
|---|---|---|---|
| SQLite sessions (`backend/db.py`) | committed rows; one writer's transaction | SELECT, flush, commit, rollback, busy timeout | every task |
| Ledger (`backend/models.py`) | `orders`, `positions`, `bot_state`, `decision_log` | rows written by the tasks below | - |
| CLOB client (`polymarket/clob_client.py`) | none (a balance cache) | `place_limit_order`, `get_order`, `cancel_order`, `get_usdc_balance` | CLOB, vault |
| Trading engine (`engine/trading.py`) | decision cursor, in memory | cycle every few seconds: decisions -> BUY orders | ledger, risk gate, CLOB |
| Order poller (`engine/trading.py`) | none | every 3 s: ask for each live order, record fills, cancel stale ones; sweep on shutdown; reconcile on start | ledger, CLOB |
| Position manager (`engine/position_manager.py`) | none | every 15 s: stop-loss, kickoff and convergence exits | ledger, snapshots, CLOB |
| Manual close (`api/orders.py`) | one request | exit one position at the bid | the same |
| Risk gate and monitor (`positions/risk.py`, `engine/risk_monitor.py`) | none | check before a BUY; check every 60 s; pause the bot | ledger |
| Bot switch (`api/bot.py`) | the `bot_state` row | `PATCH /bot/state` | risk monitor and engine, through the row |
| Vault (`crypto/vault.py`, `api/auth.py`) | the key, in memory | unlock at login, lock at logout | everything that signs |
| Lifecycle (`main.py`, `app.py`) | the tasks | start, graceful stop | all |
| Watcher, tree, resolver (`polymarket/`) | subscriptions, dedupe set | price stream -> snapshots | odds bus |
| Retention, odds bus (`engine/`) | queues | delete old snapshots, fan out prices | - |
| Decision engine, EV (`engine/decision.py`, `ev.py`) | debounce | odds + prices -> `decision_log` | snapshots, matcher |
| Matcher (`matcher/`) | `event_matches` | pair bookmaker and Polymarket events | - |
| Scrapers, proxies (`scrapers/`) | backoff, parked proxies | odds -> snapshots | network |
| APIs, frontend, migrations, scripts | - | views and edits of single rows | - |

What is hard here, in the order of what it costs when it goes wrong:

* Every task reads, awaits and then acts on what it read; between the read and
  the act any other task may commit.
* SQLite reads are autocommitted, so two SELECTs of one task see two different
  databases. The first flush takes the write lock, which is then held across the
  CLOB call; everybody else reads the committed state, or times out.
* The CLOB's effect and the database's commit are not atomic: a crash, a locked
  vault or a busy database rolls back the rows of orders that exist.
* The CLOB's answers are late, missing, or lost after taking effect.
* A position is sold through a sequence of exits, each possibly cancelled after
  a partial fill, and its size and profit must survive all of them.
* Everything stale must end some day, and a bot that loses too much must stop.

`PROJECT.json` lists these as hazards at the lines where they bite, with the
properties that guard them.

Properties that make each component correct:

* ledger, poller, exits - fills are never invented, dropped or counted twice,
  history is not rewritten, no position has two exits, nothing is sold that was
  not bought, stale orders end, no live order is unknown;
* entry side - caps and limits hold, no token is bought again by a later batch of
  decisions, every accepted BUY has a row, only the user un-pauses, losses do pause;
* watcher, tree, resolver, retention - what the user ticks is what is subscribed, the
  subscription follows filters and events, the newest snapshot is the last price
  heard, and every stored price belongs to a known token;
* matcher - once the sources stand still, every event is matched with its best candidate;
* decision engine - a BUY has a book behind it whose odds justify the price, and
  one cycle never buys two sides of a game for a dollar or more;
* scrapers, proxies, bus - no failure, parked proxy or unread queue stops a scraper for
  good, and requests are spread over the proxies;
* vault, wallet, balance - stored secrets can be decrypted by whoever can log in, and
  a balance is that of the current wallet.

## 2. Modules

```
Sessions                      SQLite: db / tx / writer
 +- TradeDb                   orders, positions, CLOB, vault; what handlers write
 |   +- OrderPoller           TradingEngine._order_poller, shutdown sweep
 |   +- ExitManager           PositionManager._cycle, manual_close_position
 |       \- ExitDesk          both of them + CLOB + restart; properties
 |           +- MCExitDesk    TLC instances
 |           +- ExitDeskProofs       types, ledger behind the CLOB, no share vanishes
 |           |   \- ExitHistoryProofs     history, refinement, books, overselling
 |           \. Portfolio     the abstract specification (by INSTANCE)
 \- BotDb                     BUY lots, BotState, risk limits
     +- EntryEngine           TradingEngine._cycle
     +- BotControl            RiskMonitor._cycle, PATCH /bot/state
         \- EntryDesk         all three + commits of the exit side; properties
             +- MCEntryDesk   TLC instances
             \- EntryDeskProofs  theorems

Catalog                       Gamma's pages, sport and league, what filters resolve to
 \- MarketFeed                watcher, tree refresh, filters, retention; properties
     +- MCMarketFeed          TLC instance
     \- MarketFeedProofs      theorems
Matching                      EventMatcher and what it matches
 \- Decide                    DecisionEngine and ev.py on top of it; properties
     +- MCDecide              TLC instances
     \- DecideProofs          theorems about both
ProxyPool                     next_proxy, mark_failure, mark_success
 \- ScrapeDesk                scrapers, backoff, bus, coordinator; properties
     +- MCScrapeDesk          TLC instance
     \- ScrapeDeskProofs      theorems
Wallet                        vault, login, wallet endpoints, balance cache; properties
 +- MCWallet                  TLC instance
 \- WalletProofs              theorems
SumProofs                     finite sums, recursion over indices; ExitDeskProofs,
                              EntryDeskProofs, MarketFeedProofs, DecideProofs extend it
```

Operators that end in a word like `Forgetting` or `Trusting` and are commented
"mutant" are wrong versions of the definition below them. No specification uses
them; substituting one shows that the property it is paired with in
`PROJECT.json` depends on the code being as it is.

### Sessions
`db` is what is committed, `writer` the task whose session holds the write lock
and `tx` what that session sees. `View(task)` is a SELECT, `Write` a flush,
`Commit`/`Rollback` the end of a transaction, `Transact` a flush and commit
without an await between them, `LockedOut` the state in which busy_timeout (5 s)
may raise "database is locked". When nobody writes, `tx = db`.
SQLAlchemy sessions keep the rows they loaded (identity map): where the code
uses an attribute loaded before an await, the model keeps it in the task's
record (`manager.exits`, `closer[c].exit`, `monitor.running`, `user.bot`).

### TradeDb
The rows of `orders` and `positions` with the columns that matter: status,
token, CLOB id, size, filled size, price, stale policy (`policy` is "cancel" for
a stop-loss exit and "ride" for the others); status, remaining size,
`exit_order_id`, partial and final profit. `clob` is the exchange's own record
of each order, with a ghost, `stray`, for those whose answer was lost or whose row a
crash cut off before its commit. `MarkPartial`, `MarkFilled`, `MarkPartialCancelled`,
`MarkCancelled` are the four handlers of the same name in `trading.py`, as functions
from database to database. `SubmitExit` and `PlaceOrder` are the two halves of
`submit_exit_order`: insert + link + flush, and the CLOB's answer, which may be lost
after the order was listed: `place_limit_order` makes a failure of that.

### OrderPoller
`poller.todo` is the result of the one SELECT of a poll: the `PollLimit` oldest live
orders (`OldestOf`). Row ids of SELLs are given in the order of their inserts, which
the write lock makes the order of `submitted_at`; BUYs are older than SELLs and
among themselves in any order. Per order: `PollNoEcho`
(404 or exception), `PollCanceled`, `PollFilled`, `PollLive` (the branches
"matched" and "live" write the same), then `CancelAcked`/`CancelNotAcked` for a
stale one. `PollCommit` is the commit at the end, `PollAbort` the exception that
undoes the poll. `ShutdownStart`, `SweepAcked`, `SweepNotAcked`, `SweepEnd` are
`run()`'s finally block.

### ExitManager
`CycleStart` loads the positions; `CheckExit` is the exit_order_id test on the
loaded row, `Refresh` the re-read of `_evaluate_position`, `Exit`/`Hold` its
outcome - the three exit rules are a choice, made from prices this module does
not have - and `Place` the CLOB's answer. The cycle commits once, at its end. A
close request `c` runs `CloseRead`, `CloseCheck`, `CloseSubmit`, `ClosePlace`,
`CloseCommit`, with `CloseGiveUp` for its early returns.

### ExitDesk
Takes over after the engine's commit: one submitted BUY per token. Adds the
exchange (a live order is matched share by share or delisted), logins and
logouts, and `Restart`, which is a crash or the start after a graceful stop and
includes `_reconcile_orphans_on_start`. That reconciliation looks for committed
PENDING_SUBMIT rows; since the insert and the answer are always committed
together there are none, so it never changes anything.

### Portfolio
What the exit side promises, without orders, sessions or tasks: a holding is
opened once, sold off in parts, closed with its last share, and its profit is
the sum of the parts. ExitDesk implements it (`ImplementsPortfolio`): the
holding of a token is its committed Position, its profit `partial_realized_pnl`
while it is OPEN and `pnl_usd` when it is CLOSED.

### BotDb, EntryEngine, BotControl, EntryDesk
A lot is a BUY order together with the position it opens: PENDING_SUBMIT,
SUBMITTED (which stands for PARTIAL too), HELD, SOLD, CANCELLED, FAILED, and UNHEARD for
an order that the CLOB took and whose answer was lost (`Unheard`). The program writes
FAILED for it, and every operator treats it so: it is outside the cap, the dedupe and the
exposure. What becomes of it at the CLOB nobody in the program learns, and the model does
not follow it. `placed` is a ghost, the orders the CLOB took, and `dropped` those of them
whose uncommitted row a crash rolled back.
`check_risk` is two reads, `RiskPositions`/`MonitorPositions` and then the
verdict, because the poller commits in between; its reads of pending BUYs and of
the day's profit are one. The engine's `ReadOrders`, `ReadPositions`, `ReadBuys`
are its three snapshots; `cursor` is `_last_decision_id`. `Patched` writes only
the attributes that differ from the loaded row, as the ORM does. The exit side
is reduced to the commits by which it moves a lot on (`LotsMove`) and to the
write lock it holds meanwhile (`Busy`, `Freed`), on which a cycle of the engine, a
pause or a PATCH may time out.

### Catalog, MarketFeed
`Page` is one answer of Gamma's `/events`, by offset over the events open at that
moment; `fetch[f]` is the loop of `fetch_sports_events` in each of its three callers, a
page per await, so that events open and close while it runs. `Resolve` is
`resolve_subscriptions`, `PickSport` and `PickLeague` the classification of `tree.py`, and
`OffersOf` the filters that the tree shows for an event. `watcher` is where
`_cycle` is (resolve, persist, connect, stream, idle, then the backoff of `run()`), `check` where
`_periodic_resubscribe_check` is; "dead" is the check task ended by an exception
while the stream lives on. `Heard` is `_handle_msg` up to the dedupe by
`_last_persisted`, `SnapshotWritten`/`SnapshotLost` the write in `_emit`. The snapshots of a
token are represented by the newest one; `SnapshotAges` and `Purge` are the two-hour
retention. Ghosts: `heard`, `excused` (a token whose newest price was lost or
purged), `unlisted` (a token whose upsert failed).

### Matching, Decide
Matching keeps `external_events` (`start`: the kickoff of each row, empty before it is
scraped) and `event_matches`, with `MatcherReads` and `MatcherWrites` as the two ends of a
cycle. `Similar[a][b]` is the similarity of name `a` to name `b` in percent; the score is
kept squared and scaled by the window, so that the geometric mean and the tempo factor are
exact integers. The scraped events are a sequence in the order of their ids, and `Rematched`
is the loop over them: `Meets` is where `best_by_source` gets an entry, whose upsert
`Upsert` (ON CONFLICT DO UPDATE per event and source) writes. `caughtUp` is a ghost: nothing
changed since the last committed cycle began.

Decide adds the newest snapshot of each book and outcome (`odds`), of each token (`poly`)
and the engine's cycle, one step per SELECT: `LoadMatches`, `LoadEvents`, then
per event the window gate (`PassWindow`, `Enter`), the odds of each match (`ReadOdds`),
`Devigged` for `_devigged_probs_by_book`, and `Evaluate` per token with the gates of
`Verdict` in their order. `Devig`, `Consensus` and `Side` are `ev.py` in whole percent
and permille, rounded down. Of the log only the BUYs of the last committed cycle are kept,
each with the rows and the matches it was decided on. Scrapers (`Scraped`) and watcher
(`Priced`) write between any two steps of a cycle.

### ProxyPool, ScrapeDesk
Scrapers call the pool from threads. Every operation of it holds its lock and is one step,
but `next_proxy` reads the clock before it takes the lock, so it is two: `ReadClock`
(`AskPool`) and `HandOut` (`Pick`). `behind[s]` are the proxies whose cooldown ended
after `s` read the clock; for `s` they are still parked. `waiting[p]` is a ghost: the
proxies not handed out since `p` last was, and free on the clock of every caller since. ScrapeDesk has `BookmakerScraper.run` with its backoff, the sports and
GETs of a run, `proxied_get_sync` with its retries (`Pick`, then one of `Answered`, `Refused`,
`NothingListed`, `KeyRejected`, `Blocked`), `Persist` with the publish on a bounded queue, and
`Stop`/`Cancel`/`Restart`. Time is left out: an interval, a cooldown and the offline
pause end at some time. `Raising` are scrapers whose `_fetch_once` lets errors
through. Neither of the two in the repository does, so their failures never
reach the backoff (`TypeOK` says so); one that does is included to exercise
`base.py`. `OfflineAfter` is 5 in the code.

### Wallet
A key is the pair of password and salt. `setup` writes two files without an await, so only a
crash cuts it: `SetupCrashes` leaves a missing, torn or written file. A PUT or DELETE of
the wallet is load, commit, invalidate; an UPDATE writes the columns that differ from the
loaded row. A reader is a call of `get_usdc_balance`: ask the cache, load the
credentials, fetch, store. Ghosts: `aged` (30 s pass while it fetches), `raced` (the
wallet changed meanwhile).

## 3. Runs

All with deadlock checking: no state of any instance is without a successor.

| Run | Instance | What it shows |
|---|---|---|
| ExitFaults | 1 token, 2 SELLs, 2 shares, all seven faults, 227,628 states | types; every in-flight SELL is linked to an OPEN position (`ExitLinked`); the ledger never exceeds the CLOB (`LedgerNeverAhead`); every live order is known, or its answer was lost or its row cut off by a crash (`LiveOrdersKnown`); finished orders and closed positions stay as they are (`HistoryStands`); exits only of OPEN positions; refinement of Portfolio |
| ExitShares | 1 token, 3 SELLs, 3 shares, 2 prices, stale cancels and logout, 1,052,544 states | shares and profit on record balance over any sequence of cancelled exits (`BooksBalance`); no exit offers a share that is on record as sold or already on offer (`NoOversell`) |
| ExitClosers | 2 tokens, one close request, delisting, 1,792,116 states | with two SELLs racing for one position, still no share leaves without a fill on record (`NoShareVanishes`), and what the exchange cancelled is on record with its fill (`CancelledFillsRecorded`) |
| ExitLive | 2 tokens, 2 SELLs, polls of one order, ageing and missing answers, 246,072 states | `CancelledOrDone` under fairness |
| EntryDesk | 4 decisions, three for one token, two of them in one batch, batches of 2, cap 2, crashes, lost answers, 1,832,328 states | types, `ConcurrencyCap`, `OneBatchPerToken`, `PlacedIsRecorded` under crashes |
| EntryControl | 2 decisions, monitor, user, lost answers, logout, cancels, closes, midnight, busy database, 1,388,488 states | `PlacedIsRecorded` under a busy database, `NoSelfUnpause` |
| EntryLive | 1 decision, closes, user, midnight, busy database, 6,344 states | `DrawdownPauses` under fairness |
| Feed | 2 events of 2 tokens, pages of 1, 1 change, 1 fault, 248,024 states | `NewestIsLastHeard`, `PricedTokensAreListed`, `TicksAreWatched`; `FollowsFilters` under fairness |
| Decide | 1 game, 2 sources that share a book, 3 external events, prices that change in a cycle, 1,834,901 states | `BuysAreBacked`, `NeverBothSides`, `MatchesBest` |
| Scrape | 2 scrapers, 2 proxies, 485,848 states | `RotatesFairly`; `KeepsTrying` under fairness |
| Wallet | 2 passwords, 2 salts, 2 wallets, 2 requests, 1 reader, 1,663,478 states | `SecretsOpen`, `CacheIsOfWallet` |
| SwappedSides | Decide with the teams of one source the other way round | violation of `EveryBuyIsBacked`, section 7 |

### Bounds and why they are enough
* `SellIds`, `SellPms`: row ids and CLOB ids are used up, never reused. Two SELLs
  give one exit that is cancelled and one that follows it, three a position sold
  in three parts.
* `Lot` 2 or 3: a fill may be none, partial or whole before and after each of
  two reads; with three shares a position survives two partial exits.
* `Prices {1, 3}` around `Entry = 2`: a loss and a gain, so that sums of profits in
  the wrong order or dropped ones show. Elsewhere one price.
* Tokens: the tasks of the exit side treat positions independently except for the
  shared transaction; two tokens (ExitClosers) put two positions in one poll
  and in one cycle. `ImplementsPortfolio` is stated for several holdings per commit.
* `PollLimit`, `BatchLimit`: 20 in the code. A poll of one order (ExitLive) is what an
  exit that rides can fill; elsewhere a poll takes two of at most three live orders. A
  batch of two with four decisions, for tokens a, b, a, a, gives a second batch: its
  decisions are both for the token the first batch has bought, and for one that a crash,
  a lost answer or a cancel has freed. The cursor starts again after a crash.
* `Decisions`, `LotIds`: as many row ids as decisions; two tokens with a cap of two, which
  both bought, or one bought twice, meet; `MaxPlaced = 2` lets an order be placed twice for
  one token, within a batch or by a later one.
* Amounts of money are 1 per stake and per loss; a limit of 1 or 9 is one that the
  second stake meets, or none does.
* `SYMMETRY` is over the ids of the CLOB and of BUY rows, which nothing orders, and
  not in the runs with liveness.
* Feed: pages of one put every await of a fetch between two events; three pages and
  three tokens (`MaxPages`, `MaxTokens`) cut the second of two events of two tokens, as the
  limits of the code would. One change (an event, the filters, the tree) and one
  failure at any moment; the property about prices is about one token (`Quoted`) with two
  quotes that share their bid. The tags cover a sport given by two slugs and the
  generic slug that a specific one supersedes.
* Decide: one event, two kickoffs one apart in a window of two and a horizon that the clock
  crosses; three external events, two of one source, so that a better candidate replaces a
  worse; two writes, each a market out of a balanced, a skewed and a partial one, by a book of one
  source or by one that both have, or the other price of a token; prices on
  both sides of the edge, with and without depth; odds as old as the cycle is (`MaxAge = 0`).
* Scrape: the pool needs two proxies to prefer one wrongly; a threshold of two separates
  a failure from a parking, two retries the next proxy from the last answer. One
  sport and one GET per run: a second of either repeats the same steps.
* Wallet: two of everything that could be confused - the right and a wrong password, the
  salt before and after a crash, the old wallet and the new, two requests in flight -
  and no bound on the number of steps.

### Fairness
The loops of poller, manager, engine and monitor catch every exception and start again, so
their steps are weakly fair; a close or PATCH request runs to its end. Time passes (`Age`).
Three steps are strongly fair, and they are assumptions about the environment: a CLOB that
is asked again and again to cancel a live order eventually does (`CancelAcked`); a write
lock that the monitor waits for is, sooner or later, let go within the busy timeout (`Freed`
while it waits), and then taken (`MonitorVerdict`). Without them the poller may for ever be
told no, and a poll may hold the lock at every single check of the monitor. Nothing is
assumed of the user, of fills, of the vault being locked (the liveness runs exclude a
logout: a locked vault rightly stops the poller) or of the process being restarted. Exits
that ride may stay open for ever by design, so `CancelledOrDone` does not speak of them, nor
of an order that `PollLimit` older ones of them keep out of every poll.

Feed: the fetches, the watcher, its check and the write of a snapshot go on
(`run()` catches everything; the check task does not, and dies by an action without
fairness). A stream that the check has closed ends, under strong fairness, because only
the messages received before the close are still handled. Nothing is assumed
of prices, failures, the user or Gamma, whose changes are bounded. Scrape: each
scraper's task goes on, every GET ends in some way (`requests` has a timeout), and a
cancelled task ends. Nothing is assumed of answers, of cooldowns of proxies or of
a subscriber that reads its queue.

## 4. Abstractions

* A fill happens at the limit price, so `filled_avg_price` is the order's price.
  Sizes are whole shares; the rounding of sizes to cents is left out.
* An answer of `get_order` and the writes it causes are one step. The row's
  `last_polled_at` is set before anything else, so the session's next statement
  flushes it and takes the write lock: the poll takes it with the first answer.
* The knobs of BotState are constants; only `is_running` and whether a pause
  reason is set change.
* Decisions without a token or a price, which the engine skips, are not logged in
  the model. `Unplaceable` is any early return of `_place_for_decision`.
* A deleted wallet behaves like a locked vault at the call that needs it.
* Timestamps, messages, statistics and logging are left out.
* A price is a pair of bid and ask that a message names; parsing, book levels and depth are
  left out of MarketFeed. Decide takes depth as a number of dollars, 0 for NULL.
* Names are compared by a table of percentages, which stands for normalisation and
  rapidfuzz; odds are whole percent and probabilities permille, rounded down.
* The lengths of intervals, backoffs and cooldowns: each is over some time.
* The odds of one external event are read with `.limit(200)` (`decision.py:432`), newest
  first. `FreshOf` keeps the newest row per book and outcome of all of them: that 200 rows of
  the last quarter of an hour cut a book off is left out, and no property depends on it.
* `scrapes` bounds the writes of scrapers and watcher together.
* A 30-second cache is fresh or not; the clock of the wallet model is that one bit.

## 5. Proofs

All theorems hold for every value of the constants. They assume the named assumptions
of the modules that declare the constants - which TLC evaluates in the runs - and those of
the exit side a hypothesis about which requests or faults there are, which is part of the
theorem's statement. Every such hypothesis is needed: with one close request, or with the
faults it excludes, TLC finds the property violated. Adding them to the configuration of the
property's run shows it; section 7 says which of these the code's comments deny.

What the code cannot rule out is otherwise not assumed away but named in the property:
orders whose answer was lost (`stray`, UNHEARD) or whose row a crash rolled back (`stray`,
`dropped`), decisions of one batch (`OneBatchPerToken`), what a caller of the pool finds free
(`behind`), odds merged from several matches (`Backs`), a part of a market that passes for
the whole (`PartPasses`). The stricter property without the exception stands in the MC module
or in section 7, and TLC refutes it.

| Theorem | Property | Hypothesis |
|---|---|---|
| ExitDeskProofs!`TypeCorrect` | `TypeOK` | - |
| ExitDeskProofs!`NeverAhead` | `LedgerNeverAhead` | - |
| ExitDeskProofs!`EveryShareIsSold` | `NoShareVanishes` | - |
| ExitHistoryProofs!`ExitsAreLinked` | `ExitLinked` | no close requests |
| ExitHistoryProofs!`HistoryIsKept` | `HistoryStands` | no close requests |
| ExitHistoryProofs!`OnlyOpenPositionsAreSold` | `ExitsOnlyOpenPositions` | no close requests |
| ExitHistoryProofs!`LedgerIsPortfolio` | `ImplementsPortfolio` | no close requests |
| ExitHistoryProofs!`BooksAreBalanced` | `BooksBalance` | no close requests, not both "age" and "noEcho" |
| ExitHistoryProofs!`NothingOversold` | `NoOversell` | no close requests, not both "age" and "noEcho" |
| ExitHistoryProofs!`OrdersKnown` | `LiveOrdersKnown` | - |
| ExitHistoryProofs!`CancelledOrdersRecorded` | `CancelledFillsRecorded` | no "age", "shutdown" |
| EntryDeskProofs!`TypeCorrect` | `TypeOK` | - |
| EntryDeskProofs!`CapHolds` | `ConcurrencyCap` | - |
| EntryDeskProofs!`OnlyUserUnpauses` | `NoSelfUnpause` | - |
| EntryDeskProofs!`AcceptedIsRecorded` | `PlacedIsRecorded` | - |
| EntryDeskProofs!`OneBatchEach` | `OneBatchPerToken` | - |
| MarketFeedProofs!`TypeCorrect` | `TypeOK` | - |
| MarketFeedProofs!`SkippingHidesNothing` | `NewestIsLastHeard` | - |
| MarketFeedProofs!`PricesCanBeLookedUp` | `PricedTokensAreListed` | - |
| MarketFeedProofs!`TreeAgreesWithResolver` | `TicksAreWatched` | - |
| DecideProofs!`TypeCorrect` | `TypeOK` | - |
| DecideProofs!`BestMatches` | `MatchesBest` | - |
| DecideProofs!`AveragesInventNoEdge` | `BuysAreBacked` | - |
| DecideProofs!`FairValuesAddUp` | `NeverBothSides` | - |
| ScrapeDeskProofs!`TypeCorrect` | `TypeOK` | - |
| ScrapeDeskProofs!`TakesTurns` | `RotatesFairly` | - |
| WalletProofs!`TypeCorrect` | `TypeOK` | - |
| WalletProofs!`StoredSecretsOpen` | `SecretsOpen` | - |
| WalletProofs!`AnswersOfWallet` | `CacheIsOfWallet` | - |

TLC checks each of these properties in a run (section 3), on an instance that satisfies
the hypothesis, and each inductive invariant was checked there before it was proved.

### SumProofs
`SumFunctionOnSet` is defined in the community modules by a recursion over sets, and the
library's induction theorems take the statement as an operator, which the provers
cannot instantiate. Here induction is stated of a set of numbers: one that has 0 and a
successor with each member has all numbers (`Induction`). With it the recursion is
shown to have a solution, and sums get the facts everything else cites: the
empty sum, equal terms, one term more, a sum of naturals is one, terms no greater, a part of
the terms, terms added pairwise. A recursion over the indices of a sequence has a solution in
the same way (`StepsExist`), and a finite set of numbers has a least and a greatest.

### ExitDeskProofs
From `DbAssumption` (disjoint id sets, null values outside them, a positive lot,
natural prices):

* `Invariance`: `Spec => []Inv`
* `TypeCorrect`: `Spec => []TypeOK`
* `NeverAhead`: `Spec => []LedgerNeverAhead`
* `SharesInvariance`: `Spec => []SharesInv`, and from it
* `EveryShareIsSold`: `Spec => []NoShareVanishes`

`TypeOK` is not inductive. That a remaining size stays in `0 .. Lot` and that an
order's fill stays within its size needs the following chain, and that is `Inv`:

1. `GoodDb`: an OPEN position has a positive size, in the committed database and
   in the open transaction; an absent row has no CLOB id.
2. `ManagerInv`, `CloserOK`: a task between reading a position and inserting its
   SELL holds a positive size; between the insert and the answer it holds the
   write lock and its row is still `Fresh` (pending, no id, no fill), so nobody
   can have touched it.
3. `GoodClob`: a live order is matched below its size, a filled one is matched
   positively, an id not given is not matched.
4. `Behind`: every recorded fill is within what the CLOB matched, in `db` and in
   `tx`. Rolling a transaction back keeps it because it holds of `db` separately;
   matching keeps it because `matched` only grows.
5. `PollerInv`: every order of a poll has a committed CLOB id, which transactions
   keep (`KeepsIds`); while a cancel is under way the poller holds the lock and the
   fill it saw is still behind the CLOB.

The proof has a lemma per action, grouped by task, each showing the conjuncts of
`Inv` that action can disturb, and lemmas about what the four `Mark` operators
preserve. `TypeCorrect` and `NeverAhead` follow from `Inv`.

`SharesInv`, on top of it, gives `EveryShareIsSold` with any number of close requests, which
may well sell a position twice, and under every fault.

1. `Sound`, of the committed ledger and of the open transaction: a row has a token of a
   position that exists; two rows never share a CLOB id; the SELL that will close a
   position covers what is left of it (`Covers`); what is gone is on record (`Accounted`).
2. `Shrinks`: from `db` to `tx` positions only lose shares, so that what a task read
   of one still bounds what it may sell of the other.
3. What tasks carry across an await: the poller's orders are alive in both (`TodoInv`), the
   fill a cancel will record is the one on record (`CancelInv`), a size about to be sold
   is all that is left or more (`OffersInv`), and `PENDING_SUBMIT` is never committed
   (`PendingInv`).

Without `Covers` a SELL for less than a position could close it, and that is what
`OffersInv` and `Shrinks` are there to exclude.

### ExitHistoryProofs
What the other properties of the exit side need on top of `Inv` and `SharesInv`. With a
close request two SELLs for one position may be in flight, and of these properties only
`LiveOrdersKnown` and `CancelledFillsRecorded` hold.
Without, `HistoryInv` (`HistoryInvariance`) says of both views of the ledger:

* `LinksOK`: a SELL that is not terminal is the exit of an OPEN position, for all of it;
* `Advances(db, tx)` while the poller writes: each row went forward, each position was
  bought, or sold off by the one SELL under way; `Submits(db, tx)` while the manager
  does: rows were added and linked to OPEN positions, nothing else;
* `Remembers`: the manager's copy of `exit_order_id`, read at the start of its cycle, is
  the position's or the position has none by now, and the position it is about to exit
  has no SELL under way.

`ExitLinked`, `HistoryStands` and `ExitsOnlyOpenPositions` follow. For `LedgerIsPortfolio`
the initial state maps to the empty portfolio (`holding <- Holdings`) and a commit, being
an `Advances` or a `Submits`, to a purchase, a sale or a stutter for each token.

`BooksInv` adds that in both views what is held and what was sold make up the BUY's
fill, and the profit. It is kept because a position advances by exactly the fill of the SELL that
ended; only a stale order given up without an answer ends with a fill that is not the CLOB's.

`NoOversell` follows from the two: a position has at most one SELL under way, for all it
holds (`OneOffer`, from `LinksOK` and `NamesOK`: the CLOB lists what the row says), and what it
holds is what the books leave of the BUY's recorded fill (`OfferedIsHeld`).

`KnownInv` (a SELL the CLOB lists and that is no stray has its row, in the transaction that
would be committed next) and `RecordedInv` (a cancelled row has the CLOB's fill) hold with
close requests as well and give `OrdersKnown` and `CancelledOrdersRecorded`. The first is a
statement about rollbacks: only a task that does not hold the write lock can be told that
the database is busy, so no acknowledged order is ever rolled back but by the end of the process.

### EntryDeskProofs
From `BotAssumption` (finitely many lots, natural limits, positive stakes, null
values outside the sets they stand beside):

* `Invariance`: `Spec => []Inv`
* `CapHolds`: `Spec => []ConcurrencyCap`
* `OnlyUserUnpauses`: `Spec => NoSelfUnpause`
* `TypeCorrect`: `Spec => []TypeOK`
* `AcceptedIsRecorded`: `Spec => []PlacedIsRecorded`
* `OneBatchEach`: `Spec => []OneBatchPerToken`

The cap is not inductive: the engine decides by a number it computed from two
reads, some time ago, and what it decides about is its own open transaction.
`Counted` ties them together at every point of the cycle. Between the two reads
the pending BUYs are still among the orders that were read, because only the engine
adds any; with the positions read afterwards, and since a lot that fills
meanwhile moves from the first to the second, their number bounds the active lots.
From there nobody else adds an active lot, and each insert is paid for: it adds
one at a count below the cap, an accepted order adds one to the count, and a
refused one gives its lot back. `OpenTx` says that only the engine has changes in a
transaction that stays open across steps, that it begins a cycle with none, and
that it never switches the bot on in it; `NoSelfUnpause` needs only this last part,
and the way PATCH and the monitor write the row. `Shape` types everything but
the sums of notionals, which `TypeInv` adds.

The other theorems rely on what everybody but the engine does being gentle (`Gentle`, `Aside`):
they may move a lot on from SUBMITTED or HELD, but never open one or give one another token.

* `PlacedInv` counts the rows of accepted orders in the engine's transaction, where a row is
  PENDING_SUBMIT while its answer is awaited. Only the engine's abort or a crash could lose such a
  row; the abort happens to nobody who holds the write lock, and what a crash takes along is
  counted in `dropped`.
* `OneLotInv` says what keeps a token from being bought by a later batch: in the middle of a
  batch every active lot is for a token that was busy when the cycle read orders and positions,
  or answers one of the decisions that the batch has passed since (`Batch`). The first
  kind the dedupe excludes; what is left are decisions less than `BatchLimit` apart. That the
  orders are read before the positions is needed here too: a BUY that fills in between is
  seen at least once. After a crash the cursor is 0, and the same decisions are looked
  at again, against the rows that were committed; that a second row does not answer the
  same decision is part of it.

### MarketFeedProofs
From `CatalogAssumption` (sequences, positive page size and limits) and `FeedAssumption`
(the tokens a message may quote are among the catalogue's). `FeedInv` (`FeedInvariance`) has
four parts: types; a fetch belongs to the step its task is at; the tokens of an open stream
were upserted or are known not to have been; what is being written is the price last heard
of a token of the open stream. `TypeCorrect`, `SkippingHidesNothing` and
`PricesCanBeLookedUp` follow.

They need to know what the catalogue's operators return. `Chosen` (a filter) and
`FlattenSeq` recur over a sequence; by `Induction` they are shown to have values, which
are sequences over what they were given. `ResolvedMatch` is the resolver's
contract: it returns at most `MaxTokens` tokens, all of them of matching events of the fetched
ones. `TicksMatch`, from the definitions of sport and league, gives
`TreeAgreesWithResolver`: a leaf's league is one of its tags or "general".

### DecideProofs
From `MatchingAssumption` (similarities are percentages, kickoffs natural numbers, a positive
window) and `DecideAssumption` (natural weights and prices, positive odds, finitely many
books). `DecideInv` (lemma `Invariant`) has three parts.

1. `MatchInv`: every row of `event_matches` names an event of its source that some kickoff
   allows, one row per source, and `MatchesBest` itself, which is inductive with these.
   `RematchedRows` unfolds the loop over the scraped events (`Induction` on how many are
   done): once the lowest candidate of a source has been met its best one has its row, and
   no later upsert, being for another source, takes it away. That there is a best one is
   `GreatestValue` of the scores.
2. `OddsInv`: an outcome has one newest snapshot per book, and its odds are of a market that
   may be listed.
3. `EngineInv`: the rows that a cycle holds came from the matches it loaded; its
   probabilities are `ProbsByBook` of those rows.

`TypeCorrect` and `BestMatches` follow. The other two add what was decided.

`AveragesInventNoEdge`: a weighted average, rounded down, is not above the highest of its
terms (`SomeBookAgrees`), so one weighted book's devigged probability reaches the price
(`BuyIsBacked`). What that probability is a quotient of is `RawOf`, the odds as they were merged
over the matches. Where the book's odds come from one event (`TakenFrom`: no earlier
match has the book, every side it quotes is quoted there, its outcomes are different sides and
the token's side is the token's team) their total is the total of the event's own rows
(`OwnIsTaken`), and the book's own opinion reaches the price as well. Nothing is asked of how
the sources name, orient or complete their events. What a book's own odds say when they are
merged from two events or seen from the wrong side is not part of the property, and is not
true: SwappedSides and section 7.

`FairValuesAddUp`: the devigged probabilities of a book add up to at most 1000 permille
(`SharesAddUp`), hence so do averages of two different sides over the same books
(`FairsAddUp`), and two tokens bought at most at their fair value less the margin cost at most a
dollar less the margin (`PairIsCheap`). Two averages are over the same books only if every
weighted book has odds on both sides or on neither. A book with one of them passes the guard of
`ev.py:64-69` only with a favourite above 0.9, and that is `PartPasses`, the property's exception,
which can be read off the logged row (`PartsAreSeen`). `LogInv` carries the pair over the steps
between two tokens, in which the watcher may write other prices.

`DecideInv` was checked by TLC on the instance of the run Decide before it was proved.

### ScrapeDeskProofs
From `PoolAssumption` and `ScrapeAssumption`. `InTurn` is what makes the rotation fair:
everything that waits for a proxy that was handed out lies, on the ring, between the cursor
and that proxy. A caller takes the first one it finds free, and those it passes over are the ones
it believes parked (`behind`), which stop waiting. A proxy handed out becomes the last on the ring and everyone else moves up
by the same distance; parking takes a proxy from the waiting ones. The rest of the invariant
types scrapers and backoffs: a GET belongs to a sport that still has GETs and tries to go.

### WalletProofs
From `WalletAssumption` (distinct null values). `VaultInv`: a verifier was opened only after
a salt was written, and a whole one with the salt on disk; so a vault with a whole verifier
is set up and its key never changes. `SealedInv`: the row and every request that is about to
store one use that key. `CurrentInv`: a balance being fetched, and one in the cache, is the
current wallet's, or a change ran across it, or its wipe is still to come.

### Only model-checked
* Liveness, with fairness and ENABLED, is outside what the proof system does:
  `CancelledOrDone`, `DrawdownPauses`, `FollowsFilters`, `KeepsTrying`.

Every invariant and every action property of a passing run is stated by a theorem.

Induction over data is used only where it can be put as a set of numbers, as in SumProofs; no
module with a theorem reaches a RECURSIVE operator. For that reason Catalog defines `Chosen`
where `SelectSeq` would do, since no prover knows the latter, and BotDb adds notionals up with
`SumFunctionOnSet`.

## 6. What is not modelled, and why

* Prices at the exit side and the three exit rules: they decide whether the manager
  exits, and the model lets it exit or hold at any time.
* Rounding of sizes to cents and of stakes; the size of a stake beyond its being
  clamped.
* Parsing of titles, of Pinnacle's and The Odds API's answers and of websocket messages, the
  string similarity and the normalisation of names: pure text, with unit-testable results
  and no state.
* Statistics, counters and health displays of every task; the pruning of passes in
  `decision_log`, which nothing reads back.
* Read-only and configuration APIs (history, risk, decisions, watcher, scrapers, matcher),
  the frontend, settings, the on-chain balance call, migrations, smoke scripts:
  they keep no state that a trade depends on.
* The credential bootstrap of the CLOB client; subscribe and unsubscribe of the bus, which
  has no subscriber in the backend.
* Cryptography and HTTP: only whether the vault is unlocked, and how a call may end.

## 7. Where the code does not do what it says

One of these has a run. **SwappedSides** (`EveryBuyIsBacked`): the matcher scores both
orders of a pair of teams because "PM doesn't reliably encode which side is home"
(`matcher.py:97-100`), but a match keeps no orientation; `decision.py:444` maps every
outcome to home or away of its own external event and line 480 takes the token's
side from the canonical one. When the sources list the teams in opposite order, the
probability of one is averaged with that of the other, and a token is bought that no
book's own odds justify.

The others can each be seen by adding the property to the named configuration, with the
changes given:

* `OneLotPerToken` (in MCEntryDesk; EntryDesk.cfg): `trading.py:6-7` promises to dedupe
  against the `orders` table; the snapshot of lines 157-163 is not updated by the cycle's own
  orders. Decisions for one token in a batch are all bought, up to the cap, and as
  `decision.py` logs a token in every cycle, a batch after a restart or a pause has many.
  `OneBatchPerToken`, which is run, allows this and nothing else.
* `OneOrderPerToken` (in MCEntryDesk; EntryDesk.cfg): "we never even got an ack, so it's safe to
  drop" (`trading.py:608-609`); an exception after the POST (`clob_client.py:161-176`) makes a
  FAILED row of a BUY that the CLOB may have listed. It is outside the dedupe, the cap and the
  exposure, nobody polls it, and the token is bought again.
* `NoLiveOrderForgotten` (in MCExitDesk; ExitFaults.cfg): the same on the exit side, and,
  of both sides: `trading.py:269-270` wants an audit trail if the process dies before the answer;
  `trading.py:285` and `position_manager.py:258` flush, and the commit ends the cycle. An
  order that was accepted in a cycle that a crash cuts off is live and unknown. For BUYs
  `PlacedIsRecorded` counts them in `dropped`.
* `ExposureLimit` (in MCEntryDesk; EntryDesk.cfg with `MaxExposure = 1`): `risk.py:1,12-13`
  states hard limits; lines 131-132 are two SELECTs, and a BUY that fills in between is in
  neither.
* `OneExitInFlight` (in MCExitDesk; ExitClosers.cfg): `position_manager.py:345` and `478`
  exclude a second exit; the manager and a close request both check before either inserts.
* `NoOversellAtClob` (in MCExitDesk; ExitShares.cfg): `trading.py:538-540` wants later SELLs to
  sell what remains; lines 417-435 use the fill of the answer that came before the cancel, and a
  share matched in between is offered again. `NoOversell`, which is run with stale cancels,
  counts what the record says was sold, and what the exits in flight do at the CLOB.
* `StaleOrdersEnd` (in MCExitDesk; ExitLive.cfg, as PROPERTY): BUYs and stop-loss SELLs are
  to end when stale (`trading.py:360-362`); a poll takes the 20 oldest live orders (lines
  380-381), and an older exit that rides is never done, so enough of them keep a stop-loss
  SELL from ever being polled.
* `CloseYieldsToFill` (in MCExitDesk; ExitClosers.cfg): a close request refreshes the
  position against the race it names at `position_manager.py:471`, then looks the exit up
  (475-478); when that exit fills between the two, the request submits a SELL for a closed
  position.
* `FilledBuysAreHeld` (in MCExitDesk; ExitShares.cfg): the poller "inserts Position rows on
  full or partial fills" (`trading.py:12-14`); a BUY cancelled after a partial fill returns
  at line 548 without one.
* `PausedSendsNothing` (in MCEntryDesk; EntryControl.cfg, as PROPERTY): "when False the
  TradingEngine sees decisions but never sends an order" (`models.py:262`); `is_running` is
  read at `trading.py:140` and the cycle places on.
* `RunningIsNotPaused` (in MCEntryDesk; EntryControl.cfg): the banner that
  `api/bot.py:105-109` wants gone stays when the pause was committed after the row was
  loaded.
* `CancelledFillsRecorded` with "shutdown" (ExitClosers.cfg): the sweep
  (`trading.py:653-658`) records the fill last seen.
* `BooksBalance` and `NoOversell` with "noEcho" (ExitShares.cfg): a stale order that is not found is
  cancelled locally (`trading.py:390`) and its later fills are not recorded.
* `AlwaysFollows` (in MCMarketFeed; Feed.cfg, as PROPERTY): "every 60s, re-resolve filters"
  (`watcher.py:6-7`); one failed request ends the check task (line 221) while the stream
  lives on.
* `EveryBuyIsBacked` (Decide.cfg with `OnlyBea == [bea |-> 40]` as the only market of event 2
  in MCDecide): of several external events for one game "the first one in we trust"
  (`decision.py:454-456`), but line 457 trusts per side. Pinnacle is scraped and whitelisted
  at The Odds API as well (`the_odds_api.py:66`); when one of the two lists a part of the
  market, a side from each is devigged together, and one of them looks likelier than the
  book says anywhere.
* `NeverBothSidesAtAll` (in MCDecide; Decide.cfg with `OnlyBea == [bea |-> 92]` there): `ev.py:64-69` is to refuse "a partial market (e.g. only
  home odd available, no draw/away)" and does so by a total below 0.9. A favourite above
  that is devigged to certainty, and as the other book's average of the underdog is not
  lowered by it, one cycle may buy both sides for more than a dollar.
* `RotatesOnAnyClock` (in MCScrapeDesk; Scrape.cfg): the pool is a "round-robin" (`proxies.py:3`)
  under a lock; `next_proxy` reads the clock at line 139, before the lock at 140. A thread that
  read it before a cooldown ended passes that proxy over after another has found it free,
  and may be handed the proxy that was handed out last. `RotatesFairly`, which is run, speaks of
  what each caller finds free.
* `BalanceIsCurrent` (in MCWallet; Wallet.cfg, like the four below): the cache is wiped "so
  the next get_usdc_balance() goes to the network" (`clob_client.py:244`); a fetch begun
  before stores the old wallet's balance after (line 314).
* `LockedAnswersNothing`, `FailureIsNone`: "Returns None when the vault is locked ... or
  everything fails" (`clob_client.py:264-265`); the cache is asked before the vault
  (273-281), and 0.0 is cached when the CLOB says 0 and the chain cannot be read (305-316).
* `RowIsOneWallet`: two PUTs that loaded the same row leave the address of one with the key
  of the other, since an UPDATE leaves out what did not change (`api/wallet.py:101-109`).
* `VaultOpens`: a crash between opening and filling the verifier (`vault.py:60-63`) leaves a
  vault that is set up and that no password opens (`auth.py:58-73`).

Read in the code, without a property:

* `trading.py:287-289` says no lock is held during the CLOB call; the flush before it takes
  SQLite's write lock, which is kept until the cycle's commit.
* `client.py:66-68` means to stop only on an empty page and stops at a short one; pages are
  taken by offset, so an event that closes between two pages hides another one until the
  next check.
* The league "general" that `tree.py:101` shows for events without one is no tag, and
  selecting it selects nothing.
* `decision.py:58` limits the age of snapshots; line 413 allows six times as much to odds,
  and lines 488-500 any age to Polymarket's ask.
* `watcher.py:319` notes a price as written before it is; after a failed write, or after the
  retention has deleted it, the same price is not written again. Only full book messages
  carry depth, and a repeated price is skipped with its depth (311-313), so that a BUY may
  be refused for liquidity that is there.
* A pair of names at 0.85 or more ignores the time (`matcher.py:126`) and the first row wins
  a tie (348): of two games of the same teams within the window the first scraped is taken.
  Matches are never deleted.
* `min_ask_depth_usd` may be set to 0 (`api/bot.py:51`), with which a price without depth
  passes the liquidity gate.
* Both scrapers swallow their errors (`pinnacle.py:117-119`, `the_odds_api.py:152-153`): the
  backoff and the offline pause of `base.py` are never entered. A "401" anywhere in an
  error's text disables The Odds API until a restart (line 140), and the scraper reports OK.
* `proxies.py:148` answers None, which means a direct connection, also when every proxy is
  parked.
* Prices are published on the bus before they are committed.
* `risk.py:170` compares exposure, paid positions included, with the cash that is left.

## 8. Running

```
tlc -workers 4 -config ExitFaults.cfg MCExitDesk.tla
tlc -workers 4 -config EntryDesk.cfg  MCEntryDesk.tla     (and the other .cfg files)
tlapm ExitDeskProofs.tla
tlapm EntryDeskProofs.tla                                 (and the other *Proofs.tla)
```

Exit* belong to MCExitDesk, Entry* to MCEntryDesk, Feed to MCMarketFeed, Decide and
SwappedSides to MCDecide, Scrape to MCScrapeDesk, Wallet to MCWallet.

## 9. Plan

In the order of what matters most to a trade. There are a dozen runs; a new question takes
the place of an old one or joins its instance.

1. **Lemmas for liveness**: what the fair steps decrease is provable though the conclusion
   is not (a poll of a stale order leaves fewer of them).
2. **Composition**: Decide's log as the decisions of EntryDesk; EntryDesk's `LotsMove` shown to
   be what ExitDesk commits.
3. **Rounding**: sizes on a grid finer than the cents they are rounded to.
