-------------------------------- MODULE Decide --------------------------------
(***************************************************************************)
(* DecisionEngine (decision.py) on the odds the scrapers write, the prices *)
(* the watcher writes and the matches of the matcher, with the arithmetic   *)
(* of ev.py.                                                                *)
(*                                                                          *)
(* Odds are raw implied probabilities and prices are asks, both in percent; *)
(* devigged and fair probabilities are in permille, rounded down.           *)
(***************************************************************************)
EXTENDS Matching, FiniteSetsExt

CONSTANTS
    Tokens,      \* polymarket_tokens: token -> [event, outcome]
    Weights,     \* SOURCE_WEIGHTS
    BooksOf,     \* source -> the books its snapshots name
    Markets,     \* external event -> the markets a book may list, outcome -> odds
    Prices,      \* what the snapshots of the tokens may be: token -> ask and depth
                 \* in dollars behind it, 0 for a NULL, {} before the first snapshot
    MaxAge,      \* SNAPSHOT_MAX_AGE_S * 6
    MinToGame, MaxToGame, EvPercent, MinDepth,   \* _RuntimeKnobs
    MaxScrapes   \* bound on the markets scraped and the prices written

ASSUME DecideAssumption ==
    /\ \A b \in DOMAIN Weights : Weights[b] \in Nat
    /\ IsFiniteSet(UNION {BooksOf[s] : s \in DOMAIN BooksOf})
    /\ \A x \in DOMAIN Exts : /\ Exts[x].source \in DOMAIN BooksOf
                             /\ \A m \in Markets[x] : \A o \in DOMAIN m : m[o] \in Nat \ {0}
    /\ \A p \in Prices : /\ p = [t \in DOMAIN Tokens |-> p[t]]
                        /\ \A t \in DOMAIN Tokens : \A q \in p[t] : q.ask \in Nat
    /\ MaxAge \in Nat /\ EvPercent \in Nat /\ MaxScrapes \in Nat

VARIABLES
    odds,        \* newest snapshot of a book for an external event, per outcome
    scrapes,
    poly,        \* newest snapshot of each token, of any age
    engine,      \* the engine's cycle between two awaits
    logged       \* ghost: the BUYs of the last cycle that committed, with the odds
                 \*   and the matches they were decided on
decideVars == <<odds, scrapes, poly, engine, logged>>
vars == <<matchVars, decideVars>>

Books    == UNION {BooksOf[s] : s \in DOMAIN BooksOf}
Outcomes == UNION {DOMAIN m : m \in UNION {Markets[x] : x \in DOMAIN Exts}}
Weight(b) == IF b \in DOMAIN Weights THEN Weights[b] ELSE 0

EngineIdle == [pc |-> "idle", matches |-> <<>>, now |-> 0, start |-> <<>>, todo |-> {},
               event |-> {}, unread |-> <<>>, rows |-> {}, probs |-> <<>>, tokens |-> {}, log |-> {}]

DecideInit ==
    /\ odds = [x \in DOMAIN Exts |-> [b \in BooksOf[Exts[x].source] |-> {}]] /\ scrapes = 0
    /\ poly \in Prices
    /\ engine = EngineIdle /\ logged = {}

Init == MatchInit /\ DecideInit

-----------------------------------------------------------------------------
(* ev.py *)

\* map_pm_outcome_to_side
Side(outcome, x) ==
    LET home == Similar[outcome][Exts[x].home]
        away == Similar[outcome][Exts[x].away]
    IN  IF outcome = "draw" THEN "draw"
        ELSE IF home >= 70 /\ home > away THEN "home"
        ELSE IF away >= 70 /\ away > home THEN "away"
        ELSE "none"

Sides == [o \in Outcomes \cup {Tokens[t].outcome : t \in DOMAIN Tokens} |->
             [x \in DOMAIN Exts |-> Side(o, x)]]

DevigNothing(raw) == [s \in DOMAIN raw |-> raw[s] * 10]   \* mutant: the vig is kept

DevigAnything(raw) ==                     \* mutant: no guard against a partial market
    [s \in DOMAIN raw |-> (raw[s] * 1000) \div SumFunction(raw)]

\* devig_simple, which has no result for a total out of range
Devig(raw) ==
    IF SumFunction(raw) \in 90 .. 150 THEN [s \in DOMAIN raw |-> (raw[s] * 1000) \div SumFunction(raw)]
    ELSE <<>>

\* consensus_fair_prob
Consensus(probs) ==
    LET weighted == {b \in DOMAIN probs : Weight(b) > 0}
        sum      == SumFunction([b \in weighted |-> Weight(b)])
    IN  IF sum = 0 THEN {}
        ELSE {SumFunction([b \in weighted |-> Weight(b) * probs[b]]) \div sum}

-----------------------------------------------------------------------------
(* _devigged_probs_by_book *)

\* the rows of one book by side; the first match that has a side decides it
RawOf(rows, order, b) ==
    LET sideOf(r) == Sides[r.outcome][r.ext]
        of(s)     == {r \in rows : r.book = b /\ sideOf(r) = s}
        rank(r)   == CHOOSE i \in DOMAIN order : order[i].ext = r.ext
        first(s)  == CHOOSE r \in of(s) : \A q \in of(s) : rank(r) <= rank(q)
    IN  [s \in {sideOf(r) : r \in {q \in rows : q.book = b}} \ {"none"} |-> first(s).odd]

ProbsByBook(rows, order) ==
    LET all == [b \in {r.book : r \in rows} |-> Devig(RawOf(rows, order, b))]
    IN  [b \in {c \in DOMAIN all : all[c] # <<>>} |-> all[b]]

\* _pick_canonical_ext
Canonical(order) ==
    LET pinnacle == {i \in DOMAIN order : order[i].source = "pinnacle"}
    IN  order[IF pinnacle # {} THEN Min(pinnacle) ELSE 1].ext

-----------------------------------------------------------------------------
(* _run_cycle *)

LoadMatches ==
    /\ engine.pc = "idle"
    /\ \E g \in DOMAIN PmEvents : matches[g] # <<>>
    /\ engine' = [EngineIdle EXCEPT !.pc = "matches", !.matches = matches]
    /\ UNCHANGED <<matchVars, odds, scrapes, poly, logged>>

LoadEvents ==
    /\ engine.pc = "matches"
    /\ engine' = [engine EXCEPT !.pc = "events", !.now = now, !.start = start,
                                !.todo = {g \in DOMAIN PmEvents : engine.matches[g] # <<>>}]
    /\ UNCHANGED <<matchVars, odds, scrapes, poly, logged>>

Kickoff(g) == CHOOSE k \in engine.start[Canonical(engine.matches[g])] : TRUE

InWindow(g) == Kickoff(g) - engine.now \in MinToGame .. MaxToGame

\* PASS_WINDOW_EARLY and PASS_WINDOW_LATE are counted and not logged.
PassWindow(g) ==
    /\ engine.pc = "events" /\ g \in engine.todo /\ ~InWindow(g)
    /\ engine' = [engine EXCEPT !.todo = @ \ {g}]
    /\ UNCHANGED <<matchVars, odds, scrapes, poly, logged>>

Enter(g) ==
    /\ engine.pc = "events" /\ g \in engine.todo /\ InWindow(g)
    /\ engine' = [engine EXCEPT !.pc = "odds", !.todo = @ \ {g}, !.event = {g},
                                !.unread = engine.matches[g], !.rows = {}]
    /\ UNCHANGED <<matchVars, odds, scrapes, poly, logged>>

FreshOf(x) ==
    UNION {{[ext |-> x, book |-> b, outcome |-> r.outcome, odd |-> r.odd] :
              r \in {q \in odds[x][b] : q.at + MaxAge >= engine.now}} :
              b \in DOMAIN odds[x]}

\* one SELECT per match
ReadOdds ==
    /\ engine.pc = "odds" /\ engine.unread # <<>>
    /\ engine' = [engine EXCEPT !.rows = @ \cup FreshOf(Head(engine.unread).ext),
                                !.unread = Tail(@)]
    /\ UNCHANGED <<matchVars, odds, scrapes, poly, logged>>

\* PASS_NO_EXT_SNAP ends the event, else its tokens are next.
Devigged(g) ==
    /\ engine.pc = "odds" /\ engine.unread = <<>> /\ engine.event = {g}
    /\ LET probs == ProbsByBook(engine.rows, engine.matches[g])
       IN  engine' = IF probs = <<>> THEN [engine EXCEPT !.pc = "events", !.event = {}, !.rows = {}]
                     ELSE [engine EXCEPT !.pc = "tokens", !.probs = probs,
                              !.tokens = {t \in DOMAIN Tokens : Tokens[t].event = g}]
    /\ UNCHANGED <<matchVars, odds, scrapes, poly, logged>>

\* _evaluate_token: the gates in their order
Verdict(g, t) ==
    LET side == Sides[Tokens[t].outcome][Canonical(engine.matches[g])]
        quoting == {b \in DOMAIN engine.probs : side \in DOMAIN engine.probs[b]}
        fair == Consensus([b \in quoting |-> engine.probs[b][side]])
        ask   == CHOOSE p \in poly[t] : TRUE
    IN  CASE side = "none"            -> "NO_MAP"
          [] poly[t] = {}             -> "NO_POLY_SNAP"
          [] fair = {}                -> "DEVIG_FAILED"
          [] fair \cap 50 .. 950 = {} -> "FAIR_BOUNDS"
          [] ask.depth < MinDepth     -> "LIQUIDITY"
          [] \A f \in fair : f * 10 < ask.ask * (100 + EvPercent) -> "LOW_EV"
          [] OTHER                    -> "BUY"

\* _log_one, of which only the BUYs matter to anybody else
LogOf(g, t) ==
    IF Verdict(g, t) # "BUY" THEN {}
    ELSE {[token |-> t, ask |-> (CHOOSE p \in poly[t] : TRUE).ask,
           evidence |-> engine.rows, order |-> engine.matches[g]]}

Evaluate(g, t) ==
    /\ engine.pc = "tokens" /\ engine.event = {g} /\ t \in engine.tokens
    /\ engine' = [engine EXCEPT !.tokens = @ \ {t}, !.log = @ \cup LogOf(g, t)]
    /\ UNCHANGED <<matchVars, odds, scrapes, poly, logged>>

EventDone ==
    /\ engine.pc = "tokens" /\ engine.tokens = {}
    /\ engine' = [engine EXCEPT !.pc = "events", !.event = {}, !.rows = {}, !.probs = <<>>]
    /\ UNCHANGED <<matchVars, odds, scrapes, poly, logged>>

CommitLog ==
    /\ engine.pc = "events" /\ engine.todo = {}
    /\ logged' = engine.log /\ engine' = EngineIdle
    /\ UNCHANGED <<matchVars, odds, scrapes, poly>>

\* Any exception loses the rows of the whole cycle.
CycleFails ==
    /\ engine.pc # "idle"
    /\ engine' = EngineIdle
    /\ UNCHANGED <<matchVars, odds, scrapes, poly, logged>>

-----------------------------------------------------------------------------
\* A scraper writes the outcomes a book has on offer; those it does not offer any
\* more keep their last row.
Scraped(x, b, m) ==
    /\ scrapes < MaxScrapes /\ scrapes' = scrapes + 1
    /\ start[x] # {}
    /\ odds' = [odds EXCEPT ![x][b] = {r \in @ : r.outcome \notin DOMAIN m}
                                      \cup {[outcome |-> o, odd |-> m[o], at |-> now] : o \in DOMAIN m}]
    /\ UNCHANGED <<matchVars, poly, engine, logged>>

\* The watcher writes another snapshot of a token.
Priced(t, q) ==
    /\ scrapes < MaxScrapes /\ scrapes' = scrapes + 1
    /\ poly[t] # q /\ poly' = [poly EXCEPT ![t] = q]
    /\ UNCHANGED <<matchVars, odds, engine, logged>>

EngineNext ==
    \/ LoadMatches \/ LoadEvents \/ ReadOdds \/ EventDone \/ CommitLog \/ CycleFails
    \/ \E g \in DOMAIN PmEvents :
          \/ PassWindow(g) \/ Enter(g) \/ Devigged(g)
          \/ \E t \in DOMAIN Tokens : Evaluate(g, t)

Feeds ==
    \/ \E x \in DOMAIN Exts : \E b \in BooksOf[Exts[x].source], m \in Markets[x] : Scraped(x, b, m)
    \/ \E p \in Prices : \E t \in DOMAIN Tokens : Priced(t, p[t])
    \/ (Tick \/ \E x \in DOMAIN Exts, at \in Times : Listing(x, at)) /\ UNCHANGED decideVars

Next == EngineNext \/ Feeds \/ (MatcherNext /\ UNCHANGED decideVars)

Spec == Init /\ [][Next]_vars

-----------------------------------------------------------------------------
TypeOK ==
    /\ MatchTypeOK
    /\ scrapes \in 0 .. MaxScrapes
    /\ \A x \in DOMAIN Exts, b \in Books :
          b \in DOMAIN odds[x] =>
              \A r, q \in odds[x][b] : /\ r.at <= now
                                       /\ r.outcome = q.outcome => r = q
    /\ engine.pc \in {"idle", "matches", "events", "odds", "tokens"}
    /\ engine.now <= now
    /\ (engine.pc \in {"odds", "tokens"}) = (engine.event # {})

\* What a book thinks of a team by its own odds at one event
OwnProb(evidence, b, x, team) ==
    LET own == {r \in evidence : r.book = b /\ r.ext = x}
        on  == {r \in own : r.outcome = team}
    IN  IF on = {} THEN 0
        ELSE (1000 * (CHOOSE r \in on : TRUE).odd) \div SumFunction([r \in own |-> r.odd])

TokenSide(row) == Sides[Tokens[row.token].outcome][Canonical(row.order)]

Worth(prob, row) == prob * 10 >= row.ask * (100 + EvPercent)

\* The odds taken for a book are those of event x: no match before it has the book,
\* every side the book is quoted on is quoted there, its outcomes are different
\* sides, and the token's side is the token's team.
TakenFrom(row, b, x) ==
    LET all   == {r \in row.evidence : r.book = b}
        own   == {r \in all : r.ext = x}
        on(r) == Sides[r.outcome][r.ext]
    IN  /\ \A i, j \in DOMAIN row.order :
              row.order[i].ext = x /\ row.order[j].ext \in {r.ext : r \in all} => i <= j
        /\ {on(r) : r \in all} = {on(r) : r \in own}
        /\ \A r, q \in own : on(r) = on(q) => r = q
        /\ \A r \in own : on(r) # "none" /\ (on(r) = TokenSide(row) <=> r.outcome = Tokens[row.token].outcome)

\* A book backs a BUY with its odds as the engine has put them together, and where
\* it has taken them from one event also with its own odds on the token's team.
Backs(row, b) ==
    LET raw == RawOf(row.evidence, row.order, b)
    IN  /\ TokenSide(row) \in DOMAIN raw
        /\ Worth((1000 * raw[TokenSide(row)]) \div SumFunction(raw), row)
        /\ \A x \in {r.ext : r \in row.evidence} :
              TakenFrom(row, b, x) => Worth(OwnProb(row.evidence, b, x, Tokens[row.token].outcome), row)

\* Averaging over books never invents an edge: a token is bought above its ask only
\* when some weighted book thinks so too by its own fresh odds, however the sources
\* differ on the others (decision.py:9, 264-266).
BuysAreBacked ==
    \A row \in logged : \E b \in {r.book : r \in row.evidence} : Weight(b) > 0 /\ Backs(row, b)

\* What matcher.py:12-13 asks for, whatever a source calls home or leaves out.
EveryBuyIsBacked ==
    \A row \in logged : \E r \in row.evidence :
        Weight(r.book) > 0 /\ Worth(OwnProb(row.evidence, r.book, r.ext, Tokens[row.token].outcome), row)

\* a book that the guard lets pass as a whole market though it quotes only one of
\* two sides: a favourite above 0.9
PartPasses(row, b, sides) ==
    LET raw == RawOf(row.evidence, row.order, b)
    IN  /\ Weight(b) > 0 /\ SumFunction(raw) \in 90 .. 150
        /\ sides \cap DOMAIN raw # {} /\ ~(sides \subseteq DOMAIN raw)

\* One cycle never buys two sides of an event for a dollar a pair, less the margin,
\* or more, at whatever times their asks were read, unless a part of a market has
\* passed for a whole one (ev.py:66-69).
NeverBothSides ==
    \A row, other \in logged :
        LET sides == {TokenSide(row), TokenSide(other)}
        IN  /\ Tokens[row.token].event = Tokens[other.token].event
            /\ TokenSide(row) # TokenSide(other)
            /\ ~\E r \in row.evidence : PartPasses(row, r.book, sides)
            => (row.ask + other.ask) * (100 + EvPercent) <= 10000
===============================================================================
