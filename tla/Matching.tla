------------------------------- MODULE Matching -------------------------------
(***************************************************************************)
(* EventMatcher (matcher.py): every minute the events of the cached tree   *)
(* are scored against the scraped events and the best candidate of each    *)
(* source is upserted into event_matches.                                  *)
(*                                                                          *)
(* Names are compared by Similar, in percent, which stands for normalised  *)
(* names under rapidfuzz.  The score is kept squared and scaled, so that    *)
(* the geometric mean of two similarities needs no root.                   *)
(***************************************************************************)
EXTENDS Integers, SequencesExt

CONSTANTS
    PmEvents,    \* parseable events of the tree: id -> [sport, home, away, at]
    Exts,        \* scraped events by row id: a sequence of [source, sport, home, away]
    Bridges,     \* _SPORT_BRIDGES
    Similar,     \* the similarity of a name to another
    Window,      \* TIME_WINDOW_MINUTES
    Horizon,     \* PM_HORIZON_DAYS
    Times,       \* bound on kickoff times
    Known,       \* the external events scraped before, with their kickoffs
    MaxListings, \* bound on listings and postponements
    MaxNow       \* bound on the clock

Kickoffs == {{}} \cup {{k} : k \in Times}

ASSUME MatchingAssumption ==
    /\ Exts \in Seq(ToSet(Exts))
    /\ \A g \in DOMAIN PmEvents :
          /\ PmEvents[g].at \in Nat
          /\ \A x \in DOMAIN Exts : \A team \in {PmEvents[g].home, PmEvents[g].away},
                                     name \in {Exts[x].home, Exts[x].away} :
                Similar[team][name] \in 0 .. 100
    /\ Times \subseteq Nat /\ Window \in Nat \ {0} /\ Horizon \in Nat
    /\ \A x \in DOMAIN Exts : Known[x] \in Kickoffs
    /\ MaxListings \in Nat /\ MaxNow \in Nat

VARIABLES
    now,
    start,       \* external_events: row -> kickoff, {} before it is scraped
    listings,
    matches,     \* event_matches: event -> its rows in the order of their ids
    matcher,     \* in a cycle: the events within the horizon and the rows it has read
    caughtUp     \* ghost: nothing has changed since the last committed cycle began
matchVars == <<now, start, listings, matches, matcher, caughtUp>>

Match == [source : {Exts[x].source : x \in DOMAIN Exts}, ext : DOMAIN Exts]

MatchTypeOK ==
    /\ caughtUp \in BOOLEAN /\ now \in 0 .. MaxNow /\ listings \in 0 .. MaxListings
    /\ start \in [DOMAIN Exts -> Kickoffs]
    /\ \A g \in DOMAIN PmEvents :
          /\ matches[g] \in Seq(Match)
          /\ \A i, j \in DOMAIN matches[g] : matches[g][i].source = matches[g][j].source => i = j
    /\ matcher \in [busy : BOOLEAN, due : SUBSET DOMAIN PmEvents,
                    saw : [DOMAIN Exts -> Kickoffs]]

MatcherIdle == [busy |-> FALSE, due |-> {}, saw |-> [x \in DOMAIN Exts |-> {}]]

MatchInit ==
    /\ now = 0 /\ listings = 0
    /\ start = [x \in DOMAIN Exts |-> Known[x]]
    /\ matches = [g \in DOMAIN PmEvents |-> <<>>]
    /\ matcher = MatcherIdle /\ caughtUp = FALSE

-----------------------------------------------------------------------------
(* _score *)

Distance(a, b) == IF a < b THEN b - a ELSE a - b

BestOrdering(g, x) ==
    LET pm == PmEvents[g]
        ex == Exts[x]
        same == <<Similar[pm.home][ex.home], Similar[pm.away][ex.away]>>
        swap == <<Similar[pm.home][ex.away], Similar[pm.away][ex.home]>>
    IN  IF same[1] + same[2] >= swap[1] + swap[2] THEN same ELSE swap

Scale == 100 * Window

\* the square of the combined score: names * (0.6 + 0.4 * tempo) unless they bypass it
Score(g, x, at) ==
    LET names == BestOrdering(g, x)[1] * BestOrdering(g, x)[2]
        timed == 60 * Window + 40 * (Window - Distance(PmEvents[g].at, at))
    IN  IF names >= 85 * 85 THEN names * Scale * Scale ELSE names * timed * timed

Scores ==
    [g \in DOMAIN PmEvents |-> [x \in DOMAIN Exts |-> [at \in Times |-> Score(g, x, at)]]]

Threshold == 72 * 72 * Scale * Scale

-----------------------------------------------------------------------------
(* _match_and_write *)

Candidates(g, saw) ==
    {x \in DOMAIN Exts : /\ Exts[x].sport \in Bridges[PmEvents[g].sport]
                         /\ \E at \in saw[x] : /\ Distance(PmEvents[g].at, at) <= Window
                                               /\ Scores[g][x][at] >= Threshold}

ScoreOf(g, x, saw) == Scores[g][x][CHOOSE at \in saw[x] : TRUE]

CandidatesOf(g, source, saw) == {x \in Candidates(g, saw) : Exts[x].source = source}

Lowest(ids) == CHOOSE x \in ids : \A y \in ids : x <= y

\* the first of the best scored candidates of a source, in the order of row ids
Best(g, source, saw) ==
    Lowest({x \in CandidatesOf(g, source, saw) :
                \A y \in CandidatesOf(g, source, saw) : ScoreOf(g, x, saw) >= ScoreOf(g, y, saw)})

InsertOnly(rows, m) ==                    \* mutant: on_conflict_do_nothing
    IF \E i \in DOMAIN rows : rows[i].source = m.source THEN rows ELSE Append(rows, m)

AppendAlways(rows, m) == Append(rows, m)   \* mutant: no conflict clause

Upsert(rows, m) ==
    IF \E i \in DOMAIN rows : rows[i].source = m.source
    THEN [i \in DOMAIN rows |-> IF rows[i].source = m.source THEN m ELSE rows[i]]
    ELSE Append(rows, m)

\* The row of a source is as old in best_by_source as the first of its candidates.
Meets(g, x, saw) ==
    x \in Candidates(g, saw) /\ x = Lowest(CandidatesOf(g, Exts[x].source, saw))

MatchOf(g, source, saw) == [source |-> source, ext |-> Best(g, source, saw)]

\* One row per source that has a candidate, in the order in which the sources
\* are met; rows of other sources stay as they are.
Rematched(g, rows, saw) ==
    LET upto[x \in 0 .. Len(Exts)] ==
            IF x = 0 THEN rows
            ELSE IF Meets(g, x, saw) THEN Upsert(upto[x - 1], MatchOf(g, Exts[x].source, saw))
            ELSE upto[x - 1]
    IN  upto[Len(Exts)]

Due == {g \in DOMAIN PmEvents : PmEvents[g].at <= now + Horizon}

MatcherReads ==
    /\ ~matcher.busy
    /\ matcher' = [busy |-> TRUE, saw |-> start,
                   due |-> Due]
    /\ UNCHANGED <<now, start, listings, matches, caughtUp>>

MatcherWrites ==
    /\ matcher.busy
    /\ matches' = [g \in DOMAIN PmEvents |-> IF g \in matcher.due THEN Rematched(g, matches[g], matcher.saw)
                                             ELSE matches[g]]
    /\ matcher' = MatcherIdle /\ caughtUp' = (matcher.saw = start /\ matcher.due = Due)
    /\ UNCHANGED <<now, start, listings>>

\* The cycle fails on a locked database: nothing of it is committed.
MatcherFails ==
    /\ matcher.busy
    /\ matcher' = MatcherIdle
    /\ UNCHANGED <<now, start, listings, matches, caughtUp>>

-----------------------------------------------------------------------------
\* A scraper upserts an event, at first or with another kickoff.
Listing(x, at) ==
    /\ listings < MaxListings /\ listings' = listings + 1
    /\ start[x] # {at} /\ start' = [start EXCEPT ![x] = {at}]
    /\ caughtUp' = FALSE
    /\ UNCHANGED <<now, matches, matcher>>

Tick ==
    /\ now < MaxNow /\ now' = now + 1
    /\ caughtUp' = FALSE
    /\ UNCHANGED <<start, listings, matches, matcher>>

MatcherNext == MatcherReads \/ MatcherWrites \/ MatcherFails

\* While the scraped events stand still, a cycle leaves every source that has a
\* candidate for an event matched with its best one (matcher.py:8-11).
MatchesBest ==
    caughtUp => \A g \in Due : \A x \in Candidates(g, start) :
        MatchOf(g, Exts[x].source, start) \in ToSet(matches[g])
===============================================================================
