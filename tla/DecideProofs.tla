----------------------------- MODULE DecideProofs -----------------------------
(***************************************************************************)
(* Proofs about Matching and Decide, for any events, scrapers' events,      *)
(* books, odds, prices and tokens: the type invariant, that the matches are *)
(* the best ones, and what the engine's BUYs rest on.                       *)
(***************************************************************************)
EXTENDS Decide, SumProofs

(***************************************************************************)
(* The inductive invariant of the matcher.  A row of event_matches names an *)
(* external event that the score allows at some kickoff, and its source.    *)
(***************************************************************************)
MayMatch(g) ==
    {x \in DOMAIN Exts : /\ Exts[x].sport \in Bridges[PmEvents[g].sport]
                         /\ \E at \in Times : /\ Distance(PmEvents[g].at, at) <= Window
                                              /\ Scores[g][x][at] >= Threshold}

RowOK(g, m) == m \in Match /\ m.source = Exts[m.ext].source /\ m.ext \in MayMatch(g)

OneRowEach(rows) == \A i, j \in DOMAIN rows : rows[i].source = rows[j].source => i = j

RowsOK(g) == {rows \in Seq(Match) : (\A i \in DOMAIN rows : RowOK(g, rows[i])) /\ OneRowEach(rows)}

Seen == [DOMAIN Exts -> Kickoffs]

MatchInv ==
    /\ now \in 0 .. MaxNow /\ listings \in 0 .. MaxListings /\ caughtUp \in BOOLEAN
    /\ start \in Seen
    /\ \A g \in DOMAIN PmEvents : matches[g] \in RowsOK(g)
    /\ matcher \in [busy : BOOLEAN, due : SUBSET DOMAIN PmEvents, saw : Seen]
    /\ MatchesBest

-----------------------------------------------------------------------------
(* Scores *)

\* The ids of the scraped events are the numbers up to how many there are.
LEMMA ExtsAreNumbered == Len(Exts) \in Nat /\ DOMAIN Exts = 1 .. Len(Exts)
  <1>1. Exts \in Seq(ToSet(Exts))  BY MatchingAssumption DEF MatchingAssumption
  <1> HIDE DEF ToSet
  <1> QED BY <1>1

\* A kickoff that was scraped is one, and it is one of the Times.
LEMMA SeenKickoff ==
    ASSUME NEW saw \in Seen, NEW x \in DOMAIN Exts, saw[x] # {}
    PROVE  \E k \in Times : saw[x] = {k}
  BY DEF Seen, Kickoffs

\* A candidate is an event that may match.
LEMMA CandidateMayMatch ==
    ASSUME NEW saw \in Seen, NEW g \in DOMAIN PmEvents
    PROVE  Candidates(g, saw) \subseteq MayMatch(g)
  <1>1. \A x \in DOMAIN Exts : saw[x] \subseteq Times  BY DEF Seen, Kickoffs
  <1> QED BY <1>1 DEF Candidates, MayMatch

\* A score is an integer.
LEMMA ScoreType ==
    ASSUME NEW g \in DOMAIN PmEvents, NEW x \in DOMAIN Exts, NEW at \in Times
    PROVE  Scores[g][x][at] \in Int
  <1> DEFINE names == BestOrdering(g, x)[1] * BestOrdering(g, x)[2]
             timed == 60 * Window + 40 * (Window - Distance(PmEvents[g].at, at))
  <1>1. \A m, n \in Int : m * n \in Int  OBVIOUS
  <1>2. BestOrdering(g, x)[1] \in Int /\ BestOrdering(g, x)[2] \in Int
    <2>1. \A team \in {PmEvents[g].home, PmEvents[g].away}, name \in {Exts[x].home, Exts[x].away} :
             Similar[team][name] \in Int
      <3>1. \A team \in {PmEvents[g].home, PmEvents[g].away}, name \in {Exts[x].home, Exts[x].away} :
               Similar[team][name] \in 0 .. 100
        BY MatchingAssumption, Zenon DEF MatchingAssumption
      <3>2. 0 .. 100 \subseteq Int  OBVIOUS
      <3> QED BY <3>1, <3>2
    <2> QED BY <2>1 DEF BestOrdering
  <1>3. names \in Int  BY <1>1, <1>2
  <1>4. timed \in Int /\ Scale \in Int
    <2>1. PmEvents[g].at \in Nat /\ at \in Nat /\ Window \in Nat
      BY MatchingAssumption DEF MatchingAssumption
    <2> QED BY <2>1 DEF Distance, Scale
  <1> HIDE DEF names, timed
  <1>5. (names * Scale) * Scale \in Int /\ (names * timed) * timed \in Int  BY <1>1, <1>3, <1>4
  <1>6. Scores[g][x][at] = IF names >= 85 * 85 THEN (names * Scale) * Scale ELSE (names * timed) * timed
    BY DEF Scores, Score, names, timed
  <1> QED BY <1>5, <1>6

\* The lowest of some ids is one of them and not above any.
LEMMA LowestIs ==
    ASSUME NEW ids, ids \subseteq Nat, ids # {}
    PROVE  Lowest(ids) \in ids /\ \A y \in ids : Lowest(ids) <= y
  <1>1. \E x \in ids : \A y \in ids : x <= y  BY LeastNumber
  <1> QED BY <1>1 DEF Lowest

\* The best candidate of a source is one of its candidates.
LEMMA BestIsCandidate ==
    ASSUME NEW saw \in Seen, NEW g \in DOMAIN PmEvents, NEW source,
           CandidatesOf(g, source, saw) # {}
    PROVE  Best(g, source, saw) \in CandidatesOf(g, source, saw)
  <1> DEFINE C == CandidatesOf(g, source, saw)
             f == [x \in C |-> ScoreOf(g, x, saw)]
             B == {x \in C : \A y \in C : ScoreOf(g, x, saw) >= ScoreOf(g, y, saw)}
  <1>1. C \subseteq 1 .. Len(Exts) /\ Len(Exts) \in Nat
    BY ExtsAreNumbered DEF CandidatesOf, Candidates
  <1>2. ASSUME NEW x \in C  PROVE  f[x] \in Int
    <2>1. x \in DOMAIN Exts /\ saw[x] # {}  BY DEF CandidatesOf, Candidates
    <2>2. PICK k \in Times : saw[x] = {k}  BY <2>1, SeenKickoff
    <2>3. (CHOOSE at \in saw[x] : TRUE) = k  BY <2>2
    <2>4. f[x] = Scores[g][x][k]  BY <2>3 DEF ScoreOf
    <2> QED BY <2>1, <2>4, ScoreType
  <1>3. \E x \in C : \A y \in C : f[y] <= f[x]
    <2> HIDE DEF f, C
    <2> QED BY <1>1, <1>2, GreatestValue DEF C
  <1>4. B # {}
    <2>1. PICK x \in C : \A y \in C : f[y] <= f[x]  BY <1>3
    <2>2. \A y \in C : f[x] >= f[y]  BY <1>2, <2>1
    <2>3. \A y \in C : f[y] = ScoreOf(g, y, saw)  OBVIOUS
    <2> HIDE DEF f
    <2>4. \A y \in C : ScoreOf(g, x, saw) >= ScoreOf(g, y, saw)  BY <2>2, <2>3
    <2> QED BY <2>4
  <1>5. B \subseteq Nat  BY <1>1
  <1>6. Lowest(B) \in B
    <2> HIDE DEF B
    <2> QED BY <1>4, <1>5, LowestIs
  <1>7. Best(g, source, saw) = Lowest(B)  BY DEF Best
  <1> QED BY <1>6, <1>7

-----------------------------------------------------------------------------
(* The rows of an event *)

\* An upsert leaves one row for each source: the new one for its own, and those
\* of the others as they were.
LEMMA UpsertRows ==
    ASSUME NEW g \in DOMAIN PmEvents, NEW rows \in RowsOK(g), NEW m, RowOK(g, m)
    PROVE  /\ Upsert(rows, m) \in RowsOK(g)
           /\ m \in ToSet(Upsert(rows, m))
           /\ \A r \in ToSet(rows) : r.source # m.source => r \in ToSet(Upsert(rows, m))
  <1> DEFINE new == Upsert(rows, m)
             n == Len(rows)
  <1>1. /\ rows \in Seq(Match) /\ n \in Nat /\ DOMAIN rows = 1 .. n /\ OneRowEach(rows)
        /\ \A i \in 1 .. n : RowOK(g, rows[i]) /\ rows[i] \in Match
    BY DEF RowsOK
  <1>2. m \in Match  BY DEF RowOK
  <1>3. CASE \E i \in DOMAIN rows : rows[i].source = m.source
    <2> DEFINE by == [i \in DOMAIN rows |-> IF rows[i].source = m.source THEN m ELSE rows[i]]
    <2>1. new = by  BY <1>3 DEF Upsert
    <2>2. DOMAIN by = 1 .. n  BY <1>1
    <2>3. \A i \in 1 .. n : by[i] = IF rows[i].source = m.source THEN m ELSE rows[i]  BY <1>1
    <2>4. by \in [1 .. n -> Match]  BY <1>1, <1>2
    <2> HIDE DEF by
    <2>5. by \in Seq(Match)  BY <1>1, <2>4
    <2>6. \A i \in 1 .. n : RowOK(g, by[i]) /\ by[i].source = rows[i].source  BY <1>1, <2>3
    <2>7. OneRowEach(by)  BY <1>1, <2>2, <2>6 DEF OneRowEach
    <2>8. PICK k \in 1 .. n : rows[k].source = m.source  BY <1>1, <1>3
    <2>9. by[k] = m  BY <2>3, <2>8
    <2>10. m \in ToSet(by)  BY <2>2, <2>9 DEF ToSet
    <2>11. ASSUME NEW r \in ToSet(rows), r.source # m.source  PROVE  r \in ToSet(by)
      <3>1. PICK i \in 1 .. n : r = rows[i]  BY <1>1 DEF ToSet
      <3>2. by[i] = r  BY <2>3, <2>11, <3>1
      <3> QED BY <2>2, <3>2 DEF ToSet
    <2>12. by \in RowsOK(g)  BY <2>2, <2>5, <2>6, <2>7 DEF RowsOK
    <2> QED BY <2>1, <2>10, <2>11, <2>12
  <1>4. CASE ~ \E i \in DOMAIN rows : rows[i].source = m.source
    <2> DEFINE by == Append(rows, m)
    <2>1. new = by  BY <1>4 DEF Upsert
    <2>2. /\ by \in Seq(Match) /\ DOMAIN by = 1 .. n + 1 /\ by[n + 1] = m
          /\ \A i \in 1 .. n : by[i] = rows[i]
      BY <1>1, <1>2
    <2> HIDE DEF by
    <2>3. \A i \in 1 .. n + 1 : i = n + 1 \/ i \in 1 .. n  BY <1>1
    <2>4. \A i \in DOMAIN by : RowOK(g, by[i])  BY <1>1, <2>2, <2>3
    <2>5. \A i \in 1 .. n : by[i].source # m.source  BY <1>1, <1>4, <2>2
    <2>6. OneRowEach(by)  BY <1>1, <2>2, <2>3, <2>5 DEF OneRowEach
    <2>7. by \in RowsOK(g)  BY <2>2, <2>4, <2>6 DEF RowsOK
    <2>8. 1 .. n \subseteq 1 .. n + 1 /\ n + 1 \in 1 .. n + 1  BY <1>1
    <2>9. m \in ToSet(by)  BY <2>2, <2>8 DEF ToSet
    <2>10. ToSet(rows) \subseteq ToSet(by)  BY <1>1, <2>2, <2>8 DEF ToSet
    <2> QED BY <2>1, <2>7, <2>9, <2>10
  <1> QED BY <1>3, <1>4

\* The row of the best candidate is a row of the event.
LEMMA MatchOfRow ==
    ASSUME NEW saw \in Seen, NEW g \in DOMAIN PmEvents, NEW x \in Candidates(g, saw)
    PROVE  RowOK(g, MatchOf(g, Exts[x].source, saw))
  <1> DEFINE source == Exts[x].source
             best == Best(g, source, saw)
  <1>1. x \in CandidatesOf(g, source, saw) /\ x \in DOMAIN Exts  BY DEF CandidatesOf, Candidates
  <1>2. best \in CandidatesOf(g, source, saw)
    <2> HIDE DEF source
    <2> QED BY <1>1, BestIsCandidate
  <1>3. best \in Candidates(g, saw) /\ Exts[best].source = source  BY <1>2 DEF CandidatesOf
  <1>4. best \in MayMatch(g) /\ best \in DOMAIN Exts  BY <1>3, CandidateMayMatch DEF MayMatch
  <1>5. MatchOf(g, source, saw) = [source |-> source, ext |-> best]  BY DEF MatchOf
  <1>6. source \in {Exts[y].source : y \in DOMAIN Exts}  BY <1>1
  <1> HIDE DEF source, best
  <1>7. MatchOf(g, source, saw) \in Match  BY <1>4, <1>5, <1>6 DEF Match
  <1>8. RowOK(g, MatchOf(g, source, saw))  BY <1>3, <1>4, <1>5, <1>7 DEF RowOK
  <1> QED BY <1>8 DEF source

\* What Rematched's recursion computes at x from what it computed below x.
Rematch(g, rows, saw, f, x) ==
    IF x = 0 THEN rows
    ELSE IF Meets(g, x, saw) THEN Upsert(f[x - 1], MatchOf(g, Exts[x].source, saw)) ELSE f[x - 1]

RematchUpto(g, rows, saw) ==
    CHOOSE f : f = [x \in 0 .. Len(Exts) |-> Rematch(g, rows, saw, f, x)]

\* A pass of the matcher leaves one row for each source, and each source that has
\* a candidate gets the row of its best one.
LEMMA RematchedRows ==
    ASSUME NEW saw \in Seen, NEW g \in DOMAIN PmEvents, NEW rows \in RowsOK(g)
    PROVE  /\ Rematched(g, rows, saw) \in RowsOK(g)
           /\ \A x \in Candidates(g, saw) :
                 MatchOf(g, Exts[x].source, saw) \in ToSet(Rematched(g, rows, saw))
  <1> DEFINE n == Len(Exts)
             V == RowsOK(g)
             row(x) == MatchOf(g, Exts[x].source, saw)
             meets(x) == Meets(g, x, saw)
             F == [x \in 1 .. n |-> [w \in V |-> IF meets(x) THEN Upsert(w, row(x)) ELSE w]]
             c == RematchUpto(g, rows, saw)
  <1>1. n \in Nat /\ DOMAIN Exts = 1 .. n  BY ExtsAreNumbered
  <1>2. \A x : meets(x) => x \in 1 .. n /\ x \in Candidates(g, saw) /\ RowOK(g, row(x))
    <2> SUFFICES ASSUME NEW x, meets(x)
                 PROVE  x \in 1 .. n /\ x \in Candidates(g, saw) /\ RowOK(g, row(x))
      OBVIOUS
    <2>1. x \in Candidates(g, saw)  BY DEF Meets
    <2>2. x \in DOMAIN Exts  BY <2>1 DEF Candidates
    <2> QED BY <1>1, <2>1, <2>2, MatchOfRow
  <1>3. \A x \in 1 .. n, w \in V : (IF meets(x) THEN Upsert(w, row(x)) ELSE w) \in V
    <2> SUFFICES ASSUME NEW x \in 1 .. n, NEW w \in V, meets(x)  PROVE  Upsert(w, row(x)) \in V
      OBVIOUS
    <2>1. RowOK(g, row(x))  BY <1>2
    <2> HIDE DEF row
    <2> QED BY <2>1, UpsertRows
  <1>4. F \in [1 .. n -> [V -> V]]
    <2> HIDE DEF V, row, meets, n
    <2> QED BY <1>3
  <1>5. \A x \in 1 .. n, w \in V : F[x][w] = IF meets(x) THEN Upsert(w, row(x)) ELSE w
    <2> HIDE DEF V, row, meets, n
    <2> QED OBVIOUS
  <1> HIDE DEF F, V, n
  <1>6. PICK f \in [0 .. n -> V] : f[0] = rows /\ \A x \in 1 .. n : f[x] = F[x][f[x - 1]]
    <2>1. rows \in V  BY DEF V
    <2>2. Unfolds(n, V, rows, F)  BY <1>1, <1>4, <2>1, StepsExist
    <2> QED BY <2>2 DEF Unfolds
  <1>7. ASSUME NEW x \in 0 .. n  PROVE  f[x] = Rematch(g, rows, saw, f, x)
    <2>1. CASE x = 0  BY <1>6, <2>1 DEF Rematch
    <2>2. CASE x # 0
      <3>1. x \in 1 .. n /\ x - 1 \in 0 .. n  BY <1>1, <2>2
      <3>2. f[x - 1] \in V  BY <3>1
      <3>3. f[x] = F[x][f[x - 1]]  BY <1>6, <3>1
      <3>4. f[x] = IF meets(x) THEN Upsert(f[x - 1], row(x)) ELSE f[x - 1]
        BY <1>5, <3>1, <3>2, <3>3
      <3> QED BY <2>2, <3>4 DEF Rematch
    <2> QED BY <2>1, <2>2
  <1>8. f = [x \in 0 .. n |-> Rematch(g, rows, saw, f, x)]
    <2>1. f = [x \in 0 .. n |-> f[x]]  OBVIOUS
    <2> QED BY <1>7, <2>1
  <1>9. c = [x \in 0 .. n |-> Rematch(g, rows, saw, c, x)]  BY <1>8 DEF RematchUpto, n
  <1> HIDE DEF c
  <1>10. \A x \in 0 .. n : c[x] = Rematch(g, rows, saw, c, x)  BY <1>9
  <1> DEFINE Holds(x) == x <= n => /\ c[x] \in V
                                   /\ \A y \in 1 .. x : meets(y) => row(y) \in ToSet(c[x])
             T == {x \in Nat : Holds(x)}
  <1>11. 0 \in T
    <2>1. 0 \in 0 .. n  BY <1>1
    <2>2. c[0] = rows  BY <1>10, <2>1 DEF Rematch
    <2>3. c[0] \in V  BY <2>2 DEF V
    <2> HIDE DEF row, meets
    <2> QED BY <1>1, <2>3
  <1>12. ASSUME NEW x \in Nat, x \in T  PROVE  x + 1 \in T
    <2> SUFFICES ASSUME x + 1 <= n
                 PROVE  /\ c[x + 1] \in V
                        /\ \A y \in 1 .. x + 1 : meets(y) => row(y) \in ToSet(c[x + 1])
      OBVIOUS
    <2>1. x + 1 \in 0 .. n /\ x + 1 # 0 /\ (x + 1) - 1 = x /\ x + 1 \in 1 .. n  BY <1>1
    <2>2. Holds(x)  BY <1>12
    <2>3. c[x] \in V /\ \A y \in 1 .. x : meets(y) => row(y) \in ToSet(c[x])
      <3>1. x <= n  BY <1>1
      <3> HIDE DEF row, meets
      <3> QED BY <2>2, <3>1
    <2>4. c[x + 1] = IF meets(x + 1) THEN Upsert(c[x], row(x + 1)) ELSE c[x]
      BY <1>10, <2>1 DEF Rematch
    <2>5. \A y \in 1 .. x + 1 : y \in 1 .. x \/ y = x + 1  OBVIOUS
    <2>6. CASE ~meets(x + 1)
      <3>1. c[x + 1] = c[x]  BY <2>4, <2>6
      <3> HIDE DEF row, meets
      <3> QED BY <2>3, <2>5, <2>6, <3>1
    <2>7. CASE meets(x + 1)
      <3>1. RowOK(g, row(x + 1))  BY <1>2, <2>7
      <3>2. c[x + 1] = Upsert(c[x], row(x + 1))  BY <2>4, <2>7
      <3>3. /\ c[x + 1] \in V /\ row(x + 1) \in ToSet(c[x + 1])
            /\ \A r \in ToSet(c[x]) : r.source # row(x + 1).source => r \in ToSet(c[x + 1])
        <4> DEFINE m == row(x + 1)
        <4>1. c[x] \in RowsOK(g)  BY <2>3 DEF V
        <4> HIDE DEF m
        <4>2. RowOK(g, m)  BY <3>1 DEF m
        <4>3. /\ Upsert(c[x], m) \in RowsOK(g) /\ m \in ToSet(Upsert(c[x], m))
              /\ \A r \in ToSet(c[x]) : r.source # m.source => r \in ToSet(Upsert(c[x], m))
          BY <4>1, <4>2, UpsertRows
        <4> QED BY <3>2, <4>3 DEF m, V
      <3>4. ASSUME NEW y \in 1 .. x, meets(y)  PROVE  row(y) \in ToSet(c[x + 1])
        <4>1. row(y) \in ToSet(c[x])  BY <2>3, <3>4
        <4>2. Exts[y].source # Exts[x + 1].source
          <5>1. SUFFICES ASSUME Exts[y].source = Exts[x + 1].source  PROVE  y = x + 1
            BY <1>1
          <5> QED BY <2>7, <3>4, <5>1 DEF Meets
        <4>3. row(y).source = Exts[y].source /\ row(x + 1).source = Exts[x + 1].source
          BY DEF MatchOf
        <4> QED BY <3>3, <4>1, <4>2, <4>3
      <3> HIDE DEF row, meets
      <3> QED BY <2>5, <3>3, <3>4
    <2> QED BY <2>6, <2>7
  <1>13. Nat \subseteq T
    <2> HIDE DEF T
    <2> QED BY <1>11, <1>12, Induction
  <1>14. c[n] \in V /\ \A y \in 1 .. n : meets(y) => row(y) \in ToSet(c[n])
    <2>1. Holds(n)  BY <1>1, <1>13
    <2> HIDE DEF row, meets
    <2> QED BY <1>1, <2>1
  <1>15. Rematched(g, rows, saw) = c[n]
    BY DEF Rematched, RematchUpto, Rematch, c, n
  <1>16. ASSUME NEW x \in Candidates(g, saw)  PROVE  row(x) \in ToSet(c[n])
    <2> DEFINE C == CandidatesOf(g, Exts[x].source, saw)
    <2>1. x \in C /\ C \subseteq Nat
      BY <1>1 DEF CandidatesOf, Candidates
    <2>2. Lowest(C) \in C
      <3> HIDE DEF C
      <3> QED BY <2>1, LowestIs
    <2>3. Lowest(C) \in Candidates(g, saw) /\ Exts[Lowest(C)].source = Exts[x].source
      BY <2>2 DEF CandidatesOf
    <2>4. meets(Lowest(C))  BY <2>3 DEF Meets
    <2>5. Lowest(C) \in 1 .. n  BY <1>2, <2>4
    <2>6. row(Lowest(C)) = row(x)  BY <2>3
    <2> QED BY <1>14, <2>4, <2>5, <2>6
  <1> QED BY <1>14, <1>15, <1>16 DEF V

-----------------------------------------------------------------------------
(* The steps of the matcher, the scrapers and the clock *)

\* Every event starts without matches, and the matcher idle.
LEMMA MatchStarts ==
    ASSUME MatchInit
    PROVE  MatchInv
  <1>1. start \in Seen
    <2>1. \A x \in DOMAIN Exts : Known[x] \in Kickoffs
      BY MatchingAssumption, Zenon DEF MatchingAssumption
    <2> HIDE DEF Kickoffs
    <2> QED BY <2>1 DEF MatchInit, Seen
  <1>2. matcher \in [busy : BOOLEAN, due : SUBSET DOMAIN PmEvents, saw : Seen]
    <2>1. [x \in DOMAIN Exts |-> {}] \in Seen  BY DEF Seen, Kickoffs
    <2> HIDE DEF Seen
    <2> QED BY <2>1 DEF MatchInit, MatcherIdle
  <1>3. <<>> \in Seq(Match) /\ DOMAIN <<>> = {}  OBVIOUS
  <1>4. \A g \in DOMAIN PmEvents : matches[g] \in RowsOK(g)
    BY <1>3 DEF MatchInit, RowsOK, OneRowEach
  <1>5. 0 \in 0 .. MaxNow /\ 0 \in 0 .. MaxListings
    <2>1. MaxListings \in Nat /\ MaxNow \in Nat
      BY MatchingAssumption, Zenon DEF MatchingAssumption
    <2> QED BY <2>1
  <1> QED BY <1>1, <1>2, <1>4, <1>5 DEF MatchInit, MatchInv, MatchesBest

\* What leaves the matcher's variables alone leaves its invariant alone.
LEMMA MatchStutters ==
    ASSUME MatchInv, UNCHANGED matchVars
    PROVE  MatchInv'
  <1>1. /\ now' = now /\ start' = start /\ listings' = listings /\ matches' = matches
        /\ matcher' = matcher /\ caughtUp' = caughtUp
    BY DEF matchVars
  <1>2. Due' = Due  BY <1>1 DEF Due
  <1>3. MatchesBest'  BY <1>1, <1>2 DEF MatchInv, MatchesBest
  <1> QED BY <1>1, <1>3 DEF MatchInv

\* A new cycle has read the events and the rows of the database.
LEMMA MatcherReadsKeeps ==
    ASSUME MatchInv, MatcherReads
    PROVE  MatchInv'
  <1>1. Due \in SUBSET DOMAIN PmEvents  BY DEF Due
  <1>2. matcher' \in [busy : BOOLEAN, due : SUBSET DOMAIN PmEvents, saw : Seen]
    <2> HIDE DEF Seen, Due
    <2> QED BY <1>1 DEF MatcherReads, MatchInv
  <1>3. MatchesBest' = MatchesBest  BY DEF MatcherReads, MatchesBest, Due
  <1> QED BY <1>2, <1>3 DEF MatcherReads, MatchInv

\* What a cycle commits are the best matches, if nothing changed since it read.
LEMMA MatcherWritesKeeps ==
    ASSUME MatchInv, MatcherWrites
    PROVE  MatchInv'
  <1> DEFINE saw == matcher.saw
  <1>1. matcher.due \in SUBSET DOMAIN PmEvents /\ saw \in Seen  BY DEF MatchInv
  <1>2. matcher' \in [busy : BOOLEAN, due : SUBSET DOMAIN PmEvents, saw : Seen]
    <2>1. [x \in DOMAIN Exts |-> {}] \in Seen  BY DEF Seen, Kickoffs
    <2> HIDE DEF Seen
    <2> QED BY <2>1 DEF MatcherWrites, MatcherIdle
  <1>3. \A g \in DOMAIN PmEvents :
           matches'[g] = IF g \in matcher.due THEN Rematched(g, matches[g], saw) ELSE matches[g]
    BY DEF MatcherWrites
  <1>4. ASSUME NEW g \in DOMAIN PmEvents
        PROVE  /\ Rematched(g, matches[g], saw) \in RowsOK(g)
               /\ \A x \in Candidates(g, saw) :
                     MatchOf(g, Exts[x].source, saw) \in ToSet(Rematched(g, matches[g], saw))
    <2>1. matches[g] \in RowsOK(g)  BY DEF MatchInv
    <2> HIDE DEF saw
    <2> QED BY <1>1, <2>1, RematchedRows
  <1>5. \A g \in DOMAIN PmEvents : matches'[g] \in RowsOK(g)
    <2> HIDE DEF saw
    <2> QED BY <1>3, <1>4 DEF MatchInv
  <1>6. MatchesBest'
    <2> SUFFICES ASSUME caughtUp', NEW g \in Due', NEW x \in Candidates(g, start')
                 PROVE  MatchOf(g, Exts[x].source, start') \in ToSet(matches'[g])
      BY DEF MatchesBest
    <2>1. start' = saw /\ Due' = matcher.due  BY DEF MatcherWrites, Due
    <2>2. g \in DOMAIN PmEvents /\ g \in matcher.due  BY <2>1 DEF Due
    <2>3. matches'[g] = Rematched(g, matches[g], saw)  BY <1>3, <2>2
    <2> QED BY <1>4, <2>1, <2>2, <2>3
  <1>7. caughtUp' \in BOOLEAN  BY DEF MatcherWrites
  <1> QED BY <1>2, <1>5, <1>6, <1>7 DEF MatcherWrites, MatchInv, RowsOK

\* A step of the matcher keeps the invariant; a failed cycle commits nothing.
LEMMA MatcherKeeps ==
    ASSUME MatchInv, MatcherNext
    PROVE  MatchInv'
  <1>1. CASE MatcherFails
    <2>1. matcher' \in [busy : BOOLEAN, due : SUBSET DOMAIN PmEvents, saw : Seen]
      <3>1. [x \in DOMAIN Exts |-> {}] \in Seen  BY DEF Seen, Kickoffs
      <3> HIDE DEF Seen
      <3> QED BY <1>1, <3>1 DEF MatcherFails, MatcherIdle
    <2>2. MatchesBest' = MatchesBest  BY <1>1 DEF MatcherFails, MatchesBest, Due
    <2> QED BY <1>1, <2>1, <2>2 DEF MatcherFails, MatchInv
  <1> QED BY <1>1, MatcherReadsKeeps, MatcherWritesKeeps DEF MatcherNext

\* A listing, a postponement or a tick keeps it: the matches are behind.
LEMMA FeedsKeepMatches ==
    ASSUME MatchInv, Tick \/ \E x \in DOMAIN Exts, at \in Times : Listing(x, at)
    PROVE  MatchInv'
  <1>1. now \in Int /\ MaxNow \in Int /\ listings \in Int /\ MaxListings \in Int
    <2>1. MaxListings \in Nat /\ MaxNow \in Nat
      BY MatchingAssumption, Zenon DEF MatchingAssumption
    <2> QED BY <2>1 DEF MatchInv
  <1>2. CASE Tick
    <2>1. now' \in 0 .. MaxNow  BY <1>1, <1>2 DEF Tick, MatchInv
    <2>2. MatchesBest'  BY <1>2 DEF Tick, MatchesBest
    <2> QED BY <1>2, <2>1, <2>2 DEF Tick, MatchInv
  <1>3. ASSUME NEW x \in DOMAIN Exts, NEW at \in Times, Listing(x, at)  PROVE  MatchInv'
    <2>1. listings' \in 0 .. MaxListings  BY <1>1, <1>3 DEF Listing, MatchInv
    <2>2. start' \in Seen
      <3>1. {at} \in Kickoffs  BY DEF Kickoffs
      <3>2. start' = [start EXCEPT ![x] = {at}]  BY <1>3 DEF Listing
      <3> HIDE DEF Kickoffs
      <3> QED BY <3>1, <3>2 DEF MatchInv, Seen
    <2>3. MatchesBest'  BY <1>3 DEF Listing, MatchesBest
    <2> QED BY <1>3, <2>1, <2>2, <2>3 DEF Listing, MatchInv
  <1> QED BY <1>2, <1>3

(***************************************************************************)
(* The inductive invariant of the odds and of the engine.  A book has one   *)
(* snapshot for an outcome.  The rows the engine has read for its event are *)
(* such snapshots of the events that it is matched with, and its            *)
(* probabilities are those of these rows.                                   *)
(***************************************************************************)
SnapsOK(snaps) ==
    /\ \A r \in snaps : r \in [outcome : Outcomes, odd : Nat \ {0}, at : Nat] /\ r.at <= now
    /\ \A r, q \in snaps : r.outcome = q.outcome => r = q

OddsInv ==
    /\ DOMAIN odds = DOMAIN Exts
    /\ \A x \in DOMAIN Exts : /\ odds[x] = [b \in BooksOf[Exts[x].source] |-> odds[x][b]]
                              /\ \A b \in BooksOf[Exts[x].source] : SnapsOK(odds[x][b])

RowFrom(g, r) ==
    r \in [ext : MayMatch(g), book : Books, outcome : Outcomes, odd : Nat \ {0}]

EvidenceOK(g, rows) ==
    /\ \A r \in rows : RowFrom(g, r)
    /\ \A r, q \in rows : r.ext = q.ext /\ r.book = q.book /\ r.outcome = q.outcome => r = q

ExtsOf(rows) == {rows[i].ext : i \in DOMAIN rows}

CurrentOK(g) ==
    /\ g \notin engine.todo /\ engine.matches[g] # <<>>
    /\ EvidenceOK(g, engine.rows)
    /\ \A r \in engine.rows : r.ext \in ExtsOf(engine.matches[g])
    /\ engine.pc = "odds" =>
          /\ engine.unread \in RowsOK(g)
          /\ \A i \in DOMAIN engine.unread : /\ engine.unread[i].ext \in ExtsOf(engine.matches[g])
                                             /\ \A r \in engine.rows : r.ext # engine.unread[i].ext
    /\ engine.pc = "tokens" =>
          /\ engine.probs = ProbsByBook(engine.rows, engine.matches[g])
          /\ engine.tokens \subseteq {t \in DOMAIN Tokens : Tokens[t].event = g}

Fields == {"pc", "matches", "now", "start", "todo", "event", "unread", "rows", "probs", "tokens", "log"}

EngineInv ==
    /\ DOMAIN engine = Fields
    /\ engine.pc \in {"idle", "matches", "events", "odds", "tokens"}
    /\ engine.now \in Nat /\ engine.now <= now
    /\ engine.event \in {{}} \cup {{g} : g \in DOMAIN PmEvents}
    /\ (engine.pc \in {"odds", "tokens"}) = (engine.event # {})
    /\ engine.pc # "idle" => \A g \in DOMAIN PmEvents : engine.matches[g] \in RowsOK(g)
    /\ engine.todo \subseteq {g \in DOMAIN PmEvents : engine.matches[g] # <<>>}
    /\ \A g \in DOMAIN PmEvents : engine.event = {g} => CurrentOK(g)

PricesOK ==
    /\ poly = [t \in DOMAIN Tokens |-> poly[t]]
    /\ \A t \in DOMAIN Tokens : \E p \in Prices : poly[t] = p[t]

DecideInv == MatchInv /\ OddsInv /\ EngineInv /\ scrapes \in 0 .. MaxScrapes /\ PricesOK

-----------------------------------------------------------------------------
(* The odds *)

\* A scrape replaces the snapshots of the outcomes on offer with newer ones.
LEMMA ScrapedKeeps ==
    ASSUME OddsInv, now \in Nat, NEW x \in DOMAIN Exts, NEW b \in BooksOf[Exts[x].source],
           NEW m \in Markets[x], Scraped(x, b, m)
    PROVE  OddsInv'
  <1> DEFINE old == odds[x][b]
             fresh == {[outcome |-> o, odd |-> m[o], at |-> now] : o \in DOMAIN m}
             new == {r \in old : r.outcome \notin DOMAIN m} \cup fresh
  <1>1. now' = now  BY DEF Scraped, matchVars
  <1>2. /\ \A y \in DOMAIN Exts : odds[y] = [c \in BooksOf[Exts[y].source] |-> odds[y][c]]
        /\ DOMAIN odds = DOMAIN Exts
        /\ \A y \in DOMAIN Exts : \A c \in BooksOf[Exts[y].source] : SnapsOK(odds[y][c])
    BY DEF OddsInv
  <1>3. odds' = [odds EXCEPT ![x][b] = new]  BY DEF Scraped
  <1>4. /\ DOMAIN odds' = DOMAIN Exts
        /\ \A y \in DOMAIN Exts : y # x => odds'[y] = odds[y]
        /\ odds'[x] = [odds[x] EXCEPT ![b] = new]
    <2> HIDE DEF new
    <2> QED BY <1>2, <1>3
  <1>5. odds'[x] = [c \in BooksOf[Exts[x].source] |-> IF c = b THEN new ELSE odds[x][c]]
    <2> HIDE DEF new
    <2> QED BY <1>2, <1>4
  <1>6. \A r \in fresh : /\ r \in [outcome : Outcomes, odd : Nat \ {0}, at : Nat] /\ r.at = now
                         /\ r.outcome \in DOMAIN m
    <2> SUFFICES ASSUME NEW o \in DOMAIN m
                 PROVE  [outcome |-> o, odd |-> m[o], at |-> now]
                              \in [outcome : Outcomes, odd : Nat \ {0}, at : Nat]
      OBVIOUS
    <2>1. m[o] \in Nat \ {0}  BY DecideAssumption, Zenon DEF DecideAssumption
    <2>2. o \in Outcomes  BY DEF Outcomes
    <2> QED BY <2>1, <2>2
  <1>7. SnapsOK(new)
    <2>1. SnapsOK(old)  BY <1>2
    <2>2. \A r \in new : r \in [outcome : Outcomes, odd : Nat \ {0}, at : Nat] /\ r.at <= now
      <3>1. \A r \in old : r \in [outcome : Outcomes, odd : Nat \ {0}, at : Nat] /\ r.at <= now
        BY <2>1 DEF SnapsOK
      <3>2. now <= now  OBVIOUS
      <3>3. \A r \in new : r \in old \/ r \in fresh  OBVIOUS
      <3> HIDE DEF new, old, fresh
      <3> QED BY <1>6, <3>1, <3>2, <3>3
    <2>3. \A r, q \in new : r.outcome = q.outcome => r = q
      <3>1. \A r, q \in old : r.outcome = q.outcome => r = q  BY <2>1 DEF SnapsOK
      <3>2. \A r, q \in fresh : r.outcome = q.outcome => r = q  OBVIOUS
      <3>3. \A r \in new : (r \in old /\ r.outcome \notin DOMAIN m)
                             \/ (r \in fresh /\ r.outcome \in DOMAIN m)
        BY <1>6
      <3> HIDE DEF new, old, fresh
      <3> QED BY <3>1, <3>2, <3>3
    <2> HIDE DEF new
    <2> QED BY <2>2, <2>3 DEF SnapsOK
  <1>8. ASSUME NEW y \in DOMAIN Exts  PROVE  odds'[y] = [c \in BooksOf[Exts[y].source] |-> odds'[y][c]]
    <2> HIDE DEF new
    <2> QED BY <1>2, <1>4, <1>5
  <1>9. ASSUME NEW y \in DOMAIN Exts, NEW c \in BooksOf[Exts[y].source]
        PROVE  SnapsOK(odds[y][c])'
    <2>1. CASE y = x /\ c = b
      <3>1. odds'[y][c] = new  BY <1>5, <2>1
      <3> HIDE DEF new
      <3> QED BY <1>1, <1>7, <2>1, <3>1 DEF SnapsOK
    <2>2. CASE ~(y = x /\ c = b)
      <3>1. odds'[y][c] = odds[y][c]
        <4> HIDE DEF new
        <4> QED BY <1>4, <1>5, <2>2
      <3>2. SnapsOK(odds[y][c])  BY <1>2
      <3> QED BY <1>1, <3>1, <3>2 DEF SnapsOK
    <2> QED BY <2>1, <2>2
  <1> HIDE DEF new
  <1> QED BY <1>4, <1>8, <1>9 DEF OddsInv

\* The snapshots stay what they are while the clock runs.
LEMMA OddsAge ==
    ASSUME OddsInv, odds' = odds, now \in Nat, now' \in Nat, now <= now'
    PROVE  OddsInv'
  <1>1. ASSUME NEW snaps, SnapsOK(snaps)
        PROVE  SnapsOK(snaps)'
    BY <1>1 DEF SnapsOK
  <1> QED BY <1>1 DEF OddsInv

-----------------------------------------------------------------------------
(* The rows the engine reads *)

\* An external event has one row at most among the matches of an event.
LEMMA OneRowPerExt ==
    ASSUME NEW g, NEW rows \in RowsOK(g), NEW i \in DOMAIN rows, NEW j \in DOMAIN rows,
           rows[i].ext = rows[j].ext
    PROVE  i = j
  BY DEF RowsOK, RowOK, OneRowEach

\* What one SELECT returns are the fresh snapshots of its event.
LEMMA FreshRows ==
    ASSUME OddsInv, NEW g \in DOMAIN PmEvents, NEW x \in MayMatch(g), engine.now \in Nat
    PROVE  EvidenceOK(g, FreshOf(x)) /\ \A r \in FreshOf(x) : r.ext = x
  <1> DEFINE Of(b, r) == [ext |-> x, book |-> b, outcome |-> r.outcome, odd |-> r.odd]
             Kept(b)  == {q \in odds[x][b] : q.at + MaxAge >= engine.now}
             S        == BooksOf[Exts[x].source]
  <1>1. x \in DOMAIN Exts  BY DEF MayMatch
  <1>2. DOMAIN odds[x] = S
    <2>1. odds[x] = [b \in S |-> odds[x][b]]  BY <1>1 DEF OddsInv
    <2>2. DOMAIN [b \in S |-> odds[x][b]] = S  OBVIOUS
    <2> QED BY <2>1, <2>2
  <1>3. S \subseteq Books
    <2>1. Exts[x].source \in DOMAIN BooksOf
      BY <1>1, DecideAssumption, Zenon DEF DecideAssumption
    <2> QED BY <2>1 DEF Books
  <1>4. \A b \in S : SnapsOK(odds[x][b])  BY <1>1 DEF OddsInv
  <1> HIDE DEF S
  <1>5. \A f : f \in FreshOf(x) <=> \E b \in S : \E r \in Kept(b) : f = Of(b, r)
    BY <1>2 DEF FreshOf
  <1>6. \A b \in S : \A r \in Kept(b) : RowFrom(g, Of(b, r))
    <2> SUFFICES ASSUME NEW b \in S, NEW r \in Kept(b)  PROVE  RowFrom(g, Of(b, r))
      OBVIOUS
    <2>1. r \in [outcome : Outcomes, odd : Nat \ {0}, at : Nat]  BY <1>4 DEF SnapsOK
    <2>2. b \in Books  BY <1>3
    <2> QED BY <2>1, <2>2 DEF RowFrom
  <1>7. ASSUME NEW b \in S, NEW r \in Kept(b), NEW c \in S, NEW q \in Kept(c), Of(b, r).book = Of(c, q).book,
               Of(b, r).outcome = Of(c, q).outcome
        PROVE  Of(b, r) = Of(c, q)
    <2>1. b = c /\ r.outcome = q.outcome  BY <1>7
    <2>2. r = q  BY <1>4, <2>1 DEF SnapsOK
    <2> QED BY <2>1, <2>2
  <1>9. \A f \in FreshOf(x) : f.ext = x /\ RowFrom(g, f)
    <2>1. \A b, r : Of(b, r).ext = x  OBVIOUS
    <2> HIDE DEF Of, Kept
    <2> QED BY <1>5, <1>6, <2>1
  <1>10. \A f, h \in FreshOf(x) : f.book = h.book /\ f.outcome = h.outcome => f = h
    <2> HIDE DEF Of, Kept
    <2> QED BY <1>5, <1>7
  <1> QED BY <1>9, <1>10 DEF EvidenceOK

\* Rows of different events go together.
LEMMA EvidenceGrows ==
    ASSUME NEW g, NEW rows, NEW more, EvidenceOK(g, rows), EvidenceOK(g, more),
           \A r \in rows, q \in more : r.ext # q.ext
    PROVE  EvidenceOK(g, rows \cup more)
  BY DEF EvidenceOK

-----------------------------------------------------------------------------
(* The steps of the engine *)

\* Between cycles the engine holds nothing.
LEMMA IdleEngine ==
    ASSUME engine = EngineIdle, now \in Nat
    PROVE  EngineInv
  <1>1. /\ DOMAIN engine = Fields /\ engine.pc = "idle" /\ engine.now = 0
        /\ engine.event = {} /\ engine.todo = {}
    BY DEF EngineIdle, Fields
  <1>2. 0 <= now  OBVIOUS
  <1> QED BY <1>1, <1>2 DEF EngineInv

\* What leaves the engine alone leaves its invariant alone.
LEMMA EngineStutters ==
    ASSUME EngineInv, engine' = engine, now \in Nat, now' \in Nat, now <= now'
    PROVE  EngineInv'
  <1>1. engine.now <= now'  BY DEF EngineInv
  <1>2. \A g \in DOMAIN PmEvents : CurrentOK(g) => CurrentOK(g)'  BY DEF CurrentOK
  <1> QED BY <1>1, <1>2 DEF EngineInv

\* The engine loads the matches.
LEMMA LoadMatchesKeeps ==
    ASSUME MatchInv, EngineInv, LoadMatches
    PROVE  EngineInv'
  <1>1. now' = now /\ now \in Nat /\ 0 <= now
    <2>1. MaxNow \in Nat  BY MatchingAssumption, Zenon DEF MatchingAssumption
    <2> QED BY <2>1 DEF LoadMatches, matchVars, MatchInv
  <1>2. /\ DOMAIN engine' = Fields /\ engine'.pc = "matches" /\ engine'.now = 0
        /\ engine'.event = {} /\ engine'.todo = {} /\ engine'.matches = matches
    BY DEF LoadMatches, EngineIdle, Fields
  <1>3. \A g \in DOMAIN PmEvents : matches[g] \in RowsOK(g)  BY DEF MatchInv
  <1> QED BY <1>1, <1>2, <1>3 DEF EngineInv

\* It loads the kickoffs of the events it has matches for.
LEMMA LoadEventsKeeps ==
    ASSUME MatchInv, EngineInv, LoadEvents
    PROVE  EngineInv'
  <1>1. now' = now /\ now \in Nat /\ now <= now
    <2>1. MaxNow \in Nat  BY MatchingAssumption, Zenon DEF MatchingAssumption
    <2> QED BY <2>1 DEF LoadEvents, matchVars, MatchInv
  <1>2. /\ DOMAIN engine' = Fields /\ engine'.pc = "events" /\ engine'.now = now
        /\ engine'.event = engine.event /\ engine'.matches = engine.matches
        /\ engine'.todo = {g \in DOMAIN PmEvents : engine.matches[g] # <<>>}
    BY DEF LoadEvents, Fields, EngineInv
  <1>3. engine.pc = "matches" /\ engine.event = {}  BY DEF LoadEvents, EngineInv
  <1>4. \A g \in DOMAIN PmEvents : engine.matches[g] \in RowsOK(g)  BY <1>3 DEF EngineInv
  <1> HIDE DEF Fields
  <1> QED BY <1>1, <1>2, <1>3, <1>4 DEF EngineInv

\* It passes an event that is not due.
LEMMA PassWindowKeeps ==
    ASSUME EngineInv, NEW h \in DOMAIN PmEvents, PassWindow(h)
    PROVE  EngineInv'
  <1>1. /\ DOMAIN engine' = Fields /\ engine'.pc = "events" /\ engine'.now = engine.now
        /\ engine'.event = engine.event /\ engine'.matches = engine.matches
        /\ engine'.todo = engine.todo \ {h}
    BY DEF PassWindow, Fields, EngineInv
  <1>2. engine.pc = "events" /\ engine.event = {} /\ now' = now
    BY DEF PassWindow, EngineInv, matchVars
  <1> HIDE DEF Fields
  <1> QED BY <1>1, <1>2 DEF EngineInv

\* It takes up an event that is due, with all its matches unread.
LEMMA EnterKeeps ==
    ASSUME EngineInv, NEW h \in DOMAIN PmEvents, Enter(h)
    PROVE  EngineInv'
  <1>1. /\ DOMAIN engine' = Fields /\ engine'.pc = "odds" /\ engine'.now = engine.now
        /\ engine'.event = {h} /\ engine'.matches = engine.matches /\ engine'.rows = {}
        /\ engine'.unread = engine.matches[h] /\ engine'.todo = engine.todo \ {h}
    BY DEF Enter, Fields, EngineInv
  <1>2. engine.pc = "events" /\ h \in engine.todo /\ now' = now
    BY DEF Enter, EngineInv, matchVars
  <1>3. engine.matches[h] # <<>> /\ engine.matches[h] \in RowsOK(h)
    BY <1>2 DEF EngineInv
  <1>4. CurrentOK(h)'
    <2>1. EvidenceOK(h, {})  BY DEF EvidenceOK
    <2>2. \A i \in DOMAIN engine.matches[h] : engine.matches[h][i].ext \in ExtsOf(engine.matches[h])
      BY DEF ExtsOf
    <2> HIDE DEF Fields
    <2> QED BY <1>1, <1>3, <2>1, <2>2 DEF CurrentOK
  <1>5. \A g \in DOMAIN PmEvents : engine'.event = {g} => g = h  BY <1>1
  <1> HIDE DEF Fields
  <1> QED BY <1>1, <1>2, <1>4, <1>5 DEF EngineInv

\* It reads the fresh snapshots of the next match.
LEMMA ReadOddsKeeps ==
    ASSUME OddsInv, EngineInv, ReadOdds
    PROVE  EngineInv'
  <1> DEFINE head == Head(engine.unread)
             x    == head.ext
  <1>1. engine.pc = "odds" /\ engine.unread # <<>> /\ now' = now  BY DEF ReadOdds, matchVars
  <1>2. /\ DOMAIN engine' = Fields /\ engine'.pc = engine.pc /\ engine'.now = engine.now
        /\ engine'.event = engine.event /\ engine'.matches = engine.matches
        /\ engine'.todo = engine.todo
        /\ engine'.rows = engine.rows \cup FreshOf(x) /\ engine'.unread = Tail(engine.unread)
    <2> HIDE DEF x
    <2> QED BY DEF ReadOdds, Fields, EngineInv, x, head
  <1>3. PICK h \in DOMAIN PmEvents : engine.event = {h}  BY <1>1 DEF EngineInv
  <1>4. CurrentOK(h)  BY <1>3 DEF EngineInv
  <1>5. /\ engine.unread \in RowsOK(h) /\ EvidenceOK(h, engine.rows)
        /\ \A r \in engine.rows : r.ext \in ExtsOf(engine.matches[h])
        /\ \A i \in DOMAIN engine.unread : /\ engine.unread[i].ext \in ExtsOf(engine.matches[h])
                                           /\ \A r \in engine.rows : r.ext # engine.unread[i].ext
    BY <1>1, <1>4 DEF CurrentOK
  <1> DEFINE u == engine.unread
             v == Tail(u)
  <1>6. u \in Seq(Match) /\ u # <<>>  BY <1>1, <1>5 DEF RowsOK
  <1> HIDE DEF u
  <1>7. /\ v \in Seq(Match) /\ 1 \in DOMAIN u /\ head = u[1]
        /\ \A i \in DOMAIN v : i + 1 \in DOMAIN u /\ v[i] = u[i + 1] /\ i + 1 # 1 /\ i \in Int
    BY <1>6 DEF u
  <1>8. u \in RowsOK(h)  BY <1>5 DEF u
  <1>9. x \in MayMatch(h)  BY <1>7, <1>8 DEF RowsOK, RowOK
  <1> HIDE DEF head, v
  <1>10. v \in RowsOK(h)
    <2>1. \A i \in DOMAIN v : RowOK(h, v[i])  BY <1>7, <1>8 DEF RowsOK
    <2>2. OneRowEach(v)
      <3>1. OneRowEach(u)  BY <1>8 DEF RowsOK
      <3>2. \A i, j \in DOMAIN v : v[i].source = v[j].source => i + 1 = j + 1
        BY <1>7, <3>1 DEF OneRowEach
      <3> QED BY <1>7, <3>2 DEF OneRowEach
    <2> QED BY <1>7, <2>1, <2>2 DEF RowsOK
  <1>11. \A i \in DOMAIN v : v[i].ext # x
    <2> SUFFICES ASSUME NEW i \in DOMAIN v, v[i].ext = x  PROVE  FALSE
      OBVIOUS
    <2>1. u[i + 1].ext = u[1].ext /\ i + 1 \in DOMAIN u /\ 1 \in DOMAIN u  BY <1>7
    <2>2. i + 1 = 1  BY <1>8, <2>1, OneRowPerExt
    <2> QED BY <1>7, <2>2
  <1>12. x \in ExtsOf(engine.matches[h]) /\ \A r \in engine.rows : r.ext # x
    BY <1>5, <1>7 DEF u
  <1>13. EvidenceOK(h, FreshOf(x)) /\ \A r \in FreshOf(x) : r.ext = x
    <2>1. engine.now \in Nat  BY DEF EngineInv
    <2> HIDE DEF x
    <2> QED BY <1>9, <2>1, FreshRows
  <1> HIDE DEF x
  <1>14. EvidenceOK(h, engine.rows \cup FreshOf(x))
    <2>1. \A r \in engine.rows, q \in FreshOf(x) : r.ext # q.ext  BY <1>12, <1>13
    <2> QED BY <1>5, <1>13, <2>1, EvidenceGrows
  <1>15. CurrentOK(h)'
    <2>1. engine'.unread = v  BY <1>2 DEF v, u
    <2>2. \A i \in DOMAIN v : v[i].ext \in ExtsOf(engine.matches[h])  BY <1>5, <1>7 DEF u
    <2>3. \A i \in DOMAIN v : \A r \in engine.rows : r.ext # v[i].ext  BY <1>5, <1>7 DEF u
    <2>4. \A r \in engine'.rows : r.ext \in ExtsOf(engine.matches[h])
      BY <1>2, <1>5, <1>12, <1>13
    <2>5. \A i \in DOMAIN v : \A r \in engine'.rows : r.ext # v[i].ext
      BY <1>2, <1>11, <1>13, <2>3
    <2>6. h \notin engine.todo /\ engine.matches[h] # <<>>  BY <1>4 DEF CurrentOK
    <2>7. engine'.pc = "odds"  BY <1>1, <1>2
    <2> HIDE DEF Fields
    <2> QED BY <1>2, <1>10, <1>14, <2>1, <2>2, <2>4, <2>5, <2>6, <2>7 DEF CurrentOK
  <1>16. \A g \in DOMAIN PmEvents : engine'.event = {g} => g = h  BY <1>2, <1>3
  <1> HIDE DEF Fields
  <1> QED BY <1>1, <1>2, <1>15, <1>16 DEF EngineInv

\* It has the probabilities of its event, or has done with it.
LEMMA DeviggedKeeps ==
    ASSUME EngineInv, NEW h \in DOMAIN PmEvents, Devigged(h)
    PROVE  EngineInv'
  <1> DEFINE probs == ProbsByBook(engine.rows, engine.matches[h])
             ts    == {t \in DOMAIN Tokens : Tokens[t].event = h}
  <1>1. engine.pc = "odds" /\ engine.event = {h} /\ now' = now  BY DEF Devigged, matchVars
  <1>2. CurrentOK(h) /\ DOMAIN engine = Fields  BY <1>1 DEF EngineInv
  <1>3. engine' = IF probs = <<>> THEN [engine EXCEPT !.pc = "events", !.event = {}, !.rows = {}]
                  ELSE [engine EXCEPT !.pc = "tokens", !.probs = probs, !.tokens = ts]
    BY DEF Devigged
  <1> HIDE DEF probs, ts
  <1>4. CASE probs = <<>>
    <2>1. /\ DOMAIN engine' = Fields /\ engine'.pc = "events" /\ engine'.now = engine.now
          /\ engine'.event = {} /\ engine'.matches = engine.matches /\ engine'.todo = engine.todo
      BY <1>2, <1>3, <1>4 DEF Fields
    <2> HIDE DEF Fields
    <2> QED BY <1>1, <2>1 DEF EngineInv
  <1>5. CASE probs # <<>>
    <2>1. /\ DOMAIN engine' = Fields /\ engine'.pc = "tokens" /\ engine'.now = engine.now
          /\ engine'.event = engine.event /\ engine'.matches = engine.matches
          /\ engine'.todo = engine.todo /\ engine'.rows = engine.rows
          /\ engine'.probs = probs /\ engine'.tokens = ts
      BY <1>2, <1>3, <1>5 DEF Fields
    <2> HIDE DEF Fields
    <2>2. CurrentOK(h)'  BY <1>2, <2>1 DEF CurrentOK, probs, ts
    <2>3. \A g \in DOMAIN PmEvents : engine'.event = {g} => g = h  BY <1>1, <2>1
    <2> QED BY <1>1, <2>1, <2>2, <2>3 DEF EngineInv
  <1> QED BY <1>4, <1>5

\* It takes the tokens of the event one after the other.
LEMMA EvaluateKeeps ==
    ASSUME EngineInv, NEW h \in DOMAIN PmEvents, NEW t, Evaluate(h, t)
    PROVE  EngineInv'
  <1>1. engine.pc = "tokens" /\ engine.event = {h} /\ now' = now  BY DEF Evaluate, matchVars
  <1>2. CurrentOK(h) /\ DOMAIN engine = Fields  BY <1>1 DEF EngineInv
  <1>3. /\ DOMAIN engine' = Fields /\ engine'.pc = "tokens" /\ engine'.now = engine.now
        /\ engine'.event = engine.event /\ engine'.matches = engine.matches
        /\ engine'.todo = engine.todo /\ engine'.rows = engine.rows
        /\ engine'.probs = engine.probs /\ engine'.tokens \subseteq engine.tokens
    BY <1>1, <1>2 DEF Evaluate, Fields
  <1> HIDE DEF Fields
  <1>4. CurrentOK(h)'  BY <1>1, <1>2, <1>3 DEF CurrentOK
  <1>5. \A g \in DOMAIN PmEvents : engine'.event = {g} => g = h  BY <1>1, <1>3
  <1> QED BY <1>1, <1>3, <1>4, <1>5 DEF EngineInv

\* It goes on to the next event.
LEMMA EventDoneKeeps ==
    ASSUME EngineInv, EventDone
    PROVE  EngineInv'
  <1>1. now' = now /\ engine.pc = "tokens"  BY DEF EventDone, matchVars
  <1>2. /\ DOMAIN engine' = Fields /\ engine'.pc = "events" /\ engine'.now = engine.now
        /\ engine'.event = {} /\ engine'.matches = engine.matches /\ engine'.todo = engine.todo
    BY DEF EventDone, EngineInv, Fields
  <1> HIDE DEF Fields
  <1> QED BY <1>1, <1>2 DEF EngineInv

\* Every step of the engine keeps its invariant.
LEMMA EngineKeeps ==
    ASSUME MatchInv, OddsInv, EngineInv, EngineNext
    PROVE  EngineInv'
  <1>1. CASE CommitLog \/ CycleFails
    <2>1. engine' = EngineIdle /\ now' = now  BY <1>1 DEF CommitLog, CycleFails, matchVars
    <2>2. now \in Nat
      <3>1. MaxNow \in Nat  BY MatchingAssumption, Zenon DEF MatchingAssumption
      <3> QED BY <3>1 DEF MatchInv
    <2>3. (engine = EngineIdle /\ now \in Nat)'  BY <2>1, <2>2
    <2>4. \A f : f = EngineIdle =>
             /\ DOMAIN f = Fields /\ f.pc = "idle" /\ f.now = 0 /\ f.event = {} /\ f.todo = {}
      BY DEF EngineIdle, Fields
    <2>5. 0 <= now'  BY <2>3
    <2> HIDE DEF EngineIdle, Fields
    <2> QED BY <2>3, <2>4, <2>5 DEF EngineInv
  <1> QED BY <1>1, LoadMatchesKeeps, LoadEventsKeeps, PassWindowKeeps, EnterKeeps, ReadOddsKeeps,
             DeviggedKeeps, EvaluateKeeps, EventDoneKeeps DEF EngineNext

\* The engine reads what the others write.
LEMMA EngineWrites ==
    ASSUME EngineNext
    PROVE  UNCHANGED <<matchVars, odds, scrapes, poly>>
  BY DEF EngineNext, LoadMatches, LoadEvents, PassWindow, Enter, ReadOdds, Devigged, Evaluate,
         EventDone, CommitLog, CycleFails

-----------------------------------------------------------------------------
(* The specification *)

\* Every initial state satisfies the invariant.
LEMMA Starts ==
    ASSUME Init
    PROVE  DecideInv
  <1>1. MatchInv  BY MatchStarts DEF Init
  <1>2. now \in Nat /\ engine = EngineIdle  BY DEF Init, MatchInit, DecideInit
  <1>3. OddsInv
    <2>1. odds = [x \in DOMAIN Exts |-> [b \in BooksOf[Exts[x].source] |-> {}]]
      BY DEF Init, DecideInit
    <2>2. SnapsOK({})  BY DEF SnapsOK
    <2> QED BY <2>1, <2>2 DEF OddsInv
  <1>4. scrapes \in 0 .. MaxScrapes
    <2>1. MaxScrapes \in Nat  BY DecideAssumption, Zenon DEF DecideAssumption
    <2> QED BY <2>1 DEF Init, DecideInit
  <1>5. PricesOK
    <2>1. \A p \in Prices : p = [t \in DOMAIN Tokens |-> p[t]]
      BY DecideAssumption, Zenon DEF DecideAssumption
    <2>2. poly \in Prices  BY DEF Init, DecideInit
    <2> QED BY <2>1, <2>2 DEF PricesOK
  <1> QED BY <1>1, <1>2, <1>3, <1>4, <1>5, IdleEngine DEF DecideInv

\* The clock does not run back.
LEMMA NowGrows ==
    ASSUME DecideInv, [Next]_vars
    PROVE  now \in Nat /\ now' \in Nat /\ now <= now'
  <1>1. now \in Nat
    <2>1. MaxNow \in Nat  BY MatchingAssumption, Zenon DEF MatchingAssumption
    <2> QED BY <2>1 DEF DecideInv, MatchInv
  <1>2. CASE Tick  BY <1>1, <1>2 DEF Tick
  <1>3. CASE ~Tick
    <2>1. now' = now
      <3>1. CASE EngineNext  BY <3>1, EngineWrites DEF matchVars
      <3>2. CASE Feeds \/ MatcherNext
        BY <1>3, <3>2 DEF Feeds, Scraped, Priced, matchVars, Listing, MatcherNext, MatcherReads,
                          MatcherWrites, MatcherFails
      <3>3. CASE UNCHANGED vars  BY <3>3 DEF vars, matchVars
      <3> QED BY <3>1, <3>2, <3>3 DEF Next
    <2> QED BY <1>1, <2>1
  <1> QED BY <1>2, <1>3

\* Every step keeps the invariant.
LEMMA Keeps ==
    ASSUME DecideInv, [Next]_vars
    PROVE  DecideInv'
  <1>1. MatchInv /\ OddsInv /\ EngineInv /\ PricesOK  BY DEF DecideInv
  <1>2. now \in Nat /\ now' \in Nat /\ now <= now'  BY NowGrows
  <1>3. CASE EngineNext
    <2>1. UNCHANGED <<matchVars, odds, scrapes, poly>>  BY <1>3, EngineWrites
    <2>2. MatchInv'  BY <1>1, <2>1, MatchStutters
    <2>3. OddsInv'  BY <1>1, <1>2, <2>1, OddsAge
    <2>4. EngineInv'  BY <1>1, <1>3, EngineKeeps
    <2>5. PricesOK'  BY <1>1, <2>1 DEF PricesOK
    <2> QED BY <2>1, <2>2, <2>3, <2>4, <2>5 DEF DecideInv
  <1>4. ASSUME NEW x \in DOMAIN Exts, NEW b \in BooksOf[Exts[x].source], NEW m \in Markets[x],
               Scraped(x, b, m)
        PROVE  DecideInv'
    <2>1. UNCHANGED <<matchVars, poly, engine>>  BY <1>4 DEF Scraped
    <2>2. MatchInv'  BY <1>1, <2>1, MatchStutters
    <2>3. EngineInv'  BY <1>1, <1>2, <2>1, EngineStutters
    <2>4. OddsInv'  BY <1>1, <1>2, <1>4, ScrapedKeeps
    <2>5. scrapes' \in 0 .. MaxScrapes
      <3>1. MaxScrapes \in Nat  BY DecideAssumption, Zenon DEF DecideAssumption
      <3> QED BY <1>4, <3>1 DEF Scraped, DecideInv
    <2>6. PricesOK'  BY <1>1, <2>1 DEF PricesOK
    <2> QED BY <2>2, <2>3, <2>4, <2>5, <2>6 DEF DecideInv
  <1>7. ASSUME NEW p \in Prices, NEW t \in DOMAIN Tokens, Priced(t, p[t])
        PROVE  DecideInv'
    <2>1. UNCHANGED <<matchVars, odds, engine>> /\ poly' = [poly EXCEPT ![t] = p[t]]
      BY <1>7 DEF Priced
    <2>2. MatchInv' /\ OddsInv' /\ EngineInv'
      BY <1>1, <1>2, <2>1, MatchStutters, OddsAge, EngineStutters
    <2>3. PricesOK'  BY <1>1, <2>1 DEF PricesOK
    <2>4. scrapes' \in 0 .. MaxScrapes
      <3>1. MaxScrapes \in Nat  BY DecideAssumption, Zenon DEF DecideAssumption
      <3> QED BY <1>7, <3>1 DEF Priced, DecideInv
    <2> QED BY <2>2, <2>3, <2>4 DEF DecideInv
  <1>5. CASE (Tick \/ \E x \in DOMAIN Exts, at \in Times : Listing(x, at)) /\ UNCHANGED decideVars
    <2>1. UNCHANGED <<odds, scrapes, poly, engine>>  BY <1>5 DEF decideVars
    <2>2. MatchInv'  BY <1>1, <1>5, FeedsKeepMatches
    <2>3. OddsInv' /\ EngineInv'  BY <1>1, <1>2, <2>1, OddsAge, EngineStutters
    <2>4. PricesOK'  BY <1>1, <2>1 DEF PricesOK
    <2> QED BY <2>1, <2>2, <2>3, <2>4 DEF DecideInv
  <1>6. CASE (MatcherNext /\ UNCHANGED decideVars) \/ UNCHANGED vars
    <2>1. UNCHANGED <<odds, scrapes, poly, engine>>  BY <1>6 DEF decideVars, vars
    <2>2. MatchInv'
      <3>1. CASE MatcherNext  BY <1>1, <3>1, MatcherKeeps
      <3>2. CASE UNCHANGED vars
        <4>1. UNCHANGED matchVars  BY <3>2 DEF vars
        <4> QED BY <1>1, <4>1, MatchStutters
      <3> QED BY <1>6, <3>1, <3>2
    <2>3. OddsInv' /\ EngineInv'  BY <1>1, <1>2, <2>1, OddsAge, EngineStutters
    <2>4. PricesOK'  BY <1>1, <2>1 DEF PricesOK
    <2> QED BY <2>1, <2>2, <2>3, <2>4 DEF DecideInv
  <1> QED BY <1>3, <1>4, <1>5, <1>6, <1>7 DEF Next, Feeds

\* The invariant holds in every reachable state.
LEMMA Invariant == Spec => []DecideInv
  <1>1. Init => DecideInv  BY Starts
  <1>2. DecideInv /\ [Next]_vars => DecideInv'  BY Keeps
  <1> QED BY <1>1, <1>2, PTL DEF Spec

\* The type invariant of the matcher and the engine: every source has one row for
\* an event, an outcome one snapshot per book, and an event is at hand exactly
\* while its odds or tokens are (matcher.py, decision.py).
THEOREM TypeCorrect == Spec => []TypeOK
  <1>1. DecideInv => TypeOK
    <2> SUFFICES ASSUME DecideInv  PROVE  TypeOK
      OBVIOUS
    <2>1. MatchTypeOK  BY DEF DecideInv, MatchInv, MatchTypeOK, RowsOK, OneRowEach, Seen
    <2>2. ASSUME NEW x \in DOMAIN Exts, NEW b \in DOMAIN odds[x], NEW r \in odds[x][b], NEW q \in odds[x][b]
          PROVE  r.at <= now /\ (r.outcome = q.outcome => r = q)
      <3>1. b \in BooksOf[Exts[x].source]
        <4> DEFINE S == BooksOf[Exts[x].source]
        <4>1. odds[x] = [c \in S |-> odds[x][c]]  BY DEF DecideInv, OddsInv
        <4>2. DOMAIN [c \in S |-> odds[x][c]] = S  OBVIOUS
        <4> QED BY <4>1, <4>2
      <3>2. SnapsOK(odds[x][b])  BY <3>1 DEF DecideInv, OddsInv
      <3> QED BY <3>2 DEF SnapsOK
    <2>3. EngineInv /\ scrapes \in 0 .. MaxScrapes  BY DEF DecideInv
    <2> QED BY <2>1, <2>2, <2>3 DEF TypeOK, EngineInv
  <1> QED BY <1>1, Invariant, PTL

\* While the scraped events stand still, a cycle of the matcher leaves every
\* source that has a candidate for an event matched with its best one
\* (matcher.py:8-11).
THEOREM BestMatches == Spec => []MatchesBest
  <1>1. DecideInv => MatchesBest  BY DEF DecideInv, MatchInv
  <1> QED BY <1>1, Invariant, PTL

-----------------------------------------------------------------------------
(* The odds of one book by side *)

SideNames == {"home", "away", "draw"}

SideOf(r) == Sides[r.outcome][r.ext]

RowsOf(rows, b) == {r \in rows : r.book = b}

OnSide(rows, b, s) == {r \in rows : r.book = b /\ SideOf(r) = s}

Rank(order, r) == CHOOSE i \in DOMAIN order : order[i].ext = r.ext

FirstOn(rows, order, b, s) ==
    CHOOSE r \in OnSide(rows, b, s) :
        \A q \in OnSide(rows, b, s) : Rank(order, r) <= Rank(order, q)

\* RawOf by its parts.
LEMMA RawIs ==
    ASSUME NEW rows, NEW order, NEW b
    PROVE  /\ DOMAIN RawOf(rows, order, b) = {SideOf(r) : r \in RowsOf(rows, b)} \ {"none"}
           /\ \A s \in DOMAIN RawOf(rows, order, b) :
                 RawOf(rows, order, b)[s] = FirstOn(rows, order, b, s).odd
  <1> DEFINE D == {SideOf(r) : r \in RowsOf(rows, b)} \ {"none"}
  <1>1. RawOf(rows, order, b) = [s \in D |-> FirstOn(rows, order, b, s).odd]
    BY DEF RawOf, SideOf, RowsOf, OnSide, Rank, FirstOn
  <1> HIDE DEF D
  <1>2. /\ DOMAIN RawOf(rows, order, b) = D
        /\ \A s \in D : RawOf(rows, order, b)[s] = FirstOn(rows, order, b, s).odd
    BY <1>1
  <1> QED BY <1>2 DEF D

\* An outcome on offer is on one of the sides, or on none.
LEMMA SideType ==
    ASSUME NEW o, o \in Outcomes \/ \E t \in DOMAIN Tokens : Tokens[t].outcome = o,
           NEW x \in DOMAIN Exts
    PROVE  Sides[o][x] \in SideNames \cup {"none"}
  <1>1. o \in Outcomes \cup {Tokens[t].outcome : t \in DOMAIN Tokens}  OBVIOUS
  <1>2. Sides[o][x] = Side(o, x)
    <2> HIDE DEF Outcomes
    <2> QED BY <1>1 DEF Sides
  <1>3. Side(o, x) \in {"home", "away", "draw", "none"}  BY DEF Side
  <1> QED BY <1>2, <1>3 DEF SideNames

\* A row's rank is where its event is among the matches.
LEMMA RankIs ==
    ASSUME NEW g, NEW order \in RowsOK(g), NEW r, r.ext \in ExtsOf(order)
    PROVE  /\ Rank(order, r) \in Nat /\ Rank(order, r) \in DOMAIN order
           /\ order[Rank(order, r)].ext = r.ext
  <1>1. \E i \in DOMAIN order : order[i].ext = r.ext  BY DEF ExtsOf
  <1>2. Rank(order, r) \in DOMAIN order /\ order[Rank(order, r)].ext = r.ext  BY <1>1 DEF Rank
  <1>3. DOMAIN order \subseteq Nat  BY DEF RowsOK
  <1> QED BY <1>2, <1>3

\* The row that decides a side is one on this side, and none ranks before it.
LEMMA FirstIs ==
    ASSUME NEW g, NEW rows, NEW order \in RowsOK(g), \A r \in rows : r.ext \in ExtsOf(order),
           NEW b, NEW s, OnSide(rows, b, s) # {}
    PROVE  /\ FirstOn(rows, order, b, s) \in OnSide(rows, b, s)
           /\ \A q \in OnSide(rows, b, s) : Rank(order, FirstOn(rows, order, b, s)) <= Rank(order, q)
  <1> DEFINE S == OnSide(rows, b, s)
             T == {Rank(order, r) : r \in S}
  <1>1. S \subseteq rows  BY DEF OnSide
  <1>2. T \subseteq Nat /\ T # {}  BY <1>1, RankIs
  <1>3. \E n \in T : \A m \in T : n <= m
    <2> HIDE DEF T
    <2> QED BY <1>2, LeastNumber
  <1>4. \E r \in S : \A q \in S : Rank(order, r) <= Rank(order, q)  BY <1>3
  <1> QED BY <1>4 DEF FirstOn

\* The sides a book has odds on, which are positive and were on offer there.
LEMMA RawType ==
    ASSUME NEW g \in DOMAIN PmEvents, NEW rows, NEW order \in RowsOK(g), EvidenceOK(g, rows),
           \A r \in rows : r.ext \in ExtsOf(order), NEW b
    PROVE  LET raw == RawOf(rows, order, b) IN
           /\ DOMAIN raw \subseteq SideNames /\ IsFiniteSet(DOMAIN raw)
           /\ \A s \in DOMAIN raw :
                 LET r == FirstOn(rows, order, b, s) IN
                 /\ r \in rows /\ r.book = b /\ SideOf(r) = s /\ raw[s] = r.odd /\ r.odd \in Nat \ {0}
                 /\ \A q \in OnSide(rows, b, s) : Rank(order, r) <= Rank(order, q)
  <1> DEFINE raw == RawOf(rows, order, b)
  <1>1. /\ DOMAIN raw = {SideOf(r) : r \in RowsOf(rows, b)} \ {"none"}
        /\ \A s \in DOMAIN raw : raw[s] = FirstOn(rows, order, b, s).odd
    BY RawIs
  <1> HIDE DEF raw
  <1>2. \A r \in rows : r.outcome \in Outcomes /\ r.ext \in DOMAIN Exts /\ r.odd \in Nat \ {0}
    BY DEF EvidenceOK, RowFrom, MayMatch
  <1>3. \A r \in rows : SideOf(r) \in SideNames \cup {"none"}  BY <1>2, SideType DEF SideOf
  <1>4. DOMAIN raw \subseteq SideNames  BY <1>1, <1>3 DEF RowsOf
  <1>5. IsFiniteSet(DOMAIN raw)
    <2>1. IsFiniteSet(SideNames)
      <3>1. IsFiniteSet({})  BY FS_EmptySet
      <3>2. SideNames = (({} \cup {"home"}) \cup {"away"}) \cup {"draw"}  BY DEF SideNames
      <3> QED BY <3>1, <3>2, FS_AddElement
    <2> QED BY <1>4, <2>1, FS_Subset
  <1>6. ASSUME NEW s \in DOMAIN raw
        PROVE  LET r == FirstOn(rows, order, b, s) IN
               /\ r \in rows /\ r.book = b /\ SideOf(r) = s /\ raw[s] = r.odd /\ r.odd \in Nat \ {0}
               /\ \A q \in OnSide(rows, b, s) : Rank(order, r) <= Rank(order, q)
    <2> DEFINE r == FirstOn(rows, order, b, s)
    <2>1. OnSide(rows, b, s) # {}  BY <1>1 DEF OnSide, RowsOf
    <2>2. r \in OnSide(rows, b, s) /\ \A q \in OnSide(rows, b, s) : Rank(order, r) <= Rank(order, q)
      BY <2>1, FirstIs
    <2> HIDE DEF r
    <2>3. r \in rows /\ r.book = b /\ SideOf(r) = s  BY <2>2 DEF OnSide
    <2> QED BY <1>1, <1>2, <2>2, <2>3 DEF r
  <1> QED BY <1>4, <1>5, <1>6 DEF raw

OwnOf(row, b, x) == {r \in {q \in row.evidence : q.book = b} : r.ext = x}

\* Odds that are taken from one event are that event's, all of them.
LEMMA OwnIsTaken ==
    ASSUME NEW g \in DOMAIN PmEvents, NEW row, row.order \in RowsOK(g), EvidenceOK(g, row.evidence),
           \A r \in row.evidence : r.ext \in ExtsOf(row.order), NEW b, NEW x, TakenFrom(row, b, x)
    PROVE  LET raw == RawOf(row.evidence, row.order, b)
               own == OwnOf(row, b, x)
           IN  /\ \A s \in DOMAIN raw : FirstOn(row.evidence, row.order, b, s) \in own
               /\ SumFunction([q \in own |-> q.odd]) = SumFunction(raw)
  <1> DEFINE rows  == row.evidence
             order == row.order
             raw   == RawOf(rows, order, b)
             own   == OwnOf(row, b, x)
             odd   == [q \in own |-> q.odd]
             D     == DOMAIN raw
             h     == [s \in D |-> FirstOn(rows, order, b, s)]
  <1>1. /\ \A i, j \in DOMAIN order :
              order[i].ext = x /\ order[j].ext \in {r.ext : r \in RowsOf(rows, b)} => i <= j
        /\ {SideOf(r) : r \in RowsOf(rows, b)} = {SideOf(r) : r \in own}
        /\ \A r, q \in own : SideOf(r) = SideOf(q) => r = q
        /\ \A r \in own : SideOf(r) # "none"
    BY DEF TakenFrom, RowsOf, SideOf, OwnOf
  <1>2. D = {SideOf(r) : r \in RowsOf(rows, b)} \ {"none"}  BY RawIs
  <1>3. /\ IsFiniteSet(D)
        /\ \A s \in D : LET r == FirstOn(rows, order, b, s) IN
              /\ r \in rows /\ r.book = b /\ SideOf(r) = s /\ raw[s] = r.odd /\ r.odd \in Nat \ {0}
              /\ \A q \in OnSide(rows, b, s) : Rank(order, r) <= Rank(order, q)
    BY RawType
  <1>4. \A q \in own : q \in rows /\ q.book = b /\ q.ext = x  BY DEF OwnOf
  <1>5. order \in RowsOK(g) /\ \A r \in rows : r.ext \in ExtsOf(order)  OBVIOUS
  <1>6. \A q \in own : q.odd \in Nat \ {0}  BY <1>4 DEF EvidenceOK, RowFrom
  <1> HIDE DEF rows, order, raw, own
  <1>7. ASSUME NEW s \in D
        PROVE  FirstOn(rows, order, b, s) \in own
    <2> DEFINE p == FirstOn(rows, order, b, s)
    <2>1. PICK q \in own : SideOf(q) = s  BY <1>1, <1>2
    <2>2. q \in OnSide(rows, b, s)  BY <1>4, <2>1 DEF OnSide
    <2>3. p \in rows /\ p.book = b /\ Rank(order, p) <= Rank(order, q)  BY <1>3, <2>2
    <2> HIDE DEF p
    <2>4. /\ Rank(order, p) \in Nat /\ Rank(order, p) \in DOMAIN order
          /\ order[Rank(order, p)].ext = p.ext
          /\ Rank(order, q) \in Nat /\ Rank(order, q) \in DOMAIN order
          /\ order[Rank(order, q)].ext = x
      BY <1>4, <1>5, <2>3, RankIs
    <2>5. p.ext \in {r.ext : r \in RowsOf(rows, b)}  BY <2>3 DEF RowsOf
    <2>6. Rank(order, q) <= Rank(order, p)  BY <1>1, <2>4, <2>5
    <2>7. Rank(order, p) = Rank(order, q)  BY <2>3, <2>4, <2>6
    <2>8. p.ext = x  BY <2>4, <2>7
    <2> QED BY <2>3, <2>8 DEF own, OwnOf, rows, p
  <1>8. \A s \in D : h[s] = FirstOn(rows, order, b, s)  OBVIOUS
  <1>9. h \in [D -> own]  BY <1>7
  <1>10. \A q \in own : odd[q] = q.odd  OBVIOUS
  <1>11. DOMAIN odd = own  OBVIOUS
  <1> HIDE DEF h, odd, D
  <1>12. \A s, z \in D : h[s] = h[z] => s = z  BY <1>3, <1>8
  <1>13. \A q \in own : \E s \in D : h[s] = q
    <2> SUFFICES ASSUME NEW q \in own  PROVE  \E s \in D : h[s] = q
      OBVIOUS
    <2>1. SideOf(q) \in D  BY <1>1, <1>2
    <2>2. SideOf(h[SideOf(q)]) = SideOf(q) /\ h[SideOf(q)] \in own  BY <1>3, <1>7, <1>8, <2>1
    <2> QED BY <1>1, <2>1, <2>2
  <1>14. \A s \in D : raw[s] = odd[h[s]]  BY <1>3, <1>7, <1>8, <1>10
  <1>15. \A q \in own : odd[q] \in Int  BY <1>6, <1>10
  <1>16. SumFunctionOnSet(raw, D) = SumFunctionOnSet(odd, own)
    BY <1>3, <1>9, <1>12, <1>13, <1>14, <1>15, SumPaired
  <1>17. SumFunction(odd) = SumFunction(raw)  BY <1>11, <1>16 DEF SumFunction, D
  <1> QED BY <1>7, <1>17 DEF raw, own, rows, order, odd, D

-----------------------------------------------------------------------------
(* Probabilities *)

\* A devigged book has its sides, by their share of the total.
LEMMA DevigIs ==
    ASSUME NEW raw, Devig(raw) # <<>>
    PROVE  /\ SumFunction(raw) \in 90 .. 150 /\ DOMAIN Devig(raw) = DOMAIN raw
           /\ \A s \in DOMAIN raw : Devig(raw)[s] = (raw[s] * 1000) \div SumFunction(raw)
  <1> HIDE DEF SumFunction
  <1> QED BY DEF Devig

\* The books with probabilities are those of the rows that could be devigged.
LEMMA ProbsAre ==
    ASSUME NEW rows, NEW order
    PROVE  LET probs == ProbsByBook(rows, order) IN
           /\ DOMAIN probs \subseteq {r.book : r \in rows}
           /\ \A b \in DOMAIN probs : /\ Devig(RawOf(rows, order, b)) # <<>>
                                      /\ probs[b] = Devig(RawOf(rows, order, b))
  <1> DEFINE all == [b \in {r.book : r \in rows} |-> Devig(RawOf(rows, order, b))]
             good == {c \in DOMAIN all : all[c] # <<>>}
             probs == [b \in good |-> all[b]]
  <1>1. ProbsByBook(rows, order) = probs  BY DEF ProbsByBook
  <1>2. DOMAIN all = {r.book : r \in rows} /\ \A b \in DOMAIN all : all[b] = Devig(RawOf(rows, order, b))
    OBVIOUS
  <1> HIDE DEF all
  <1>3. DOMAIN probs = good /\ \A b \in good : probs[b] = all[b]  OBVIOUS
  <1>4. \A b \in good : all[b] # <<>> /\ b \in DOMAIN all  OBVIOUS
  <1> HIDE DEF good, probs
  <1> QED BY <1>1, <1>2, <1>3, <1>4

\* The weight of a book is a natural number.
LEMMA WeightType == \A b : Weight(b) \in Nat
  <1>1. \A b \in DOMAIN Weights : Weights[b] \in Nat
    BY DecideAssumption, Zenon DEF DecideAssumption
  <1> QED BY <1>1 DEF Weight

\* The consensus of some books is the weighted mean of those with a weight.
LEMMA ConsensusIs ==
    ASSUME NEW Q, IsFiniteSet(Q), NEW probs, DOMAIN probs = Q, \A b \in Q : probs[b] \in Nat,
           NEW f \in Consensus(probs)
    PROVE  LET W == {b \in Q : Weight(b) > 0}
               w == [b \in W |-> Weight(b)]
               p == [b \in W |-> Weight(b) * probs[b]]
           IN  /\ IsFiniteSet(W) /\ SumFunctionOnSet(w, W) \in Nat \ {0}
               /\ SumFunctionOnSet(p, W) \in Nat /\ f \in Nat
               /\ SumFunctionOnSet(w, W) * f <= SumFunctionOnSet(p, W)
               /\ SumFunctionOnSet(p, W) < SumFunctionOnSet(w, W) * (f + 1)
  <1> DEFINE W == {b \in Q : Weight(b) > 0}
             w == [b \in W |-> Weight(b)]
             p == [b \in W |-> Weight(b) * probs[b]]
             m == SumFunctionOnSet(p, W)
             n == SumFunctionOnSet(w, W)
  <1>1. IsFiniteSet(W)  BY FS_Subset
  <1>2. \A b \in W : w[b] \in Nat /\ p[b] \in Nat
    <2>1. \A i, j \in Nat : i * j \in Nat  OBVIOUS
    <2>2. \A b \in W : Weight(b) \in Nat /\ probs[b] \in Nat  BY WeightType
    <2>3. \A b \in W : w[b] = Weight(b) /\ p[b] = Weight(b) * probs[b]  OBVIOUS
    <2> HIDE DEF w, p, W
    <2> QED BY <2>1, <2>2, <2>3
  <1>3. DOMAIN w = W /\ DOMAIN p = W  OBVIOUS
  <1>4. Consensus(probs) = IF SumFunction(w) = 0 THEN {} ELSE {SumFunction(p) \div SumFunction(w)}
    BY DEF Consensus
  <1> HIDE DEF W, w, p
  <1>5. SumFunction(w) = n /\ SumFunction(p) = m  BY <1>3 DEF SumFunction
  <1>6. n \in Nat /\ m \in Nat  BY <1>1, <1>2, SumNat
  <1> HIDE DEF m, n
  <1>7. n # 0 /\ f = m \div n  BY <1>4, <1>5
  <1>8. f \in Nat /\ n * f <= m /\ m < n * (f + 1)
    <2>1. n \in Nat \ {0}  BY <1>6, <1>7
    <2> QED BY <1>6, <1>7, <2>1, Division
  <1> QED BY <1>1, <1>6, <1>7, <1>8 DEF m, n, w, p, W

\* A mean is not above all that it is the mean of.
LEMMA SomeBookAgrees ==
    ASSUME NEW probs, IsFiniteSet(DOMAIN probs), \A b \in DOMAIN probs : probs[b] \in Nat,
           NEW f \in Consensus(probs)
    PROVE  f \in Nat /\ \E b \in DOMAIN probs : Weight(b) > 0 /\ f <= probs[b]
  <1> DEFINE W == {b \in DOMAIN probs : Weight(b) > 0}
             w == [b \in W |-> Weight(b)]
             p == [b \in W |-> Weight(b) * probs[b]]
  <1>1. /\ IsFiniteSet(W) /\ SumFunctionOnSet(w, W) \in Nat \ {0}
        /\ SumFunctionOnSet(p, W) \in Nat /\ f \in Nat
        /\ SumFunctionOnSet(w, W) * f <= SumFunctionOnSet(p, W)
    BY ConsensusIs
  <1>2. \A b \in W : w[b] = Weight(b) /\ p[b] = Weight(b) * probs[b]  OBVIOUS
  <1>3. SUFFICES ASSUME \A b \in W : ~(f <= probs[b])  PROVE  FALSE
    BY <1>1
  <1>4. \A b \in W : Weight(b) \in Nat /\ probs[b] \in Nat  BY WeightType
  <1> HIDE DEF w, p, W
  <1>5. \A i, j, k \in Nat : j + 1 <= k => i * j + i <= k * i /\ i * j \in Nat  OBVIOUS
  <1>6. \A b \in W : /\ p[b] \in Nat /\ w[b] \in Nat /\ 1 * p[b] + 1 * w[b] <= f * w[b]
    <2> SUFFICES ASSUME NEW b \in W
                 PROVE  p[b] \in Nat /\ w[b] \in Nat /\ 1 * p[b] + 1 * w[b] <= f * w[b]
      OBVIOUS
    <2>1. w[b] \in Nat /\ probs[b] \in Nat /\ p[b] = w[b] * probs[b]  BY <1>2, <1>4
    <2>2. probs[b] + 1 <= f  BY <1>1, <1>3, <2>1
    <2>3. w[b] * probs[b] + w[b] <= f * w[b] /\ w[b] * probs[b] \in Nat  BY <1>1, <1>5, <2>1, <2>2
    <2> QED BY <2>1, <2>3
  <1>7. 1 * SumFunctionOnSet(p, W) + 1 * SumFunctionOnSet(w, W) <= f * SumFunctionOnSet(w, W)
    <2>1. 1 \in Nat  OBVIOUS
    <2> QED BY <1>1, <1>6, <2>1, SumBound
  <1> DEFINE m == SumFunctionOnSet(p, W)
             n == SumFunctionOnSet(w, W)
  <1>8. n * f = f * n /\ n * f \in Nat  BY <1>1
  <1> HIDE DEF m, n
  <1>9. m \in Nat /\ n \in Nat \ {0} /\ n * f <= m /\ m + n <= f * n
    BY <1>1, <1>7 DEF m, n
  <1> QED BY <1>8, <1>9

-----------------------------------------------------------------------------
(* BUYs *)

SideAt(g, t) == Sides[Tokens[t].outcome][Canonical(engine.matches[g])]

Quoting(g, t) == {b \in DOMAIN engine.probs : SideAt(g, t) \in DOMAIN engine.probs[b]}

Fair(g, t) == Consensus([b \in Quoting(g, t) |-> engine.probs[b][SideAt(g, t)]])

Ask(t) == (CHOOSE p \in poly[t] : TRUE).ask

\* A BUY has a side, a price and a fair value above the price by the margin.
LEMMA BuyIs ==
    ASSUME NEW g, NEW t, Verdict(g, t) = "BUY"
    PROVE  /\ SideAt(g, t) # "none" /\ poly[t] # {}
           /\ \E f \in Fair(g, t) : ~(f * 10 < Ask(t) * (100 + EvPercent))
  <1> DEFINE dear == \A f \in Fair(g, t) : f * 10 < Ask(t) * (100 + EvPercent)
             ask  == CHOOSE p \in poly[t] : TRUE
  <1>1. Verdict(g, t) = CASE SideAt(g, t) = "none" -> "NO_MAP"
                          [] poly[t] = {} -> "NO_POLY_SNAP"
                          [] Fair(g, t) = {} -> "DEVIG_FAILED"
                          [] Fair(g, t) \cap 50 .. 950 = {} -> "FAIR_BOUNDS"
                          [] ask.depth < MinDepth -> "LIQUIDITY"
                          [] dear -> "LOW_EV"
                          [] OTHER -> "BUY"
    BY DEF Verdict, SideAt, Quoting, Fair, Ask
  <1> HIDE DEF dear, ask
  <1>2. SideAt(g, t) # "none" /\ poly[t] # {} /\ ~dear  BY <1>1
  <1> QED BY <1>2 DEF dear

\* Prices are natural numbers.
LEMMA AskType ==
    ASSUME PricesOK, NEW t \in DOMAIN Tokens, poly[t] # {}
    PROVE  Ask(t) \in Nat
  <1>1. PICK p \in Prices : poly[t] = p[t]  BY DEF PricesOK
  <1>2. \A q \in p[t] : q.ask \in Nat  BY DecideAssumption, Zenon DEF DecideAssumption
  <1> QED BY <1>1, <1>2 DEF Ask

\* The canonical event of an event with matches is one of them.
LEMMA CanonicalIs ==
    ASSUME NEW g, NEW order \in RowsOK(g), order # <<>>
    PROVE  Canonical(order) \in MayMatch(g)
  <1> DEFINE P == {i \in DOMAIN order : order[i].source = "pinnacle"}
  <1>1. order \in Seq(Match) /\ DOMAIN order \subseteq Nat /\ 1 \in DOMAIN order  BY DEF RowsOK
  <1>2. \A i \in DOMAIN order : order[i].ext \in MayMatch(g)  BY DEF RowsOK, RowOK
  <1>3. P # {} => Min(P) \in P
    <2>1. P \subseteq Nat  BY <1>1
    <2> HIDE DEF P
    <2> SUFFICES ASSUME P # {}  PROVE  Min(P) \in P
      OBVIOUS
    <2>2. \E n \in P : \A m \in P : n <= m  BY <2>1, LeastNumber
    <2>3. \E n \in P : \A m \in P : m >= n  BY <2>1, <2>2
    <2> QED BY <2>3 DEF Min
  <1>4. Canonical(order) = order[IF P # {} THEN Min(P) ELSE 1].ext  BY DEF Canonical
  <1>5. P \subseteq DOMAIN order  OBVIOUS
  <1> HIDE DEF P
  <1> QED BY <1>1, <1>2, <1>3, <1>4, <1>5

\* The books with probabilities are finitely many, and the probabilities natural
\* numbers of sides.
LEMMA ProbsType ==
    ASSUME DecideInv, NEW g \in DOMAIN PmEvents, engine.event = {g}, engine.pc = "tokens"
    PROVE  /\ IsFiniteSet(DOMAIN engine.probs)
           /\ \A b \in DOMAIN engine.probs :
                 LET raw == RawOf(engine.rows, engine.matches[g], b) IN
                 /\ DOMAIN engine.probs[b] = DOMAIN raw /\ SumFunction(raw) \in 90 .. 150
                 /\ \A s \in DOMAIN raw :
                       /\ engine.probs[b][s] = (raw[s] * 1000) \div SumFunction(raw)
                       /\ engine.probs[b][s] \in Nat /\ raw[s] \in Nat
  <1> DEFINE rows == engine.rows
             order == engine.matches[g]
             probs == engine.probs
  <1>1. CurrentOK(g) /\ order \in RowsOK(g)  BY DEF DecideInv, EngineInv
  <1>2. /\ EvidenceOK(g, rows) /\ \A r \in rows : r.ext \in ExtsOf(order)
        /\ probs = ProbsByBook(rows, order)
    BY <1>1 DEF CurrentOK
  <1> HIDE DEF rows, order, probs
  <1>3. /\ DOMAIN probs \subseteq {r.book : r \in rows}
        /\ \A b \in DOMAIN probs : /\ Devig(RawOf(rows, order, b)) # <<>>
                                   /\ probs[b] = Devig(RawOf(rows, order, b))
    BY <1>2, ProbsAre
  <1>4. IsFiniteSet(DOMAIN probs)
    <2>1. {r.book : r \in rows} \subseteq Books  BY <1>2 DEF EvidenceOK, RowFrom
    <2>2. IsFiniteSet(Books)
      BY DecideAssumption, Zenon DEF DecideAssumption, Books
    <2>3. DOMAIN probs \subseteq Books  BY <1>3, <2>1
    <2> QED BY <2>2, <2>3, FS_Subset
  <1>5. ASSUME NEW b \in DOMAIN probs
        PROVE  LET raw == RawOf(rows, order, b) IN
               /\ DOMAIN probs[b] = DOMAIN raw /\ SumFunction(raw) \in 90 .. 150
               /\ \A s \in DOMAIN raw :
                     /\ probs[b][s] = (raw[s] * 1000) \div SumFunction(raw)
                     /\ probs[b][s] \in Nat /\ raw[s] \in Nat
    <2> DEFINE raw == RawOf(rows, order, b)
               sum == SumFunction(raw)
    <2>1. \A s \in DOMAIN raw : raw[s] \in Nat  BY <1>1, <1>2, RawType
    <2> HIDE DEF raw
    <2>2. probs[b] = Devig(raw) /\ Devig(raw) # <<>>  BY <1>3 DEF raw
    <2>3. /\ sum \in 90 .. 150 /\ DOMAIN probs[b] = DOMAIN raw
          /\ \A s \in DOMAIN raw : probs[b][s] = (raw[s] * 1000) \div sum
      BY <2>2, DevigIs
    <2> HIDE DEF sum
    <2>4. \A s \in DOMAIN raw : probs[b][s] \in Nat
      <3> SUFFICES ASSUME NEW s \in DOMAIN raw  PROVE  (raw[s] * 1000) \div sum \in Nat
        BY <2>3
      <3>1. raw[s] * 1000 \in Nat /\ sum \in Nat \ {0}  BY <2>1, <2>3
      <3> QED BY <3>1, Division
    <2> QED BY <2>1, <2>3, <2>4 DEF sum, raw
  <1> QED BY <1>4, <1>5 DEF rows, order, probs

BackedRow(row) == \E b \in {r.book : r \in row.evidence} : Weight(b) > 0 /\ Backs(row, b)

\* The row of a BUY of the event at hand
LEMMA RowIs ==
    ASSUME NEW g, NEW t, NEW row \in LogOf(g, t)
    PROVE  /\ Verdict(g, t) = "BUY" /\ row.token = t /\ row.ask = Ask(t)
           /\ row.evidence = engine.rows /\ row.order = engine.matches[g]
           /\ TokenSide(row) = SideAt(g, t)
  BY DEF LogOf, Ask, TokenSide, SideAt

\* A value that is not below a worthy one is worthy.
LEMMA WorthGrows ==
    ASSUME NEW f \in Nat, NEW p \in Nat, f <= p, NEW row, row.ask \in Nat, EvPercent \in Nat,
           Worth(f, row)
    PROVE  Worth(p, row)
  <1> DEFINE price == row.ask * (100 + EvPercent)
  <1>1. price \in Nat
    <2>1. \A i, j \in Nat : i * j \in Nat  OBVIOUS
    <2>2. 100 + EvPercent \in Nat  OBVIOUS
    <2> QED BY <2>1, <2>2
  <1>2. f * 10 >= price  BY DEF Worth
  <1> HIDE DEF price
  <1>3. p * 10 >= price  BY <1>1, <1>2
  <1> QED BY <1>3 DEF Worth, price

\* A BUY is logged with its evidence, which backs it.
LEMMA BuyIsBacked ==
    ASSUME DecideInv, NEW g \in DOMAIN PmEvents, engine.event = {g},
           engine.pc = "tokens", NEW t \in engine.tokens, NEW row \in LogOf(g, t)
    PROVE  BackedRow(row)
  <1> DEFINE rows  == row.evidence
             order == row.order
             s     == TokenSide(row)
             Q     == Quoting(g, t)
             probs == [b \in Q |-> engine.probs[b][s]]
             team  == Tokens[row.token].outcome
  <1>1. /\ Verdict(g, t) = "BUY" /\ row.token = t /\ row.ask = Ask(t)
        /\ rows = engine.rows /\ order = engine.matches[g] /\ s = SideAt(g, t)
    BY RowIs
  <1>2. CurrentOK(g) /\ order \in RowsOK(g)  BY <1>1 DEF DecideInv, EngineInv
  <1>3. /\ EvidenceOK(g, rows) /\ \A r \in rows : r.ext \in ExtsOf(order)
        /\ t \in DOMAIN Tokens
    BY <1>1, <1>2 DEF CurrentOK
  <1>4. row.ask \in Nat /\ EvPercent \in Nat
    <2>1. EvPercent \in Nat  BY DecideAssumption, Zenon DEF DecideAssumption
    <2>2. poly[t] # {}  BY <1>1, BuyIs
    <2> QED BY <1>1, <1>3, <2>1, <2>2, AskType DEF DecideInv
  <1>5. PICK f \in Fair(g, t) : ~(f * 10 < Ask(t) * (100 + EvPercent))  BY <1>1, BuyIs
  <1>6. Q \subseteq DOMAIN engine.probs /\ \A b \in Q : s \in DOMAIN engine.probs[b]
    BY <1>1 DEF Quoting
  <1>7. /\ IsFiniteSet(DOMAIN engine.probs)
        /\ \A b \in DOMAIN engine.probs :
              LET raw == RawOf(rows, order, b) IN
              /\ DOMAIN engine.probs[b] = DOMAIN raw /\ SumFunction(raw) \in 90 .. 150
              /\ \A z \in DOMAIN raw :
                    /\ engine.probs[b][z] = (raw[z] * 1000) \div SumFunction(raw)
                    /\ engine.probs[b][z] \in Nat /\ raw[z] \in Nat
    BY <1>1, ProbsType
  <1>8. f \in Consensus(probs)  BY <1>1 DEF Fair
  <1> HIDE DEF rows, order, s, Q
  <1>9. DOMAIN probs = Q /\ \A b \in Q : probs[b] = engine.probs[b][s]  OBVIOUS
  <1>10. IsFiniteSet(Q)  BY <1>6, <1>7, FS_Subset
  <1>11. \A b \in Q : probs[b] \in Nat  BY <1>6, <1>7, <1>9
  <1> HIDE DEF probs
  <1>12. f \in Nat /\ \E b \in Q : Weight(b) > 0 /\ f <= probs[b]
    BY <1>8, <1>9, <1>10, <1>11, SomeBookAgrees
  <1>13. PICK b \in Q : Weight(b) > 0 /\ f <= probs[b]  BY <1>12
  <1> DEFINE raw   == RawOf(rows, order, b)
             r     == FirstOn(rows, order, b, s)
             share == (1000 * raw[s]) \div SumFunction(raw)
  <1>14. /\ s \in DOMAIN raw /\ raw[s] \in Nat /\ SumFunction(raw) \in 90 .. 150
         /\ probs[b] = (raw[s] * 1000) \div SumFunction(raw)
    BY <1>6, <1>7, <1>9
  <1>15. r \in rows /\ r.book = b /\ SideOf(r) = s /\ raw[s] = r.odd
    <2>1. \A z \in DOMAIN RawOf(rows, order, b) :
             /\ FirstOn(rows, order, b, z) \in rows /\ FirstOn(rows, order, b, z).book = b
             /\ SideOf(FirstOn(rows, order, b, z)) = z
             /\ RawOf(rows, order, b)[z] = FirstOn(rows, order, b, z).odd
      BY <1>2, <1>3, RawType
    <2> QED BY <1>14, <2>1
  <1> HIDE DEF raw, r
  <1>16. probs[b] = share
    <2>1. raw[s] * 1000 = 1000 * raw[s]  BY <1>14
    <2> QED BY <1>14, <2>1
  <1>17. Worth(share, row)
    <2>1. Worth(f, row)
      <3> DEFINE price == row.ask * (100 + EvPercent)
      <3>1. ~(f * 10 < price)  BY <1>1, <1>5
      <3>2. price \in Nat
        <4>1. \A i, j \in Nat : i * j \in Nat  OBVIOUS
        <4>2. 100 + EvPercent \in Nat  BY <1>4
        <4> QED BY <1>4, <4>1, <4>2
      <3> HIDE DEF price
      <3>3. f * 10 >= price  BY <1>12, <3>1, <3>2
      <3> QED BY <3>3 DEF Worth, price
    <2>2. share \in Nat  BY <1>11, <1>16
    <2>3. f <= share  BY <1>13, <1>16
    <2> HIDE DEF share
    <2> QED BY <1>4, <1>12, <2>1, <2>2, <2>3, WorthGrows
  <1>18. ASSUME NEW x \in {q.ext : q \in rows}, TakenFrom(row, b, x)
         PROVE  OwnProb(rows, b, x, team) = share
    <2> DEFINE own == OwnOf(row, b, x)
               odd == [q \in own |-> q.odd]
               on  == {q \in own : q.outcome = team}
    <2>1. /\ \A z \in DOMAIN raw : FirstOn(rows, order, b, z) \in own
          /\ SumFunction(odd) = SumFunction(raw)
      BY <1>2, <1>3, <1>18, OwnIsTaken DEF rows, order, raw
    <2>2. r \in own  BY <1>14, <2>1 DEF r
    <2>3. /\ \A p, q \in own : SideOf(p) = SideOf(q) => p = q
          /\ \A q \in own : SideOf(q) = s <=> q.outcome = team
      BY <1>18 DEF TakenFrom, SideOf, OwnOf, s
    <2>4. on = {r}  BY <1>15, <2>2, <2>3
    <2>5. OwnProb(rows, b, x, team) =
             IF on = {} THEN 0 ELSE (1000 * (CHOOSE q \in on : TRUE).odd) \div SumFunction(odd)
      <3>1. own = {q \in rows : q.book = b /\ q.ext = x}  BY DEF OwnOf, rows
      <3> HIDE DEF own
      <3> QED BY <3>1 DEF OwnProb
    <2> DEFINE one == CHOOSE q \in on : TRUE
    <2>6. one = r /\ on # {}  BY <2>4
    <2> HIDE DEF on, odd, one, own
    <2>7. OwnProb(rows, b, x, team) = (1000 * one.odd) \div SumFunction(odd)  BY <2>5, <2>6 DEF one
    <2> QED BY <1>15, <2>1, <2>6, <2>7
  <1>19. Backs(row, b)
    <2>1. s \in DOMAIN raw /\ Worth(share, row)  BY <1>14, <1>17
    <2>2. \A x \in {q.ext : q \in rows} : TakenFrom(row, b, x) => Worth(OwnProb(rows, b, x, team), row)
      <3> HIDE DEF share
      <3> QED BY <1>17, <1>18
    <2> QED BY <2>1, <2>2 DEF Backs, raw, rows, order, s
  <1>20. b \in {q.book : q \in rows}  BY <1>15
  <1> QED BY <1>13, <1>19, <1>20 DEF BackedRow, rows

\* A step adds the BUY of one token to the log, commits it, drops it or keeps it.
LEMMA LogSteps ==
    ASSUME DecideInv, [Next]_vars
    PROVE  \/ \E g \in DOMAIN PmEvents, t \in DOMAIN Tokens :
                 /\ Evaluate(g, t) /\ logged' = logged
                 /\ engine'.log = engine.log \cup LogOf(g, t)
           \/ engine'.log = {} /\ logged' \in {logged, engine.log}
           \/ engine'.log = engine.log /\ logged' = logged
  <1>1. DOMAIN engine = Fields  BY DEF DecideInv, EngineInv
  <1>2. EngineIdle.log = {}  BY DEF EngineIdle
  <1>3. ASSUME NEW g \in DOMAIN PmEvents, NEW t \in DOMAIN Tokens, Evaluate(g, t)
        PROVE  logged' = logged /\ engine'.log = engine.log \cup LogOf(g, t)
    BY <1>1, <1>3 DEF Evaluate, Fields
  <1>4. CASE LoadMatches
    <2>1. engine'.log = {}  BY <1>4 DEF LoadMatches, EngineIdle
    <2> QED BY <1>4, <2>1 DEF LoadMatches
  <1>5. CASE CommitLog \/ CycleFails  BY <1>2, <1>5 DEF CommitLog, CycleFails
  <1>6. CASE LoadEvents \/ ReadOdds \/ EventDone
    BY <1>1, <1>6 DEF LoadEvents, ReadOdds, EventDone, Fields
  <1>7. ASSUME NEW g \in DOMAIN PmEvents, PassWindow(g) \/ Enter(g)
        PROVE  engine'.log = engine.log /\ logged' = logged
    BY <1>1, <1>7 DEF PassWindow, Enter, Fields
  <1>8. ASSUME NEW g \in DOMAIN PmEvents, Devigged(g)
        PROVE  engine'.log = engine.log /\ logged' = logged
    <2> DEFINE probs == ProbsByBook(engine.rows, engine.matches[g])
               ts    == {t \in DOMAIN Tokens : Tokens[t].event = g}
    <2>1. engine' = IF probs = <<>> THEN [engine EXCEPT !.pc = "events", !.event = {}, !.rows = {}]
                    ELSE [engine EXCEPT !.pc = "tokens", !.probs = probs, !.tokens = ts]
      BY <1>8 DEF Devigged
    <2>2. logged' = logged  BY <1>8 DEF Devigged
    <2> HIDE DEF probs, ts
    <2> QED BY <1>1, <2>1, <2>2 DEF Fields
  <1>9. CASE Feeds \/ (MatcherNext /\ UNCHANGED decideVars) \/ UNCHANGED vars
    <2>1. engine' = engine /\ logged' = logged  BY <1>9 DEF Feeds, Scraped, Priced, decideVars, vars
    <2> QED BY <2>1
  <1> QED BY <1>3, <1>4, <1>5, <1>6, <1>7, <1>8, <1>9 DEF Next, EngineNext

\* Averaging over books never invents an edge, whatever the sources list, call home
\* or leave out: a token is bought above its ask only when some weighted book thinks
\* so too by its own fresh odds, as the engine has put them together and, where it
\* has taken them from one event, as they stand there (decision.py:9, 264-266;
\* matcher.py:12-13).
THEOREM AveragesInventNoEdge == Spec => []BuysAreBacked
  <1> DEFINE AllBacked == \A row \in engine.log \cup logged : BackedRow(row)
             BackedInv == DecideInv /\ AllBacked
  <1>1. Init => BackedInv
    <2> SUFFICES ASSUME Init  PROVE  BackedInv
      OBVIOUS
    <2>1. engine.log = {} /\ logged = {}  BY DEF Init, DecideInit, EngineIdle
    <2> QED BY <2>1, Starts
  <1>2. BackedInv /\ [Next]_vars => BackedInv'
    <2> SUFFICES ASSUME DecideInv, AllBacked, [Next]_vars  PROVE  BackedInv'
      OBVIOUS
    <2>1. DecideInv'  BY Keeps
    <2>2. ASSUME NEW g \in DOMAIN PmEvents, NEW t \in DOMAIN Tokens, Evaluate(g, t)
          PROVE  \A row \in LogOf(g, t) : BackedRow(row)
      <3>1. engine.pc = "tokens" /\ engine.event = {g} /\ t \in engine.tokens
        BY <2>2 DEF Evaluate
      <3> QED BY <3>1, BuyIsBacked
    <2>3. (engine.log \cup logged)' \subseteq engine.log \cup logged
             \/ \E g \in DOMAIN PmEvents, t \in DOMAIN Tokens :
                   Evaluate(g, t) /\ (engine.log \cup logged)' = engine.log \cup logged \cup LogOf(g, t)
      BY LogSteps
    <2>4. AllBacked'  BY <2>2, <2>3
    <2> QED BY <2>1, <2>4
  <1>3. BackedInv => BuysAreBacked  BY DEF BuysAreBacked, BackedRow
  <1> HIDE DEF BackedInv
  <1> QED BY <1>1, <1>2, <1>3, PTL DEF Spec

(***************************************************************************)
(* The fair values of the tokens of an event's two sides add up to no more  *)
(* than 1 when every weighted book that passes the guard of devig_simple    *)
(* quotes both sides or neither (ev.py:66-69).                              *)
(***************************************************************************)
NoPartPasses(g, sides) ==
    \A b \in DOMAIN engine.probs :
        Weight(b) > 0 => sides \cap DOMAIN engine.probs[b] = {} \/ sides \subseteq DOMAIN engine.probs[b]

\* A row of the event at hand tells whether a part of a market has passed.
LEMMA PartsAreSeen ==
    ASSUME DecideInv, NEW g \in DOMAIN PmEvents, engine.event = {g}, engine.pc = "tokens",
           NEW row, row.evidence = engine.rows, row.order = engine.matches[g], NEW sides,
           ~\E r \in row.evidence : PartPasses(row, r.book, sides)
    PROVE  NoPartPasses(g, sides)
  <1> SUFFICES ASSUME NEW b \in DOMAIN engine.probs, Weight(b) > 0
               PROVE  sides \cap DOMAIN engine.probs[b] = {} \/ sides \subseteq DOMAIN engine.probs[b]
    BY DEF NoPartPasses
  <1>1. /\ DOMAIN engine.probs[b] = DOMAIN RawOf(row.evidence, row.order, b)
        /\ SumFunction(RawOf(row.evidence, row.order, b)) \in 90 .. 150
    BY ProbsType
  <1>2. \E r \in row.evidence : r.book = b
    <2>1. CurrentOK(g)  BY DEF DecideInv, EngineInv
    <2>2. engine.probs = ProbsByBook(engine.rows, engine.matches[g])  BY <2>1 DEF CurrentOK
    <2>3. DOMAIN engine.probs \subseteq {r.book : r \in engine.rows}  BY <2>2, ProbsAre
    <2> QED BY <2>3
  <1>3. ~PartPasses(row, b, sides)  BY <1>2
  <1> DEFINE raw == RawOf(row.evidence, row.order, b)
  <1>4. ~(Weight(b) > 0 /\ SumFunction(raw) \in 90 .. 150
            /\ sides \cap DOMAIN raw # {} /\ ~(sides \subseteq DOMAIN raw))
    BY <1>3 DEF PartPasses
  <1> HIDE DEF raw
  <1> QED BY <1>1, <1>4 DEF raw

\* Shares of a total do not add up to more than the whole.
LEMMA SharesAddUp ==
    ASSUME NEW raw, IsFiniteSet(DOMAIN raw), \A s \in DOMAIN raw : raw[s] \in Nat,
           SumFunction(raw) \in Nat \ {0}, NEW s \in DOMAIN raw, NEW z \in DOMAIN raw, s # z
    PROVE  (raw[s] * 1000) \div SumFunction(raw) + (raw[z] * 1000) \div SumFunction(raw) <= 1000
  <1> DEFINE D == DOMAIN raw
             n == SumFunction(raw)
             i == (raw[s] * 1000) \div n
             j == (raw[z] * 1000) \div n
             rest == SumFunctionOnSet(raw, (D \ {s}) \ {z})
  <1>1. raw[s] \in Nat /\ raw[z] \in Nat  OBVIOUS
  <1>2. raw[s] + raw[z] <= n
    <2>1. n = SumFunctionOnSet(raw, D)  BY DEF SumFunction
    <2>2. IsFiniteSet(D \ {s}) /\ IsFiniteSet((D \ {s}) \ {z})  BY FS_RemoveElement
    <2>3. n = raw[s] + SumFunctionOnSet(raw, D \ {s})  BY <2>1, SumTake
    <2>4. \A y \in D \ {s} : raw[y] \in Int  OBVIOUS
    <2>5. z \in D \ {s}  OBVIOUS
    <2>6. SumFunctionOnSet(raw, D \ {s}) = raw[z] + rest  BY <2>2, <2>4, <2>5, SumTake
    <2>7. rest \in Nat
      <3>1. \A y \in (D \ {s}) \ {z} : raw[y] \in Nat  OBVIOUS
      <3> QED BY <2>2, <3>1, SumNat
    <2> HIDE DEF D, n, rest
    <2> QED BY <1>1, <2>3, <2>6, <2>7
  <1>3. n \in Nat \ {0}  OBVIOUS
  <1> HIDE DEF n
  <1>4. raw[s] * 1000 \in Nat /\ raw[z] * 1000 \in Nat  BY <1>1
  <1>5. i \in Nat /\ n * i <= raw[s] * 1000  BY <1>3, <1>4, Division
  <1>6. j \in Nat /\ n * j <= raw[z] * 1000  BY <1>3, <1>4, Division
  <1> HIDE DEF i, j
  <1>7. \A k, l, m \in Nat : k * (l + m) = k * l + k * m /\ k * l \in Nat
                             /\ (l + 1 <= m => k * l + k <= k * m)
    OBVIOUS
  <1>8. SUFFICES ASSUME 1001 <= i + j  PROVE  FALSE
    BY <1>5, <1>6 DEF i, j, n
  <1>9. n * (i + j) = n * i + n * j /\ n * i \in Nat /\ n * j \in Nat  BY <1>3, <1>5, <1>6, <1>7
  <1>10. n * 1000 + n <= n * (i + j)  BY <1>3, <1>5, <1>6, <1>7, <1>8
  <1>11. n * (i + j) <= raw[s] * 1000 + raw[z] * 1000  BY <1>4, <1>5, <1>6, <1>9
  <1> QED BY <1>1, <1>2, <1>3, <1>9, <1>10, <1>11

\* The fair values of two tokens of an event on different sides are
\* not above 1 together.
LEMMA FairsAddUp ==
    ASSUME DecideInv, NEW g \in DOMAIN PmEvents, engine.event = {g},
           engine.pc = "tokens", NEW t \in DOMAIN Tokens, NEW u \in DOMAIN Tokens,
           SideAt(g, t) # SideAt(g, u), NoPartPasses(g, {SideAt(g, t), SideAt(g, u)}),
           NEW f \in Fair(g, t), NEW h \in Fair(g, u)
    PROVE  f \in Nat /\ h \in Nat /\ f + h <= 1000
  <1> DEFINE probs == engine.probs
             s     == SideAt(g, t)
             z     == SideAt(g, u)
             S     == Quoting(g, t)
             Z     == Quoting(g, u)
             ps    == [b \in S |-> probs[b][s]]
             pz    == [b \in Z |-> probs[b][z]]
             W     == {b \in S : Weight(b) > 0}
             V     == {b \in Z : Weight(b) > 0}
             w     == [b \in W |-> Weight(b)]
             vs    == [b \in W |-> Weight(b) * ps[b]]
             vz    == [b \in W |-> Weight(b) * pz[b]]
  <1>1. W = V
    <2>1. \A b \in DOMAIN probs : Weight(b) > 0 => (s \in DOMAIN probs[b] <=> z \in DOMAIN probs[b])
      BY DEF NoPartPasses
    <2> QED BY <2>1 DEF Quoting
  <1>2. f \in Consensus(ps) /\ h \in Consensus(pz)  BY DEF Fair
  <1>3. /\ S \subseteq DOMAIN probs /\ \A b \in S : s \in DOMAIN probs[b]
        /\ Z \subseteq DOMAIN probs /\ \A b \in Z : z \in DOMAIN probs[b]
    BY DEF Quoting
  <1>4. s # z  OBVIOUS
  <1>5. /\ IsFiniteSet(DOMAIN probs)
        /\ \A b \in DOMAIN probs : \A y \in DOMAIN probs[b] :
              /\ probs[b][y] \in Nat
              /\ s \in DOMAIN probs[b] /\ z \in DOMAIN probs[b] => probs[b][s] + probs[b][z] <= 1000
    <2>1. IsFiniteSet(DOMAIN probs)  BY ProbsType
    <2>2. ASSUME NEW b \in DOMAIN probs, NEW y \in DOMAIN probs[b]
          PROVE  /\ probs[b][y] \in Nat
                 /\ s \in DOMAIN probs[b] /\ z \in DOMAIN probs[b] => probs[b][s] + probs[b][z] <= 1000
      <3> DEFINE raw == RawOf(engine.rows, engine.matches[g], b)
      <3>1. /\ DOMAIN probs[b] = DOMAIN raw /\ SumFunction(raw) \in 90 .. 150
            /\ \A v \in DOMAIN raw : /\ probs[b][v] = (raw[v] * 1000) \div SumFunction(raw)
                                     /\ probs[b][v] \in Nat /\ raw[v] \in Nat
        BY ProbsType
      <3>2. IsFiniteSet(DOMAIN raw)
        <4>1. /\ engine.matches[g] \in RowsOK(g) /\ EvidenceOK(g, engine.rows)
              /\ \A r \in engine.rows : r.ext \in ExtsOf(engine.matches[g])
          BY DEF DecideInv, EngineInv, CurrentOK
        <4> QED BY <4>1, RawType
      <3>3. SumFunction(raw) \in Nat \ {0}  BY <3>1
      <3> HIDE DEF raw, s, z, probs
      <3>4. s \in DOMAIN raw /\ z \in DOMAIN raw =>
               (raw[s] * 1000) \div SumFunction(raw) + (raw[z] * 1000) \div SumFunction(raw) <= 1000
        BY <1>4, <3>1, <3>2, <3>3, SharesAddUp
      <3> QED BY <3>1, <3>4
    <2> QED BY <2>1, <2>2
  <1> HIDE DEF S, Z, probs, s, z
  <1>6. /\ DOMAIN ps = S /\ \A b \in S : ps[b] = probs[b][s]
        /\ DOMAIN pz = Z /\ \A b \in Z : pz[b] = probs[b][z]
    OBVIOUS
  <1> HIDE DEF ps, pz
  <1>7. /\ IsFiniteSet(S) /\ \A b \in S : ps[b] \in Nat
        /\ IsFiniteSet(Z) /\ \A b \in Z : pz[b] \in Nat
        /\ \A b \in W : ps[b] + pz[b] <= 1000 /\ ps[b] \in Nat /\ pz[b] \in Nat
    <2>1. IsFiniteSet(S) /\ IsFiniteSet(Z)  BY <1>3, <1>5, FS_Subset
    <2>2. (\A b \in S : ps[b] \in Nat) /\ (\A b \in Z : pz[b] \in Nat)  BY <1>3, <1>5, <1>6
    <2>3. \A b \in W : b \in S /\ b \in Z  BY <1>1
    <2>4. \A b \in W : ps[b] + pz[b] <= 1000  BY <1>3, <1>5, <1>6, <2>3
    <2> QED BY <2>1, <2>2, <2>3, <2>4
  <1> DEFINE n == SumFunctionOnSet(w, W)
             i == SumFunctionOnSet(vs, W)
             j == SumFunctionOnSet(vz, W)
  <1>8. IsFiniteSet(W) /\ n \in Nat \ {0} /\ i \in Nat /\ f \in Nat /\ n * f <= i
    <2>1. IsFiniteSet(S) /\ DOMAIN ps = S /\ \A b \in S : ps[b] \in Nat  BY <1>6, <1>7
    <2>2. f \in Consensus(ps)  BY <1>2
    <2> QED BY <2>1, <2>2, ConsensusIs
  <1>9. j \in Nat /\ h \in Nat /\ n * h <= j
    <2> DEFINE x == [b \in V |-> Weight(b)]
               y == [b \in V |-> Weight(b) * pz[b]]
    <2>1. IsFiniteSet(Z) /\ DOMAIN pz = Z /\ \A b \in Z : pz[b] \in Nat  BY <1>6, <1>7
    <2>2. h \in Consensus(pz)  BY <1>2
    <2>3. SumFunctionOnSet(y, V) \in Nat /\ h \in Nat
          /\ SumFunctionOnSet(x, V) * h <= SumFunctionOnSet(y, V)
      BY <2>1, <2>2, ConsensusIs
    <2> HIDE DEF W, V
    <2> QED BY <1>1, <2>3
  <1>10. 1 * i + 1 * j <= 1000 * n
    <2>1. \A b \in W : w[b] = Weight(b) /\ vs[b] = Weight(b) * ps[b] /\ vz[b] = Weight(b) * pz[b]
      OBVIOUS
    <2>2. \A b \in W : Weight(b) \in Nat /\ ps[b] \in Nat /\ pz[b] \in Nat /\ ps[b] + pz[b] <= 1000
      BY <1>7, WeightType
    <2> HIDE DEF W, w, vs, vz
    <2>3. \A k, l, m \in Nat : l + m <= 1000 => /\ k * l \in Nat /\ k * m \in Nat
                                                /\ k * l + k * m <= 1000 * k
      <3> SUFFICES ASSUME NEW k \in Nat, NEW l \in Nat, NEW m \in Nat, l + m <= 1000
                   PROVE  k * l \in Nat /\ k * m \in Nat /\ k * l + k * m <= 1000 * k
        OBVIOUS
      <3>1. k * l \in Nat /\ k * m \in Nat /\ k * (l + m) = k * l + k * m  OBVIOUS
      <3>2. \A x, y \in Nat : x <= y => k * x <= k * y  OBVIOUS
      <3>3. k * (l + m) <= k * 1000  BY <3>2
      <3> QED BY <3>1, <3>3
    <2>4. \A b \in W : /\ vs[b] \in Nat /\ vz[b] \in Nat /\ w[b] \in Nat
                       /\ 1 * vs[b] + 1 * vz[b] <= 1000 * w[b]
      <3> SUFFICES ASSUME NEW b \in W
                   PROVE  /\ vs[b] \in Nat /\ vz[b] \in Nat /\ w[b] \in Nat
                          /\ 1 * vs[b] + 1 * vz[b] <= 1000 * w[b]
        OBVIOUS
      <3>1. /\ w[b] * ps[b] \in Nat /\ w[b] * pz[b] \in Nat /\ w[b] \in Nat
            /\ w[b] * ps[b] + w[b] * pz[b] <= 1000 * w[b]
        BY <2>1, <2>2, <2>3
      <3>2. vs[b] = w[b] * ps[b] /\ vz[b] = w[b] * pz[b]  BY <2>1
      <3> HIDE <2>3
      <3> QED BY <3>1, <3>2
    <2>5. 1 \in Nat /\ 1000 \in Nat  OBVIOUS
    <2> QED BY <1>8, <2>4, <2>5, SumBound
  <1> HIDE DEF n, i, j
  <1>11. SUFFICES ASSUME 1001 <= f + h  PROVE  FALSE
    BY <1>8, <1>9
  <1>12. \A k, l, m \in Nat : k * (l + m) = k * l + k * m /\ k * l \in Nat
                              /\ (l + 1 <= m => k * l + k <= k * m)
    OBVIOUS
  <1>13. n * (f + h) = n * f + n * h /\ n * f \in Nat /\ n * h \in Nat  BY <1>8, <1>9, <1>12
  <1>14. n * 1000 + n <= n * (f + h)  BY <1>8, <1>9, <1>11, <1>12
  <1> QED BY <1>8, <1>9, <1>10, <1>13, <1>14

\* Two tokens that are worth their asks and the margin cost less than a dollar by
\* it together.
LEMMA PairIsCheap ==
    ASSUME NEW a \in Nat, NEW b \in Nat, NEW f \in Nat, NEW h \in Nat, f + h <= 1000,
           EvPercent \in Nat,
           ~(f * 10 < a * (100 + EvPercent)), ~(h * 10 < b * (100 + EvPercent))
    PROVE  (a + b) * (100 + EvPercent) <= 10000
  <1> DEFINE n == 100 + EvPercent
  <1>1. n \in Nat  OBVIOUS
  <1>2. a * n \in Nat /\ b * n \in Nat /\ (a + b) * n = a * n + b * n
    <2>1. \A i, j, k \in Nat : i * k \in Nat /\ j * k \in Nat /\ (i + j) * k = i * k + j * k  OBVIOUS
    <2> HIDE DEF n
    <2> QED BY <1>1, <2>1
  <1>3. ~(f * 10 < a * n) /\ ~(h * 10 < b * n)  OBVIOUS
  <1> HIDE DEF n
  <1>4. (a + b) * n <= 10000  BY <1>2, <1>3
  <1> QED BY <1>4 DEF n

(***************************************************************************)
(* The inductive invariant of the log: of an event that is still to be      *)
(* entered, or whose odds are being read, nothing is bought; what is bought *)
(* of the event at hand is below its fair value and logged with the odds at *)
(* hand; and of one event no two sides are bought for a dollar together.    *)
(***************************************************************************)
PairIsOne(row, other) ==
    LET sides == {TokenSide(row), TokenSide(other)}
    IN  /\ Tokens[row.token].event = Tokens[other.token].event
        /\ TokenSide(row) # TokenSide(other)
        /\ ~\E r \in row.evidence : PartPasses(row, r.book, sides)
        => (row.ask + other.ask) * (100 + EvPercent) <= 10000

Cheap(rows) == \A row, other \in rows : PairIsOne(row, other)

Valued(g, row) ==
    /\ row.evidence = engine.rows /\ row.order = engine.matches[g]
    /\ TokenSide(row) = SideAt(g, row.token)
    /\ \E f \in Fair(g, row.token) : ~(f * 10 < row.ask * (100 + EvPercent))

LogInv ==
    /\ \A row \in engine.log :
          /\ row.token \in DOMAIN Tokens /\ row.ask \in Nat
          /\ Tokens[row.token].event \notin engine.todo
          /\ \A g \in engine.event : Tokens[row.token].event = g =>
                engine.pc = "tokens" /\ Valued(g, row)
    /\ engine.pc \in {"idle", "matches"} => engine.log = {}
    /\ Cheap(engine.log) /\ Cheap(logged)

\* A BUY of the event at hand is valued, and so are those before it.
LEMMA EvaluateKeepsLog ==
    ASSUME DecideInv, LogInv, NEW g \in DOMAIN PmEvents, NEW t \in DOMAIN Tokens,
           Evaluate(g, t), logged' = logged, engine'.log = engine.log \cup LogOf(g, t)
    PROVE  LogInv'
  <1>1. /\ engine.pc = "tokens" /\ engine.event = {g} /\ t \in engine.tokens
        /\ UNCHANGED <<matchVars, odds, scrapes, poly>>
    BY DEF Evaluate
  <1>2. CurrentOK(g) /\ DOMAIN engine = Fields  BY <1>1 DEF DecideInv, EngineInv
  <1>3. g \notin engine.todo /\ Tokens[t].event = g  BY <1>1, <1>2 DEF CurrentOK
  <1>4. /\ engine'.pc = "tokens" /\ engine'.event = {g} /\ engine'.matches = engine.matches
        /\ engine'.todo = engine.todo /\ engine'.probs = engine.probs /\ engine'.rows = engine.rows
    BY <1>1, <1>2 DEF Evaluate, Fields
  <1>5. EvPercent \in Nat  BY DecideAssumption, Zenon DEF DecideAssumption
  <1>6. \A row \in LogOf(g, t) : row.token = t /\ row.ask \in Nat /\ Valued(g, row)
    <2> SUFFICES ASSUME NEW row \in LogOf(g, t)
                 PROVE  row.token = t /\ row.ask \in Nat /\ Valued(g, row)
      OBVIOUS
    <2>1. /\ Verdict(g, t) = "BUY" /\ row.token = t /\ row.ask = Ask(t)
          /\ row.evidence = engine.rows /\ row.order = engine.matches[g]
          /\ TokenSide(row) = SideAt(g, t)
      BY RowIs
    <2>2. /\ poly[t] # {}
          /\ \E f \in Fair(g, t) : ~(f * 10 < Ask(t) * (100 + EvPercent))
      BY <2>1, BuyIs
    <2>3. Ask(t) \in Nat  BY <2>2, AskType DEF DecideInv
    <2> QED BY <2>1, <2>2, <2>3 DEF Valued
  <1>7. \A row \in engine'.log :
           /\ row.token \in DOMAIN Tokens /\ row.ask \in Nat
           /\ Tokens[row.token].event \notin engine.todo
           /\ Tokens[row.token].event = g => Valued(g, row)
    <2>1. \A row \in engine.log :
             /\ row.token \in DOMAIN Tokens /\ row.ask \in Nat
             /\ Tokens[row.token].event \notin engine.todo
             /\ Tokens[row.token].event = g => Valued(g, row)
      BY <1>1 DEF LogInv
    <2> QED BY <1>3, <1>6, <2>1
  <1>8. \A row : Valued(g, row) => Valued(g, row)'
    <2>1. \A u : SideAt(g, u)' = SideAt(g, u)  BY <1>4 DEF SideAt
    <2>2. \A u : Fair(g, u)' = Fair(g, u)  BY <1>4, <2>1 DEF Fair, Quoting
    <2> QED BY <1>4, <2>1, <2>2 DEF Valued
  <1>9. ASSUME NEW row \in engine'.log, NEW other \in engine'.log  PROVE  PairIsOne(row, other)
    <2>1. CASE row \in engine.log /\ other \in engine.log  BY <2>1 DEF LogInv, Cheap
    <2>2. CASE row \in LogOf(g, t) \/ other \in LogOf(g, t)
      <3> SUFFICES ASSUME Tokens[row.token].event = Tokens[other.token].event,
                          TokenSide(row) # TokenSide(other),
                          ~\E r \in row.evidence :
                               PartPasses(row, r.book, {TokenSide(row), TokenSide(other)})
                   PROVE  (row.ask + other.ask) * (100 + EvPercent) <= 10000
        BY DEF PairIsOne
      <3>1. /\ row.token \in DOMAIN Tokens /\ other.token \in DOMAIN Tokens
            /\ Tokens[row.token].event = g /\ Tokens[other.token].event = g
        BY <1>3, <1>6, <1>7, <2>2
      <3>2. /\ row.ask \in Nat /\ other.ask \in Nat /\ Valued(g, row) /\ Valued(g, other)
        BY <1>7, <3>1
      <3>3. PICK f \in Fair(g, row.token) : ~(f * 10 < row.ask * (100 + EvPercent))
        BY <3>2 DEF Valued
      <3>4. PICK h \in Fair(g, other.token) : ~(h * 10 < other.ask * (100 + EvPercent))
        BY <3>2 DEF Valued
      <3>5. /\ row.evidence = engine.rows /\ row.order = engine.matches[g]
            /\ TokenSide(row) = SideAt(g, row.token) /\ TokenSide(other) = SideAt(g, other.token)
        BY <3>2 DEF Valued
      <3>6. NoPartPasses(g, {TokenSide(row), TokenSide(other)})  BY <1>1, <3>5, PartsAreSeen
      <3>7. f \in Nat /\ h \in Nat /\ f + h <= 1000  BY <1>1, <3>1, <3>5, <3>6, FairsAddUp
      <3> QED BY <1>5, <3>2, <3>3, <3>4, <3>7, PairIsCheap
    <2>3. \A r \in engine'.log : r \in engine.log \/ r \in LogOf(g, t)  OBVIOUS
    <2> QED BY <2>1, <2>2, <2>3
  <1>10. Cheap(engine.log)'  BY <1>9 DEF Cheap
  <1>11. Cheap(logged)'  BY DEF LogInv, Cheap
  <1>12. \A row \in engine'.log : \A k \in engine'.event : Tokens[row.token].event = k =>
            engine'.pc = "tokens" /\ Valued(k, row)'
    BY <1>4, <1>7, <1>8
  <1> QED BY <1>4, <1>7, <1>10, <1>11, <1>12 DEF LogInv

\* The other steps of the engine buy nothing, and enter an event with nothing
\* bought of it.
LEMMA EngineKeepsLog ==
    ASSUME DecideInv, LogInv, EngineNext
    PROVE  LogInv'
  <1>1. DOMAIN engine = Fields  BY DEF DecideInv, EngineInv
  <1>2. CASE LoadMatches \/ CommitLog \/ CycleFails
    <2>1. engine'.log = {} /\ logged' \in {logged, engine.log}
      <3>1. EngineIdle.log = {}  BY DEF EngineIdle
      <3>2. CASE LoadMatches  BY <3>2 DEF LoadMatches, EngineIdle
      <3>3. CASE CommitLog \/ CycleFails  BY <3>1, <3>3 DEF CommitLog, CycleFails
      <3> QED BY <1>2, <3>2, <3>3
    <2>2. Cheap(logged')  BY <2>1 DEF LogInv
    <2> QED BY <2>1, <2>2 DEF LogInv, Cheap
  <1>3. CASE LoadEvents
    <2>1. engine'.log = {} /\ logged' = logged
      BY <1>1, <1>3 DEF LoadEvents, LogInv, Fields
    <2> QED BY <2>1 DEF LogInv, Cheap
  <1>4. ASSUME NEW g \in DOMAIN PmEvents, PassWindow(g)  PROVE  LogInv'
    <2>1. /\ engine'.log = engine.log /\ logged' = logged /\ engine'.pc = "events"
          /\ engine'.todo \subseteq engine.todo /\ engine'.event = {}
      BY <1>1, <1>4 DEF PassWindow, Fields, DecideInv, EngineInv
    <2> HIDE DEF Fields
    <2> QED BY <2>1 DEF LogInv, Cheap
  <1>5. ASSUME NEW g \in DOMAIN PmEvents, Enter(g)  PROVE  LogInv'
    <2>1. /\ engine'.log = engine.log /\ logged' = logged /\ engine'.pc = "odds"
          /\ engine'.todo \subseteq engine.todo /\ engine'.event = {g} /\ g \in engine.todo
      BY <1>1, <1>5 DEF Enter, Fields
    <2> HIDE DEF Fields
    <2> QED BY <2>1 DEF LogInv, Cheap
  <1>6. CASE ReadOdds
    <2>1. /\ engine'.log = engine.log /\ logged' = logged /\ engine'.pc = engine.pc
          /\ engine'.todo = engine.todo /\ engine'.event = engine.event /\ engine.pc = "odds"
      BY <1>1, <1>6 DEF ReadOdds, Fields
    <2> HIDE DEF Fields
    <2> QED BY <2>1 DEF LogInv, Cheap
  <1>7. ASSUME NEW g \in DOMAIN PmEvents, Devigged(g)  PROVE  LogInv'
    <2> DEFINE probs == ProbsByBook(engine.rows, engine.matches[g])
               ts    == {t \in DOMAIN Tokens : Tokens[t].event = g}
    <2>1. engine' = IF probs = <<>> THEN [engine EXCEPT !.pc = "events", !.event = {}, !.rows = {}]
                    ELSE [engine EXCEPT !.pc = "tokens", !.probs = probs, !.tokens = ts]
      BY <1>7 DEF Devigged
    <2>2. logged' = logged /\ engine.pc = "odds" /\ engine.event = {g}  BY <1>7 DEF Devigged
    <2> HIDE DEF probs, ts
    <2>3. /\ engine'.log = engine.log /\ engine'.pc \in {"events", "tokens"}
          /\ engine'.todo = engine.todo /\ engine'.event \subseteq engine.event
      BY <1>1, <2>1 DEF Fields
    <2> HIDE DEF Fields
    <2> QED BY <2>2, <2>3 DEF LogInv, Cheap
  <1>8. ASSUME NEW g \in DOMAIN PmEvents, NEW t \in DOMAIN Tokens, Evaluate(g, t)  PROVE  LogInv'
    <2>1. logged' = logged /\ engine'.log = engine.log \cup LogOf(g, t)
      BY <1>1, <1>8 DEF Evaluate, Fields
    <2> QED BY <1>8, <2>1, EvaluateKeepsLog
  <1>9. CASE EventDone
    <2>1. /\ engine'.log = engine.log /\ logged' = logged /\ engine'.pc = "events"
          /\ engine'.todo = engine.todo /\ engine'.event = {}
      BY <1>1, <1>9 DEF EventDone, Fields
    <2> HIDE DEF Fields
    <2> QED BY <2>1 DEF LogInv, Cheap
  <1> QED BY <1>2, <1>3, <1>4, <1>5, <1>6, <1>7, <1>8, <1>9 DEF EngineNext

\* One cycle never buys two sides of an event for a dollar a pair, less the margin,
\* or more, which loses whoever wins, unless a weighted book that quotes one side
\* only has passed the guard (ev.py:66-69), whatever the sources list and whatever
\* the watcher writes between two tokens (decision.py:264-266).
THEOREM FairValuesAddUp == Spec => []NeverBothSides
  <1>1. Init => DecideInv /\ LogInv
    <2> SUFFICES ASSUME Init  PROVE  DecideInv /\ LogInv
      OBVIOUS
    <2>1. engine.log = {} /\ logged = {}  BY DEF Init, DecideInit, EngineIdle
    <2> QED BY <2>1, Starts DEF LogInv, Cheap
  <1>2. DecideInv /\ LogInv /\ [Next]_vars => (DecideInv /\ LogInv)'
    <2> SUFFICES ASSUME DecideInv, LogInv, [Next]_vars  PROVE  DecideInv' /\ LogInv'
      OBVIOUS
    <2>1. DecideInv'  BY Keeps
    <2>2. CASE EngineNext  BY <2>1, <2>2, EngineKeepsLog
    <2>3. CASE Feeds \/ (MatcherNext /\ UNCHANGED decideVars) \/ UNCHANGED vars
      <3>1. engine' = engine /\ logged' = logged  BY <2>3 DEF Feeds, Scraped, Priced, decideVars, vars
      <3>2. \A g, t : SideAt(g, t)' = SideAt(g, t)  BY <3>1 DEF SideAt
      <3>3. \A g, t : Fair(g, t)' = Fair(g, t)  BY <3>1, <3>2 DEF Fair, Quoting
      <3>4. \A g, row : Valued(g, row)' = Valued(g, row)  BY <3>1, <3>2, <3>3 DEF Valued
      <3>5. LogInv'  BY <3>1, <3>4 DEF LogInv, Cheap
      <3> QED BY <2>1, <3>5
    <2> QED BY <2>1, <2>2, <2>3 DEF Next
  <1>3. LogInv => NeverBothSides  BY DEF LogInv, Cheap, PairIsOne, NeverBothSides
  <1> QED BY <1>1, <1>2, <1>3, PTL DEF Spec
==============================================================================
