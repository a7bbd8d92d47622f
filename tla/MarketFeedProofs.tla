--------------------------- MODULE MarketFeedProofs ---------------------------
(***************************************************************************)
(* Proofs about MarketFeed for every catalogue, page size, token limit and  *)
(* set of prices: what the resolver returns, that every ticked branch of    *)
(* the tree is watched, that the tasks' state keeps its shape, and that the *)
(* newest snapshot of a token is the price last heard.                      *)
(***************************************************************************)
EXTENDS MarketFeed, SumProofs, FunctionTheorems

-----------------------------------------------------------------------------
(* What the resolver computes *)

\* What Chosen's recursion computes at i from what it computed below i.
Choice(s, S, g, i) ==
    IF i = 0 THEN <<>> ELSE IF s[i] \in S THEN Append(g[i - 1], s[i]) ELSE g[i - 1]

ChosenUpto(s, S) == CHOOSE g : g = [i \in 0 .. Len(s) |-> Choice(s, S, g, i)]

\* Chosen returns elements of the sequence that are in the set, and no others.
LEMMA ChosenIsSeq ==
    ASSUME NEW X, NEW s \in Seq(X), NEW S
    PROVE  Chosen(s, S) \in Seq(X \cap S)
  <1> DEFINE n == Len(s)
             V == Seq(X \cap S)
             F == [i \in 1 .. n |-> [w \in V |-> IF s[i] \in S THEN Append(w, s[i]) ELSE w]]
             c == ChosenUpto(s, S)
  <1>1. n \in Nat /\ <<>> \in V  OBVIOUS
  <1>2. ASSUME NEW i \in 1 .. n, NEW w \in V
        PROVE  (IF s[i] \in S THEN Append(w, s[i]) ELSE w) \in V
    <2>1. s[i] \in X  OBVIOUS
    <2> QED BY <2>1
  <1>3. F \in [1 .. n -> [V -> V]]  BY <1>2
  <1>4. \A i \in 1 .. n, w \in V : F[i][w] = IF s[i] \in S THEN Append(w, s[i]) ELSE w
    OBVIOUS
  <1> HIDE DEF F, V, n
  <1>5. PICK g \in [0 .. n -> V] : g[0] = <<>> /\ \A i \in 1 .. n : g[i] = F[i][g[i - 1]]
    <2>1. Unfolds(n, V, <<>>, F)  BY <1>1, <1>3, StepsExist
    <2> QED BY <2>1 DEF Unfolds
  <1>6. ASSUME NEW i \in 0 .. n  PROVE  g[i] = Choice(s, S, g, i)
    <2>1. CASE i = 0  BY <1>5, <2>1 DEF Choice
    <2>2. CASE i # 0
      <3>1. i \in 1 .. n /\ i - 1 \in 0 .. n  BY <1>1, <2>2
      <3>2. g[i - 1] \in V  BY <3>1
      <3> QED BY <1>4, <1>5, <2>2, <3>1, <3>2 DEF Choice
    <2> QED BY <2>1, <2>2
  <1>7. g = [i \in 0 .. n |-> Choice(s, S, g, i)]
    <2>1. g = [i \in 0 .. n |-> g[i]]  OBVIOUS
    <2> QED BY <1>6, <2>1
  <1>8. c = [i \in 0 .. n |-> Choice(s, S, c, i)]  BY <1>7 DEF ChosenUpto, n
  <1> HIDE DEF c
  <1>9. \A i \in 0 .. n : c[i] = Choice(s, S, c, i)  BY <1>8
  <1> DEFINE T == {i \in Nat : i <= n => c[i] \in V}
  <1>10. 0 \in T
    <2>1. 0 \in 0 .. n  BY <1>1
    <2>2. c[0] = <<>>  BY <1>9, <2>1 DEF Choice
    <2> QED BY <1>1, <2>2
  <1>11. ASSUME NEW i \in Nat, i \in T  PROVE  i + 1 \in T
    <2> SUFFICES ASSUME i + 1 <= n  PROVE  c[i + 1] \in V
      OBVIOUS
    <2>1. i + 1 \in 0 .. n /\ i + 1 # 0 /\ (i + 1) - 1 = i /\ i + 1 \in 1 .. n  BY <1>1
    <2>2. c[i] \in V  BY <1>1, <1>11
    <2>3. c[i + 1] = IF s[i + 1] \in S THEN Append(c[i], s[i + 1]) ELSE c[i]
      BY <1>9, <2>1 DEF Choice
    <2> QED BY <1>2, <2>1, <2>2, <2>3
  <1>12. Nat \subseteq T
    <2>1. \A i \in Nat : i \in T => i + 1 \in T  BY <1>11
    <2> HIDE DEF T
    <2> QED BY <1>10, <2>1, Induction
  <1>13. c[n] \in V  BY <1>1, <1>12
  <1>14. Chosen(s, S) = c[n]  BY DEF Chosen, ChosenUpto, Choice, c, n
  <1> QED BY <1>13, <1>14 DEF V

\* What FlattenSeq's recursion computes.
Flattened(seqs) ==
    CHOOSE g : g = [i \in 1 .. Len(seqs) |-> IF i = 1 THEN seqs[i] ELSE g[i - 1] \o seqs[i]]

\* Flattening sequences over a set yields a sequence over that set.
LEMMA FlattenIsSeq ==
    ASSUME NEW X, NEW seqs \in Seq(Seq(X))
    PROVE  FlattenSeq(seqs) \in Seq(X)
  <1>1. CASE Len(seqs) = 0
    <2>1. FlattenSeq(seqs) = seqs /\ seqs = <<>>  BY <1>1 DEF FlattenSeq
    <2> QED BY <2>1
  <1>2. CASE Len(seqs) # 0
    <2> DEFINE n == Len(seqs)
               V == Seq(X)
               F == [i \in 1 .. n |-> [w \in V |-> w \o seqs[i]]]
               c == Flattened(seqs)
    <2>1. n \in Nat /\ n # 0 /\ <<>> \in V  BY <1>2
    <2>2. \A i \in 1 .. n : seqs[i] \in V  OBVIOUS
    <2>3. \A i \in 1 .. n, w \in V : w \o seqs[i] \in V  BY <2>2
    <2>4. F \in [1 .. n -> [V -> V]]  BY <2>3
    <2>5. \A i \in 1 .. n, w \in V : F[i][w] = w \o seqs[i]  OBVIOUS
    <2>6. \A w \in V : <<>> \o w = w  OBVIOUS
    <2> HIDE DEF F, V, n
    <2>7. PICK g \in [0 .. n -> V] : g[0] = <<>> /\ \A i \in 1 .. n : g[i] = F[i][g[i - 1]]
      <3>1. Unfolds(n, V, <<>>, F)  BY <2>1, <2>4, StepsExist
      <3> QED BY <3>1 DEF Unfolds
    <2> DEFINE h == [i \in 1 .. n |-> g[i]]
    <2>8. ASSUME NEW i \in 1 .. n
          PROVE  h[i] = IF i = 1 THEN seqs[i] ELSE h[i - 1] \o seqs[i]
      <3>1. i - 1 \in 0 .. n  BY <2>1
      <3>2. g[i] = g[i - 1] \o seqs[i]  BY <2>5, <2>7, <3>1
      <3>3. CASE i = 1
        <4>1. g[i - 1] = <<>>  BY <2>7, <3>3
        <4> QED BY <2>2, <2>6, <3>2, <3>3, <4>1
      <3>4. CASE i # 1
        <4>1. i - 1 \in 1 .. n  BY <2>1, <3>4
        <4> QED BY <3>2, <3>4, <4>1
      <3> QED BY <3>3, <3>4
    <2>9. h = [i \in 1 .. n |-> IF i = 1 THEN seqs[i] ELSE h[i - 1] \o seqs[i]]
      <3>1. h = [i \in 1 .. n |-> h[i]]  OBVIOUS
      <3> HIDE DEF h
      <3> QED BY <2>8, <3>1
    <2> HIDE DEF h
    <2>10. c = [i \in 1 .. n |-> IF i = 1 THEN seqs[i] ELSE c[i - 1] \o seqs[i]]
      BY <2>9 DEF Flattened, n
    <2> HIDE DEF c
    <2>11. \A i \in 1 .. n : c[i] = IF i = 1 THEN seqs[i] ELSE c[i - 1] \o seqs[i]
      BY <2>10
    <2> DEFINE T == {i \in Nat : i + 1 <= n => c[i + 1] \in V}
    <2>12. 0 \in T
      <3>1. 1 \in 1 .. n /\ 0 + 1 = 1  BY <2>1
      <3>2. c[1] \in V  BY <2>2, <2>11, <3>1
      <3> QED BY <3>1, <3>2
    <2>13. ASSUME NEW i \in Nat, i \in T  PROVE  i + 1 \in T
      <3> SUFFICES ASSUME (i + 1) + 1 <= n  PROVE  c[(i + 1) + 1] \in V
        OBVIOUS
      <3>1. (i + 1) + 1 \in 1 .. n /\ (i + 1) + 1 # 1 /\ ((i + 1) + 1) - 1 = i + 1  BY <2>1
      <3>2. c[i + 1] \in V  BY <2>1, <2>13
      <3>3. c[(i + 1) + 1] = c[i + 1] \o seqs[(i + 1) + 1]  BY <2>11, <3>1
      <3> QED BY <2>3, <3>1, <3>2, <3>3
    <2>14. Nat \subseteq T
      <3>1. \A i \in Nat : i \in T => i + 1 \in T  BY <2>13
      <3> HIDE DEF T
      <3> QED BY <2>12, <3>1, Induction
    <2>15. c[n] \in V
      <3>1. n - 1 \in Nat /\ (n - 1) + 1 = n  BY <2>1
      <3>2. n - 1 \in T  BY <2>14, <3>1
      <3> QED BY <2>1, <3>1, <3>2
    <2>16. FlattenSeq(seqs) = c[n]  BY <1>2 DEF FlattenSeq, Flattened, c, n
    <2> QED BY <2>15, <2>16 DEF V
  <1> QED BY <1>1, <1>2

-----------------------------------------------------------------------------
(* The inductive invariant *)

FetchRecords == [busy : BOOLEAN, sel : SUBSET Offers, page : 0 .. MaxPages,
                 got : Seq(Events), done : BOOLEAN]

\* The tasks' state and the types that TypeOK gives it.
TypeInv ==
    /\ open \in SUBSET Events /\ tree \in SUBSET Events /\ filters \in SUBSET Offers
    /\ fetch \in [Fetchers -> FetchRecords]
    /\ watcher \in {"resolve", "persist", "idle", "connect", "stream", "backoff"}
    /\ check \in {"off", "sleep", "fetch", "closing", "dead"}
    /\ check = "off" <=> watcher # "stream"
    /\ index \in SUBSET Tokens /\ Cardinality(index) <= MaxTokens
    /\ tokenRows \in SUBSET Tokens /\ unlisted \in SUBSET Tokens /\ excused \in SUBSET Tokens
    /\ last \in [Tokens -> Quotes \cup {NoQuote}] /\ heard \in [Tokens -> Quotes \cup {NoQuote}]
    /\ emitting \in SUBSET Snapshot /\ \A r, s \in emitting : r = s
    /\ snapshots \in [Tokens -> SUBSET Snapshot]
    /\ \A t \in Tokens : \A r, s \in snapshots[t] : r = s /\ r.token = t

\* A fetch belongs to the step its task is at, and is done after its last page.
FetchInv ==
    /\ \A f \in Fetchers : /\ fetch[f].done => fetch[f].busy
                           /\ ~fetch[f].done => fetch[f].page < MaxPages
    /\ fetch["watcher"].busy => watcher = "resolve"
    /\ fetch["check"].busy => check = "fetch"

\* While a stream is open its tokens were upserted or are known not to have been.
ListedInv ==
    /\ watcher \in {"connect", "stream"} => index \subseteq tokenRows \cup unlisted
    /\ \A t \in Tokens : snapshots[t] # {} => t \in tokenRows \cup unlisted

\* What is being written is the last price heard of a token of the open stream.
HeardInv ==
    /\ last = heard
    /\ \A r \in emitting : watcher = "stream" /\ r.token \in index /\ r.quote = heard[r.token]
    /\ NewestIsLastHeard

FeedInv == TypeInv /\ FetchInv /\ ListedInv /\ HeardInv

-----------------------------------------------------------------------------
(* What the resolver and the tree return *)

\* The elements of a sequence over a set are in that set.
LEMMA SeqElements ==
    ASSUME NEW X, NEW s \in Seq(X)
    PROVE  ToSet(s) \subseteq X
  BY DEF ToSet

\* A sequence has at most as many elements as it is long.
LEMMA FewElements ==
    ASSUME NEW X, NEW s \in Seq(X)
    PROVE  IsFiniteSet(ToSet(s)) /\ Cardinality(ToSet(s)) <= Len(s)
  <1>1. Len(s) \in Nat /\ DOMAIN s = 1 .. Len(s)  OBVIOUS
  <1>2. IsFiniteSet(1 .. Len(s)) /\ Cardinality(1 .. Len(s)) = Len(s)
    BY <1>1, FS_Interval
  <1>3. s \in Surjection(1 .. Len(s), ToSet(s))
    <2>1. s = [i \in 1 .. Len(s) |-> s[i]]  BY <1>1
    <2>2. \A i \in 1 .. Len(s) : s[i] \in ToSet(s)  BY <1>1 DEF ToSet
    <2>3. \A x \in ToSet(s) : \E i \in 1 .. Len(s) : s[i] = x  BY <1>1 DEF ToSet
    <2> QED BY <2>1, <2>2, <2>3 DEF Surjection
  <1> QED BY <1>2, <1>3, FS_Surjection

\* A slice of a sequence is a sequence over the same set, no longer than asked for.
LEMMA ClipIsSeq ==
    ASSUME NEW X, NEW s \in Seq(X), NEW a \in Nat, a >= 1, NEW b \in Nat
    PROVE  /\ Clip(s, a, b) \in Seq(X)
           /\ a = 1 => Len(Clip(s, a, b)) <= b
  <1> DEFINE m == IF b < Len(s) THEN b ELSE Len(s)
  <1>1. m \in Nat /\ m <= Len(s) /\ m <= b  OBVIOUS
  <1>2. Clip(s, a, b) = SubSeq(s, a, m)  BY DEF Clip
  <1> HIDE DEF m
  <1>3. SubSeq(s, a, m) \in Seq(X)  BY <1>1
  <1>4. a = 1 => Len(SubSeq(s, a, m)) = m  BY <1>1
  <1> QED BY <1>1, <1>2, <1>3, <1>4

\* The catalogue is a sequence of events with sequences of tags and tokens.
LEMMA Catalogued ==
    /\ Listed \in Seq(Events)
    /\ \A e \in Events : /\ TagsOf[e] \in Seq(ToSet(TagsOf[e]))
                         /\ TokensOf[e] \in Seq(ToSet(TokensOf[e]))
                         /\ ToSet(TokensOf[e]) \subseteq Tokens
    /\ PageSize \in Nat /\ PageSize >= 1 /\ MaxPages \in Nat /\ MaxPages >= 1
    /\ MaxTokens \in Nat /\ MaxTokens >= 1
  BY CatalogAssumption DEF IsSeq, Events, Tokens

\* A page holds events.
LEMMA PageIsSeq ==
    ASSUME NEW o, NEW n \in Nat
    PROVE  Page(o, n) \in Seq(Events)
  <1>1. Chosen(Listed, o) \in Seq(Events \cap o)  BY Catalogued, ChosenIsSeq
  <1>2. Chosen(Listed, o) \in Seq(Events)  BY <1>1
  <1>3. n * PageSize + 1 \in Nat /\ n * PageSize + 1 >= 1 /\ (n + 1) * PageSize \in Nat
    <2>1. n * PageSize \in Nat /\ (n + 1) * PageSize \in Nat  BY Catalogued
    <2> QED BY <2>1
  <1> QED BY <1>2, <1>3, ClipIsSeq DEF Page

\* The resolver subscribes to tokens of events that match the filters and to no more
\* than the limit, whatever the catalogue and the filters.
LEMMA ResolvedMatch ==
    ASSUME NEW evs \in Seq(Events), NEW sel
    PROVE  /\ ToSet(Resolve(evs, sel)) \subseteq
                 UNION {ToSet(TokensOf[e]) : e \in {e \in Events : EventMatches(e, sel)}}
           /\ ToSet(Resolve(evs, sel)) \subseteq Tokens
           /\ Cardinality(ToSet(Resolve(evs, sel))) <= MaxTokens
  <1> DEFINE M        == {e \in Events : EventMatches(e, sel)}
             U        == UNION {ToSet(TokensOf[e]) : e \in M}
             matching == Chosen(evs, M)
             seqs     == [i \in DOMAIN matching |-> TokensOf[matching[i]]]
             all      == FlattenSeq(seqs)
  <1>1. Resolve(evs, sel) = Clip(all, 1, MaxTokens)  BY DEF Resolve
  <1>2. U \subseteq Tokens  BY Catalogued
  <1>3. \A e \in M : TokensOf[e] \in Seq(U)
    <2> SUFFICES ASSUME NEW e \in M  PROVE  TokensOf[e] \in Seq(U)
      OBVIOUS
    <2>1. TokensOf[e] \in Seq(ToSet(TokensOf[e]))  BY Catalogued
    <2>2. ToSet(TokensOf[e]) \subseteq U  OBVIOUS
    <2> HIDE DEF U
    <2> QED BY <2>1, <2>2
  <1> HIDE DEF U
  <1>4. matching \in Seq(M)
    <2>1. matching \in Seq(Events \cap M)  BY ChosenIsSeq
    <2>2. Events \cap M = M  OBVIOUS
    <2> QED BY <2>1, <2>2
  <1> HIDE DEF M, matching
  <1>5. seqs \in Seq(Seq(U))
    <2>1. \A i \in DOMAIN matching : TokensOf[matching[i]] \in Seq(U)  BY <1>3, <1>4
    <2>2. DOMAIN matching = 1 .. Len(matching) /\ Len(matching) \in Nat  BY <1>4
    <2> QED BY <2>1, <2>2
  <1> HIDE DEF seqs
  <1>6. all \in Seq(U)  BY <1>5, FlattenIsSeq
  <1> HIDE DEF all
  <1>7. /\ Clip(all, 1, MaxTokens) \in Seq(U)
        /\ Len(Clip(all, 1, MaxTokens)) <= MaxTokens
    BY <1>6, Catalogued, ClipIsSeq
  <1> DEFINE plan == Resolve(evs, sel)
  <1>8. plan \in Seq(U) /\ Len(plan) <= MaxTokens /\ Len(plan) \in Nat  BY <1>1, <1>7
  <1> HIDE DEF plan
  <1>9. ToSet(plan) \subseteq U  BY <1>8, SeqElements
  <1>10. Cardinality(ToSet(plan)) <= MaxTokens
    <2>1. IsFiniteSet(ToSet(plan)) /\ Cardinality(ToSet(plan)) <= Len(plan)  BY <1>8, FewElements
    <2>2. Cardinality(ToSet(plan)) \in Nat  BY <2>1, FS_CardinalityType
    <2> QED BY <1>8, <2>1, <2>2, Catalogued
  <1> QED BY <1>2, <1>9, <1>10 DEF plan, U, M

\* The least of the positions in a sequence that satisfy a condition is one of them.
LEMMA FirstIsOne ==
    ASSUME NEW X, NEW s \in Seq(X), NEW T, T \subseteq DOMAIN s, T # {}
    PROVE  Min(T) \in T
  <1>1. T \subseteq Nat  OBVIOUS
  <1>2. \E n \in T : \A m \in T : n <= m  BY <1>1, LeastNumber
  <1> QED BY <1>2 DEF Min

\* An event's league is one of its tags, or "general".
LEMMA LeagueIsATag ==
    ASSUME NEW e \in Events
    PROVE  League[e] = "general" \/ League[e] \in ToSet(TagsOf[e])
  <1> DEFINE tags      == TagsOf[e]
             ofSport(s) == s \in DOMAIN SportOf /\ SportOf[s] = PickSport(tags)
             named     == {i \in DOMAIN tags : tags[i] \notin MetaTags /\ ~ofSport(tags[i])}
  <1>1. League[e] = IF named = {} THEN "general" ELSE tags[Min(named)]
    BY DEF League, PickLeague
  <1>2. tags \in Seq(ToSet(tags))  BY Catalogued
  <1>3. named \subseteq DOMAIN tags  OBVIOUS
  <1> HIDE DEF named
  <1>4. CASE named = {}  BY <1>1, <1>4
  <1>5. CASE named # {}
    <2>1. Min(named) \in DOMAIN tags  BY <1>2, <1>3, <1>5, FirstIsOne
    <2>2. tags[Min(named)] \in ToSet(tags)  BY <2>1 DEF ToSet
    <2> QED BY <1>1, <1>5, <2>2
  <1> QED BY <1>4, <1>5

\* Whatever branch of an event is ticked, the resolver matches the event.
LEMMA TicksMatch ==
    ASSUME NEW e \in Events, NEW sel,
           (OffersOf[e] \cap sel) \ {[level |-> "league", id |-> "general"]} # {}
    PROVE  EventMatches(e, sel)
  <1>1. PICK o \in OffersOf[e] : o \in sel /\ o # [level |-> "league", id |-> "general"]
    OBVIOUS
  <1>2. \/ o = [level |-> "sport", id |-> Sport[e]]
        \/ o = [level |-> "league", id |-> League[e]]
        \/ o = [level |-> "event", id |-> e]
    BY DEF OffersOf
  <1>3. CASE o = [level |-> "league", id |-> League[e]]
    <2>1. League[e] \in ToSet(TagsOf[e])  BY <1>1, <1>3, LeagueIsATag
    <2> QED BY <1>1, <1>3, <2>1 DEF EventMatches
  <1> QED BY <1>1, <1>2, <1>3 DEF EventMatches

-----------------------------------------------------------------------------
(* Initially *)

LEMMA NoTokensYet == IsFiniteSet({}) /\ Cardinality({}) = 0
  BY FS_EmptySet

\* What a task's fetch record is before it starts and after it ends.
LEMMA NoFetchTyped == NoFetch \in FetchRecords /\ ~NoFetch.busy /\ ~NoFetch.done /\ NoFetch.page < MaxPages
  <1>1. <<>> \in Seq(Events) /\ {} \in SUBSET Offers /\ 0 \in 0 .. MaxPages  BY Catalogued
  <1> QED BY <1>1, Catalogued DEF NoFetch, FetchRecords

LEMMA OffersOfShown ==
    ASSUME NEW T, T \subseteq Events
    PROVE  UNION {OffersOf[e] : e \in T} \subseteq Offers
  BY DEF Offers

LEMMA FeedInit == Init => FeedInv
  <1> SUFFICES ASSUME Init  PROVE  FeedInv
    OBVIOUS
  <1> USE DEF Init
  <1>1. TypeInv
    <2>1. filters \in SUBSET Offers /\ tree \subseteq Events  BY OffersOfShown
    <2>2. fetch \in [Fetchers -> FetchRecords]  BY NoFetchTyped
    <2>3. Cardinality(index) <= MaxTokens  BY NoTokensYet, Catalogued
    <2> QED BY <2>1, <2>2, <2>3 DEF TypeInv
  <1>2. FetchInv  BY NoFetchTyped DEF FetchInv, Fetchers
  <1>3. ListedInv  BY DEF ListedInv
  <1>4. HeardInv  BY DEF HeardInv, NewestIsLastHeard
  <1> QED BY <1>1, <1>2, <1>3, <1>4 DEF FeedInv

-----------------------------------------------------------------------------
(* Every step: types *)

\* A plan holds at most MaxTokens tokens of the catalogue.
LEMMA PlanTyped ==
    ASSUME TypeInv, NEW f \in Fetchers
    PROVE  Plan(f) \in SUBSET Tokens /\ Cardinality(Plan(f)) <= MaxTokens
  <1>1. fetch[f].got \in Seq(Events)  BY DEF TypeInv, FetchRecords
  <1> QED BY <1>1, ResolvedMatch DEF Plan

\* The end of a fetch clears its record and no other.
LEMMA FetchEndsTyped ==
    ASSUME fetch \in [Fetchers -> FetchRecords], NEW f \in Fetchers, FetchEnds(f)
    PROVE  /\ fetch' \in [Fetchers -> FetchRecords]
           /\ fetch'[f] = NoFetch
           /\ \A g \in Fetchers \ {f} : fetch'[g] = fetch[g]
  <1>1. NoFetch \in FetchRecords  BY NoFetchTyped
  <1>2. fetch' = [fetch EXCEPT ![f] = NoFetch]  BY DEF FetchEnds
  <1> QED BY <1>1, <1>2

\* The start of a resolution takes the filters and is done at once without any.
LEMMA ResolveStartTyped ==
    ASSUME TypeInv, NEW f \in Fetchers, ResolveStart(f)
    PROVE  /\ fetch' \in [Fetchers -> FetchRecords]
           /\ fetch'[f].busy /\ fetch'[f].page = 0
           /\ \A g \in Fetchers \ {f} : fetch'[g] = fetch[g]
  <1> DEFINE o == NoFetch
             r == [[o EXCEPT !.busy = TRUE, !.sel = filters] EXCEPT !.done = filters = {}]
  <1>1. fetch' = [fetch EXCEPT ![f] = r]  BY DEF ResolveStart, Fetching
  <1>2. o \in FetchRecords /\ o.page = 0  BY NoFetchTyped DEF NoFetch
  <1>3. filters \in SUBSET Offers /\ fetch \in [Fetchers -> FetchRecords]  BY DEF TypeInv
  <1> HIDE DEF o
  <1>4. r \in FetchRecords /\ r.busy /\ r.page = 0  BY <1>2, <1>3 DEF FetchRecords
  <1> HIDE DEF r
  <1> QED BY <1>1, <1>3, <1>4

\* A page is added to what was got, and the last page ends the fetch.
LEMMA FetchPageTyped ==
    ASSUME TypeInv, FetchInv, NEW f \in Fetchers, FetchPage(f)
    PROVE  /\ fetch' \in [Fetchers -> FetchRecords]
           /\ fetch'[f].busy
           /\ ~fetch'[f].done => fetch'[f].page < MaxPages
           /\ \A g \in Fetchers \ {f} : fetch'[g] = fetch[g]
  <1> DEFINE o     == fetch[f]
             batch == Page(open, o.page)
             d     == IsLastPage(batch, o.page)
             r     == [o EXCEPT !.got = o.got \o batch, !.page = o.page + 1, !.done = d]
  <1>1. o \in FetchRecords /\ fetch \in [Fetchers -> FetchRecords]  BY DEF TypeInv
  <1>2. o.page \in Nat /\ o.page < MaxPages /\ o.busy
    <2>1. o.page \in 0 .. MaxPages  BY <1>1 DEF FetchRecords
    <2> QED BY <2>1, Catalogued DEF FetchInv, FetchPage
  <1>3. batch \in Seq(Events)  BY <1>2, PageIsSeq
  <1>4. /\ o.got \o batch \in Seq(Events)
        /\ o.page + 1 \in 0 .. MaxPages
        /\ d \in BOOLEAN
        /\ o.page + 1 = MaxPages => d
    BY <1>1, <1>2, <1>3, Catalogued DEF FetchRecords, IsLastPage
  <1>5. fetch' = [fetch EXCEPT ![f] = r]  BY <1>1 DEF FetchPage
  <1> HIDE DEF batch, o, d
  <1>6. r \in FetchRecords /\ r.busy = o.busy /\ r.page = o.page + 1 /\ r.done = d
    BY <1>1, <1>4 DEF FetchRecords
  <1> HIDE DEF r
  <1>7. ~r.done => r.page < MaxPages  BY <1>2, <1>4, <1>6, Catalogued
  <1> QED BY <1>1, <1>2, <1>5, <1>6, <1>7

\* The refresh of the tree starts a fetch without filters.
LEMMA RefreshTyped ==
    ASSUME TypeInv, RefreshTree
    PROVE  /\ fetch' \in [Fetchers -> FetchRecords]
           /\ fetch'["tree"].busy /\ fetch'["tree"].page = 0
           /\ \A g \in Fetchers \ {"tree"} : fetch'[g] = fetch[g]
  <1> DEFINE o == NoFetch
             r == [o EXCEPT !.busy = TRUE, !.sel = {}]
  <1>1. fetch' = [fetch EXCEPT !["tree"] = r]  BY DEF RefreshTree, Fetching
  <1>2. o \in FetchRecords /\ o.page = 0  BY NoFetchTyped DEF NoFetch
  <1>3. fetch \in [Fetchers -> FetchRecords] /\ "tree" \in Fetchers  BY DEF TypeInv, Fetchers
  <1> HIDE DEF o
  <1>4. r \in FetchRecords /\ r.busy /\ r.page = 0  BY <1>2 DEF FetchRecords
  <1> HIDE DEF r
  <1> QED BY <1>1, <1>3, <1>4

-----------------------------------------------------------------------------
(* Every step *)

\* The steps of the specification, one by one.
LEMMA StepCases ==
    ASSUME [Next]_vars
    PROVE  \/ CycleStart \/ CycleResolved \/ PersistIndex \/ Connect \/ WaitIdle \/ Reconnect
           \/ CheckWakes \/ CheckFindsSame \/ CheckCloses
           \/ SnapshotWritten \/ (\E t \in Quoted, q \in Quotes : Heard(t, q))
           \/ CycleFails \/ PersistIndexFails \/ ConnectFails \/ StreamEnds \/ CheckDies
           \/ SnapshotLost \/ RefreshFails \/ Restart
           \/ Purge \/ (\E t \in Quoted : SnapshotAges(t))
           \/ RefreshTree \/ StoreTree \/ Select \/ (\E e \in Events : EventOpensOrCloses(e))
           \/ (\E f \in Fetchers : FetchPage(f))
           \/ UNCHANGED vars
  BY DEF Next, Cycle, Check, Emit, Failures, Retention, UserAndGamma

\* The fetches keep their shape and belong to the steps their tasks are at.
LEMMA FetchNext ==
    ASSUME FeedInv, [Next]_vars
    PROVE  fetch' \in [Fetchers -> FetchRecords] /\ FetchInv'
  <1> USE DEF FeedInv
  <1>1. TypeInv /\ FetchInv  OBVIOUS
  <1>2. /\ fetch \in [Fetchers -> FetchRecords]
        /\ check = "off" <=> watcher # "stream"
        /\ Fetchers = {"watcher", "check", "tree"}
        /\ MaxPages >= 1 /\ MaxPages \in Nat
    BY <1>1, Catalogued DEF TypeInv, Fetchers
  <1>3. ~NoFetch.busy /\ ~NoFetch.done /\ NoFetch.page < MaxPages /\ NoFetch \in FetchRecords
    BY NoFetchTyped
  <1> HIDE DEF FeedInv
  <1>4. ASSUME CycleStart \/ CheckWakes \/ RefreshTree
        PROVE  fetch' \in [Fetchers -> FetchRecords] /\ FetchInv'
    <2>1. CASE CycleStart
      <3>1. ResolveStart("watcher") /\ watcher' = watcher /\ watcher = "resolve" /\ check' = check
        BY <2>1 DEF CycleStart, watching
      <3>2. /\ fetch' \in [Fetchers -> FetchRecords]
            /\ fetch'["watcher"].busy /\ fetch'["watcher"].page = 0
            /\ \A g \in Fetchers \ {"watcher"} : fetch'[g] = fetch[g]
        BY <1>1, <1>2, <3>1, ResolveStartTyped
      <3> QED BY <1>1, <1>2, <3>1, <3>2 DEF FetchInv
    <2>2. CASE CheckWakes
      <3>1. ResolveStart("check") /\ watcher' = watcher /\ check' = "fetch"
        BY <2>2 DEF CheckWakes
      <3>2. /\ fetch' \in [Fetchers -> FetchRecords]
            /\ fetch'["check"].busy /\ fetch'["check"].page = 0
            /\ \A g \in Fetchers \ {"check"} : fetch'[g] = fetch[g]
        BY <1>1, <1>2, <3>1, ResolveStartTyped
      <3> QED BY <1>1, <1>2, <3>1, <3>2 DEF FetchInv
    <2>3. CASE RefreshTree
      <3>1. watcher' = watcher /\ check' = check  BY <2>3 DEF RefreshTree, watching
      <3>2. /\ fetch' \in [Fetchers -> FetchRecords]
            /\ fetch'["tree"].busy /\ fetch'["tree"].page = 0
            /\ \A g \in Fetchers \ {"tree"} : fetch'[g] = fetch[g]
        BY <1>1, <2>3, RefreshTyped
      <3> QED BY <1>1, <1>2, <3>1, <3>2 DEF FetchInv
    <2> QED BY <1>4, <2>1, <2>2, <2>3
  <1>5. ASSUME CycleResolved \/ CycleFails
        PROVE  fetch' \in [Fetchers -> FetchRecords] /\ FetchInv'
    <2>1. FetchEnds("watcher") /\ check' = check
      BY <1>5 DEF CycleResolved, CycleFails
    <2>2. /\ fetch' \in [Fetchers -> FetchRecords] /\ fetch'["watcher"] = NoFetch
          /\ \A g \in Fetchers \ {"watcher"} : fetch'[g] = fetch[g]
      BY <1>2, <2>1, FetchEndsTyped
    <2> QED BY <1>1, <1>2, <1>3, <2>1, <2>2 DEF FetchInv
  <1>6. ASSUME StreamEnds \/ CheckFindsSame \/ CheckCloses \/ CheckDies
        PROVE  fetch' \in [Fetchers -> FetchRecords] /\ FetchInv'
    <2>1. FetchEnds("check") /\ (watcher' = watcher \/ watcher = "stream")
      BY <1>6 DEF StreamEnds, CheckFindsSame, CheckCloses, CheckDies
    <2>2. /\ fetch' \in [Fetchers -> FetchRecords] /\ fetch'["check"] = NoFetch
          /\ \A g \in Fetchers \ {"check"} : fetch'[g] = fetch[g]
      BY <1>2, <2>1, FetchEndsTyped
    <2> QED BY <1>1, <1>2, <1>3, <2>1, <2>2 DEF FetchInv
  <1>7. ASSUME StoreTree \/ RefreshFails
        PROVE  fetch' \in [Fetchers -> FetchRecords] /\ FetchInv'
    <2>1. FetchEnds("tree") /\ watcher' = watcher /\ check' = check
      BY <1>7 DEF StoreTree, RefreshFails, watching
    <2>2. /\ fetch' \in [Fetchers -> FetchRecords] /\ fetch'["tree"] = NoFetch
          /\ \A g \in Fetchers \ {"tree"} : fetch'[g] = fetch[g]
      BY <1>2, <2>1, FetchEndsTyped
    <2> QED BY <1>1, <1>2, <1>3, <2>1, <2>2 DEF FetchInv
  <1>8. ASSUME Restart
        PROVE  fetch' \in [Fetchers -> FetchRecords] /\ FetchInv'
    <2>1. fetch' = [f \in Fetchers |-> NoFetch]  BY <1>8 DEF Restart
    <2> QED BY <1>2, <1>3, <2>1 DEF FetchInv
  <1>9. ASSUME NEW f \in Fetchers, FetchPage(f)
        PROVE  fetch' \in [Fetchers -> FetchRecords] /\ FetchInv'
    <2>1. fetch[f].busy /\ watcher' = watcher /\ check' = check  BY <1>9 DEF FetchPage, watching
    <2>2. /\ fetch' \in [Fetchers -> FetchRecords] /\ fetch'[f].busy
          /\ ~fetch'[f].done => fetch'[f].page < MaxPages
          /\ \A g \in Fetchers \ {f} : fetch'[g] = fetch[g]
      BY <1>1, <1>9, FetchPageTyped
    <2> QED BY <1>1, <1>2, <2>1, <2>2 DEF FetchInv
  <1>10. ASSUME PersistIndex \/ PersistIndexFails \/ Connect \/ ConnectFails \/ WaitIdle \/ Reconnect
         PROVE  fetch' \in [Fetchers -> FetchRecords] /\ FetchInv'
    <2>1. /\ fetch' = fetch /\ watcher \in {"persist", "connect", "idle", "backoff"}
          /\ check' = check \/ check = "off"
      BY <1>2, <1>10 DEF PersistIndex, PersistIndexFails, Connect, ConnectFails, WaitIdle, Reconnect
    <2> QED BY <1>1, <1>2, <2>1 DEF FetchInv
  <1>11. ASSUME \/ SnapshotWritten \/ (\E t \in Quoted, q \in Quotes : Heard(t, q)) \/ SnapshotLost
                \/ Purge \/ (\E t \in Quoted : SnapshotAges(t)) \/ Select
                \/ (\E e \in Events : EventOpensOrCloses(e)) \/ UNCHANGED vars
         PROVE  fetch' \in [Fetchers -> FetchRecords] /\ FetchInv'
    <2>1. fetch' = fetch /\ watcher' = watcher /\ check' = check
      BY <1>11 DEF SnapshotWritten, Heard, SnapshotLost, Purge, SnapshotAges, Select,
                   EventOpensOrCloses, vars, watching
    <2> QED BY <1>1, <1>2, <2>1 DEF FetchInv
  <1> QED BY <1>4, <1>5, <1>6, <1>7, <1>8, <1>9, <1>10, <1>11, StepCases

\* What the tasks, the tables and the user's filters hold keeps its type.
LEMMA TypeNext ==
    ASSUME FeedInv, [Next]_vars
    PROVE  TypeInv'
  <1>1. TypeInv /\ FetchInv /\ ListedInv /\ HeardInv  BY DEF FeedInv
  <1>2. fetch' \in [Fetchers -> FetchRecords]  BY FetchNext
  <1> DEFINE A == open \in SUBSET Events /\ tree \in SUBSET Events /\ filters \in SUBSET Offers
             B == /\ watcher \in {"resolve", "persist", "idle", "connect", "stream", "backoff"}
                  /\ check \in {"off", "sleep", "fetch", "closing", "dead"}
                  /\ check = "off" <=> watcher # "stream"
             C == /\ index \in SUBSET Tokens /\ Cardinality(index) <= MaxTokens
                  /\ tokenRows \in SUBSET Tokens /\ unlisted \in SUBSET Tokens
             D == /\ last \in [Tokens -> Quotes \cup {NoQuote}]
                  /\ heard \in [Tokens -> Quotes \cup {NoQuote}]
                  /\ emitting \in SUBSET Snapshot /\ \A r, s \in emitting : r = s
             E == /\ snapshots \in [Tokens -> SUBSET Snapshot] /\ excused \in SUBSET Tokens
                  /\ \A t \in Tokens : \A r, s \in snapshots[t] : r = s /\ r.token = t
  <1>3. A /\ B /\ C /\ D /\ E  BY <1>1 DEF TypeInv
  <1>4. /\ "watcher" \in Fetchers /\ "check" \in Fetchers /\ "tree" \in Fetchers
        /\ \A f \in Fetchers : Fetched(f) => fetch[f].busy
        /\ \A f \in Fetchers : fetch[f].got \in Seq(Events)
    BY SMTT(30), <1>1 DEF TypeInv, FetchInv, Fetched, Fetchers, FetchRecords
  <1>5. A'
    <2>1. CASE StoreTree
      <3>1. tree' \subseteq Events  BY <1>4, <2>1, SeqElements DEF StoreTree
      <3> QED BY <1>3, <2>1, <3>1 DEF StoreTree
    <2>2. CASE Select
      <3>1. UNION {OffersOf[e] : e \in tree} \subseteq Offers  BY <1>3, OffersOfShown
      <3> QED BY <1>3, <2>2, <3>1 DEF Select
    <2>3. ASSUME NEW e \in Events, EventOpensOrCloses(e)  PROVE  A'
      BY <1>3, <2>3 DEF EventOpensOrCloses
    <2>4. CASE UNCHANGED <<open, tree, filters>>  BY SMTT(30), <1>3, <2>4
    <2> QED BY <2>1, <2>2, <2>3, <2>4, StepCases
         DEF CycleStart, CycleResolved, PersistIndex, Connect, WaitIdle, Reconnect, CheckWakes,
             CheckFindsSame, CheckCloses, SnapshotWritten, Heard, CycleFails, PersistIndexFails,
             ConnectFails, StreamEnds, CheckDies, SnapshotLost, RefreshFails, Restart, Purge,
             SnapshotAges, RefreshTree, FetchPage, vars
  <1>6. B'
    <2>1. fetch["check"].busy => check = "fetch"  BY <1>1 DEF FetchInv
    <2>2. fetch["watcher"].busy => watcher = "resolve"  BY <1>1 DEF FetchInv
    <2>3. CASE CycleResolved  BY <1>3, <1>4, <2>2, <2>3 DEF CycleResolved
    <2>4. CASE CycleFails  BY <1>3, <2>2, <2>4 DEF CycleFails
    <2>5. CASE CheckFindsSame \/ CheckCloses \/ CheckDies \/ CheckWakes
      BY <1>3, <1>4, <2>1, <2>5 DEF CheckFindsSame, CheckCloses, CheckDies, CheckWakes
    <2>6. CASE PersistIndex \/ PersistIndexFails \/ Connect \/ ConnectFails \/ WaitIdle \/ Reconnect
      BY <1>3, <2>6 DEF PersistIndex, PersistIndexFails, Connect, ConnectFails, WaitIdle, Reconnect
    <2>7. CASE StreamEnds \/ Restart  BY <2>7 DEF StreamEnds, Restart
    <2>8. CASE UNCHANGED <<watcher, check>>  BY SMTT(30), <1>3, <2>8
    <2> QED BY <2>3, <2>4, <2>5, <2>6, <2>7, <2>8, StepCases
         DEF CycleStart, SnapshotWritten, Heard, SnapshotLost, RefreshFails, Purge, SnapshotAges,
             RefreshTree, StoreTree, Select, EventOpensOrCloses, FetchPage, vars, watching
  <1>7. C'
    <2>1. CASE CycleResolved
      <3>1. index' \in SUBSET Tokens /\ Cardinality(index') <= MaxTokens
        BY <1>1, <1>4, <2>1, PlanTyped DEF CycleResolved
      <3> QED BY <1>3, <2>1, <3>1 DEF CycleResolved
    <2>2. CASE PersistIndex \/ PersistIndexFails
      BY <1>3, <2>2 DEF PersistIndex, PersistIndexFails
    <2>3. CASE Restart
      <3>1. index' = {} /\ Cardinality({}) <= MaxTokens  BY <2>3, NoTokensYet, Catalogued DEF Restart
      <3> QED BY <1>3, <2>3, <3>1 DEF Restart
    <2>4. CASE UNCHANGED <<index, tokenRows, unlisted>>  BY SMTT(30), <1>3, <2>4
    <2> QED BY <2>1, <2>2, <2>3, <2>4, StepCases
         DEF CycleStart, CycleFails, Connect, WaitIdle, Reconnect, CheckWakes, CheckFindsSame,
             CheckCloses, SnapshotWritten, Heard, ConnectFails, StreamEnds, CheckDies, SnapshotLost,
             RefreshFails, Purge, SnapshotAges, RefreshTree, StoreTree, Select,
             EventOpensOrCloses, FetchPage, vars, watching
  <1>8. D'
    <2>1. ASSUME NEW t \in Quoted, NEW q \in Quotes, Heard(t, q)  PROVE  D'
      <3>1. t \in Tokens  BY FeedAssumption
      <3>2. heard' \in [Tokens -> Quotes \cup {NoQuote}]  BY <1>3, <2>1, <3>1 DEF Heard
      <3>3. CASE UNCHANGED <<last, emitting>>  BY <1>3, <3>2, <3>3
      <3>4. CASE /\ last' = [last EXCEPT ![t] = q]
                 /\ emitting' = {[token |-> t, quote |-> q, old |-> FALSE]}
        <4>1. last' \in [Tokens -> Quotes \cup {NoQuote}]  BY <1>3, <3>1, <3>4
        <4>2. emitting' \in SUBSET Snapshot  BY <3>1, <3>4 DEF Snapshot
        <4> QED BY <3>2, <3>4, <4>1, <4>2
      <3> QED BY <2>1, <3>3, <3>4 DEF Heard
    <2>2. CASE SnapshotWritten \/ SnapshotLost  BY <1>3, <2>2 DEF SnapshotWritten, SnapshotLost
    <2>3. CASE Restart  BY <2>3 DEF Restart
    <2>4. CASE UNCHANGED <<last, heard, emitting>>  BY SMTT(30), <1>3, <2>4
    <2> QED BY <2>1, <2>2, <2>3, <2>4, StepCases
         DEF CycleStart, CycleResolved, PersistIndex, Connect, WaitIdle, Reconnect, CheckWakes,
             CheckFindsSame, CheckCloses, CycleFails, PersistIndexFails, ConnectFails, StreamEnds,
             CheckDies, RefreshFails, Purge, SnapshotAges, RefreshTree, StoreTree, Select,
             EventOpensOrCloses, FetchPage, vars, pricing
  <1>9. E'
    <2>1. CASE SnapshotWritten
      <3>1. PICK r \in emitting : /\ snapshots' = [snapshots EXCEPT ![r.token] = {r}]
                                  /\ excused' = excused \ {r.token}
        BY <2>1 DEF SnapshotWritten
      <3>2. r \in Snapshot /\ r.token \in Tokens  BY <1>3, <3>1 DEF Snapshot
      <3> QED BY <1>3, <3>1, <3>2
    <2>2. CASE SnapshotLost
      <3>1. PICK r \in emitting : excused' = excused \cup {r.token}
        BY <2>2 DEF SnapshotLost
      <3>2. r.token \in Tokens  BY <1>3, <3>1 DEF Snapshot
      <3> QED BY <1>3, <2>2, <3>1, <3>2 DEF SnapshotLost
    <2>3. ASSUME NEW t \in Quoted, SnapshotAges(t)  PROVE  E'
      <3>1. t \in Tokens  BY FeedAssumption
      <3>2. PICK r \in snapshots[t] : snapshots' = [snapshots EXCEPT ![t] = {[r EXCEPT !.old = TRUE]}]
        BY <2>3 DEF SnapshotAges
      <3>3. r \in Snapshot /\ r.token = t  BY <1>3, <3>1, <3>2
      <3> DEFINE s == [r EXCEPT !.old = TRUE]
      <3>4. s \in Snapshot /\ s.token = t  BY <3>3 DEF Snapshot
      <3>5. snapshots' = [snapshots EXCEPT ![t] = {s}] /\ excused' = excused
        BY <2>3, <3>2 DEF SnapshotAges
      <3> HIDE DEF s
      <3> QED BY <1>3, <3>1, <3>4, <3>5
    <2>4. CASE Purge
      <3>1. /\ snapshots' = [t \in Tokens |-> IF t \in Old THEN {} ELSE snapshots[t]]
            /\ excused' = excused \cup Old
        BY <2>4 DEF Purge
      <3>2. Old \subseteq Tokens  BY DEF Old
      <3> QED BY <1>3, <3>1, <3>2
    <2>5. CASE UNCHANGED <<snapshots, excused>>  BY <1>3, <2>5
    <2> QED BY <2>1, <2>2, <2>3, <2>4, <2>5, StepCases
         DEF CycleStart, CycleResolved, PersistIndex, Connect, WaitIdle, Reconnect, CheckWakes,
             CheckFindsSame, CheckCloses, CycleFails, PersistIndexFails, ConnectFails, StreamEnds,
             CheckDies, RefreshFails, Heard, RefreshTree, StoreTree, Select, Restart,
             EventOpensOrCloses, FetchPage, vars, pricing
  <1> QED BY <1>2, <1>5, <1>6, <1>7, <1>8, <1>9 DEF TypeInv

\* The tokens of an open stream were upserted or are known not to have been.
LEMMA ListedNext ==
    ASSUME FeedInv, [Next]_vars
    PROVE  ListedInv'
  <1>1. TypeInv /\ FetchInv /\ ListedInv /\ HeardInv  BY DEF FeedInv
  <1> DEFINE A == watcher \in {"connect", "stream"} => index \subseteq tokenRows \cup unlisted
             B == \A t \in Tokens : snapshots[t] # {} => t \in tokenRows \cup unlisted
  <1>2. A /\ B  BY SMTT(30), <1>1 DEF ListedInv
  <1>3. A'
    <2>1. CASE PersistIndex \/ PersistIndexFails
      BY <2>1 DEF PersistIndex, PersistIndexFails
    <2>2. CASE CycleResolved \/ CycleFails \/ WaitIdle \/ Reconnect \/ ConnectFails \/ StreamEnds \/ Restart
      BY <2>2 DEF CycleResolved, CycleFails, WaitIdle, Reconnect, ConnectFails, StreamEnds, Restart
    <2>3. CASE Connect  BY <1>2, <2>3 DEF Connect
    <2>4. CASE UNCHANGED <<watcher, index, tokenRows, unlisted>>  BY SMTT(30), <1>2, <2>4
    <2> QED BY <2>1, <2>2, <2>3, <2>4, StepCases
         DEF CycleStart, CheckWakes, CheckFindsSame, CheckCloses, SnapshotWritten, Heard, CheckDies,
             SnapshotLost, RefreshFails, Purge, SnapshotAges, RefreshTree, StoreTree, Select,
             EventOpensOrCloses, FetchPage, vars, watching
  <1>4. B'
    <2>1. CASE PersistIndex \/ PersistIndexFails
      BY <1>2, <2>1 DEF PersistIndex, PersistIndexFails, pricing
    <2>2. CASE SnapshotWritten
      <3>1. PICK r \in emitting : snapshots' = [snapshots EXCEPT ![r.token] = {r}]
        BY <2>2 DEF SnapshotWritten
      <3>2. r.token \in tokenRows \cup unlisted
        BY <1>1, <1>2, <3>1 DEF HeardInv
      <3>3. snapshots \in [Tokens -> SUBSET Snapshot]  BY <1>1 DEF TypeInv
      <3> QED BY <1>2, <2>2, <3>1, <3>2, <3>3 DEF SnapshotWritten, watching
    <2>3. ASSUME NEW t \in Quoted, SnapshotAges(t)  PROVE  B'
      <3>1. PICK r \in snapshots[t] : snapshots' = [snapshots EXCEPT ![t] = {[r EXCEPT !.old = TRUE]}]
        BY <2>3 DEF SnapshotAges
      <3>2. snapshots \in [Tokens -> SUBSET Snapshot] /\ snapshots[t] # {} /\ t \in Tokens
        BY <1>1, <3>1, FeedAssumption DEF TypeInv
      <3> QED BY <1>2, <2>3, <3>1, <3>2 DEF SnapshotAges, watching
    <2>4. CASE Purge  BY <1>2, <2>4 DEF Purge, watching
    <2>5. CASE UNCHANGED <<snapshots, tokenRows, unlisted>>  BY <1>2, <2>5
    <2> QED BY <2>1, <2>2, <2>3, <2>4, <2>5, StepCases
         DEF CycleStart, CycleResolved, Connect, WaitIdle, Reconnect, CheckWakes, CheckFindsSame,
             CheckCloses, Heard, CycleFails, ConnectFails, StreamEnds, CheckDies, SnapshotLost,
             RefreshFails, Restart, RefreshTree, StoreTree, Select, EventOpensOrCloses, FetchPage,
             vars, watching, pricing
  <1> QED BY <1>3, <1>4 DEF ListedInv

\* The newest snapshot of a token, or the one being written, is the price last heard.
LEMMA HeardNext ==
    ASSUME FeedInv, [Next]_vars
    PROVE  HeardInv'
  <1>1. TypeInv /\ FetchInv /\ ListedInv /\ HeardInv  BY DEF FeedInv
  <1> DEFINE A == last = heard
             B == \A r \in emitting : watcher = "stream" /\ r.token \in index /\ r.quote = heard[r.token]
             C == \A t \in Tokens \ excused :
                     \/ heard[t] = NoQuote
                     \/ \E r \in snapshots[t] \cup emitting : r.token = t /\ r.quote = heard[t]
  <1>2. A /\ B /\ C  BY <1>1 DEF HeardInv, NewestIsLastHeard
  <1>3. /\ heard \in [Tokens -> Quotes \cup {NoQuote}] /\ emitting \subseteq Snapshot
        /\ snapshots \in [Tokens -> SUBSET Snapshot]
        /\ \A r, s \in emitting : r = s
        /\ \A t \in Tokens : \A r, s \in snapshots[t] : r = s /\ r.token = t
    BY <1>1 DEF TypeInv
  <1>4. ASSUME NEW t \in Quoted, NEW q \in Quotes, Heard(t, q)  PROVE  A' /\ B' /\ C'
    <2>1. /\ t \in Tokens /\ t \in index /\ watcher = "stream" /\ emitting = {}
          /\ watcher' = watcher /\ index' = index /\ snapshots' = snapshots /\ excused' = excused
          /\ heard' = [heard EXCEPT ![t] = q]
      BY <1>4, FeedAssumption DEF Heard, watching
    <2>2. \A u \in Tokens \ {t} : heard'[u] = heard[u]  BY <1>3, <2>1
    <2>3. heard'[t] = q  BY <1>3, <2>1
    <2>4. CASE last[t] = q
      <3>1. last' = last /\ emitting' = emitting  BY <1>4, <2>4 DEF Heard, Same
      <3>2. heard' = heard  BY <1>2, <1>3, <2>1, <2>4
      <3> QED BY <1>2, <2>1, <3>1, <3>2
    <2>5. CASE last[t] # q
      <3> DEFINE r == [token |-> t, quote |-> q, old |-> FALSE]
      <3>1. last' = [last EXCEPT ![t] = q] /\ emitting' = {r}  BY <1>4, <2>5 DEF Heard, Same
      <3>2. r.token = t /\ r.quote = q  OBVIOUS
      <3> HIDE DEF r
      <3>3. A'  BY <1>2, <2>1, <3>1
      <3>4. B'  BY <2>1, <2>3, <3>1, <3>2
      <3>5. C'
        <4> SUFFICES ASSUME NEW u \in Tokens \ excused, heard'[u] # NoQuote
                     PROVE  \E s \in snapshots[u] \cup {r} : s.token = u /\ s.quote = heard'[u]
          BY <2>1, <3>1
        <4>1. CASE u = t  BY <2>3, <3>2, <4>1
        <4>2. CASE u # t
          <5>1. heard'[u] = heard[u]  BY <2>2, <4>2
          <5>2. \E s \in snapshots[u] : s.token = u /\ s.quote = heard[u]  BY <1>2, <2>1, <5>1
          <5> QED BY <5>1, <5>2
        <4> QED BY <4>1, <4>2
      <3> QED BY <3>3, <3>4, <3>5
    <2> QED BY <2>4, <2>5
  <1>5. ASSUME SnapshotWritten  PROVE  A' /\ B' /\ C'
    <2>1. PICK r \in emitting : /\ snapshots' = [snapshots EXCEPT ![r.token] = {r}]
                                /\ excused' = excused \ {r.token}
      BY <1>5 DEF SnapshotWritten
    <2>2. last' = last /\ heard' = heard /\ emitting' = {}  BY <1>5 DEF SnapshotWritten
    <2>3. emitting = {r} /\ r.token \in Tokens /\ r.quote = heard[r.token]
      BY <1>2, <1>3, <2>1 DEF Snapshot
    <2>4. C'
      <3> SUFFICES ASSUME NEW u \in Tokens \ excused', heard[u] # NoQuote
                   PROVE  \E s \in snapshots'[u] : s.token = u /\ s.quote = heard[u]
        BY <2>2
      <3>1. CASE u = r.token
        <4>1. snapshots'[u] = {r}  BY <1>3, <2>1, <2>3, <3>1
        <4> QED BY <2>3, <3>1, <4>1
      <3>2. CASE u # r.token
        <4>1. snapshots'[u] = snapshots[u] /\ u \notin excused  BY <1>3, <2>1, <3>2
        <4>2. PICK s \in snapshots[u] \cup {r} : s.token = u /\ s.quote = heard[u]
          BY <1>2, <2>3, <4>1
        <4> QED BY <3>2, <4>1, <4>2
      <3> QED BY <3>1, <3>2
    <2> QED BY <1>2, <2>2, <2>4
  <1>6. ASSUME SnapshotLost  PROVE  A' /\ B' /\ C'
    <2>1. PICK r \in emitting : excused' = excused \cup {r.token}
      BY <1>6 DEF SnapshotLost
    <2>2. last' = last /\ heard' = heard /\ emitting' = {} /\ snapshots' = snapshots
      BY <1>6 DEF SnapshotLost
    <2>3. emitting = {r}  BY <1>3, <2>1
    <2>4. C'
      <3> SUFFICES ASSUME NEW u \in Tokens \ excused', heard[u] # NoQuote
                   PROVE  \E s \in snapshots[u] : s.token = u /\ s.quote = heard[u]
        BY <2>2
      <3>1. u # r.token /\ u \notin excused  BY <2>1
      <3>2. PICK s \in snapshots[u] \cup {r} : s.token = u /\ s.quote = heard[u]
        BY <1>2, <2>3, <3>1
      <3> QED BY <3>1, <3>2
    <2> QED BY <1>2, <2>2, <2>4
  <1>7. ASSUME NEW t \in Quoted, SnapshotAges(t)  PROVE  A' /\ B' /\ C'
    <2>1. PICK r \in snapshots[t] : snapshots' = [snapshots EXCEPT ![t] = {[r EXCEPT !.old = TRUE]}]
      BY <1>7 DEF SnapshotAges
    <2>2. /\ last' = last /\ heard' = heard /\ emitting' = emitting /\ excused' = excused
          /\ watcher' = watcher /\ index' = index /\ t \in Tokens
      BY <1>7, FeedAssumption DEF SnapshotAges, watching
    <2> DEFINE w == [r EXCEPT !.old = TRUE]
    <2>3. r \in Snapshot  BY <1>3, <2>1, <2>2
    <2>4. w.token = r.token /\ w.quote = r.quote  BY <2>3 DEF Snapshot
    <2>5. snapshots' = [snapshots EXCEPT ![t] = {w}]  BY <2>1
    <2> HIDE DEF w
    <2>6. snapshots[t] = {r}  BY <1>3, <2>1, <2>2
    <2>7. C'
      <3> SUFFICES ASSUME NEW u \in Tokens \ excused, heard[u] # NoQuote
                   PROVE  \E s \in snapshots'[u] \cup emitting : s.token = u /\ s.quote = heard[u]
        BY <2>2
      <3>1. PICK s \in snapshots[u] \cup emitting : s.token = u /\ s.quote = heard[u]
        BY <1>2
      <3>2. CASE u = t /\ s = r
        <4>1. snapshots'[u] = {w}  BY <1>3, <2>2, <2>5, <3>2
        <4> QED BY <2>4, <3>1, <3>2, <4>1
      <3>3. CASE u = t /\ s # r  BY <2>6, <3>1, <3>3
      <3>4. CASE u # t
        <4>1. snapshots'[u] = snapshots[u]  BY <1>3, <2>5, <3>4
        <4> QED BY <3>1, <4>1
      <3> QED BY <3>2, <3>3, <3>4
    <2> QED BY <1>2, <2>2, <2>7
  <1>8. ASSUME Purge  PROVE  A' /\ B' /\ C'
    <2>1. /\ snapshots' = [t \in Tokens |-> IF t \in Old THEN {} ELSE snapshots[t]]
          /\ excused' = excused \cup Old
          /\ last' = last /\ heard' = heard /\ emitting' = emitting
          /\ watcher' = watcher /\ index' = index
      BY <1>8 DEF Purge, watching
    <2>2. \A u \in Tokens \ excused' : u \notin excused /\ snapshots'[u] = snapshots[u]  BY <2>1
    <2> QED BY <1>2, <2>1, <2>2
  <1>9. ASSUME Restart  PROVE  A' /\ B' /\ C'
    BY <1>9 DEF Restart
  <1>10. ASSUME \/ CycleResolved \/ CycleFails \/ PersistIndex \/ PersistIndexFails \/ Connect
                \/ ConnectFails \/ WaitIdle \/ Reconnect \/ StreamEnds
         PROVE  A' /\ B' /\ C'
    <2>1. fetch["watcher"].done => fetch["watcher"].busy  BY <1>1 DEF FetchInv, Fetchers
    <2>2. emitting = {}
      <3>1. watcher # "stream" \/ emitting = {}
        BY <1>1, <1>10, <2>1 DEF CycleResolved, CycleFails, PersistIndex, PersistIndexFails, Connect,
           ConnectFails, WaitIdle, Reconnect, StreamEnds, FetchInv, Fetched
      <3> QED BY <1>2, <3>1
    <2>3. UNCHANGED pricing
      BY <1>10 DEF CycleResolved, CycleFails, PersistIndex, PersistIndexFails, Connect, ConnectFails,
         WaitIdle, Reconnect, StreamEnds
    <2> QED BY <1>2, <2>2, <2>3 DEF pricing
  <1>11. ASSUME \/ CycleStart \/ CheckWakes \/ CheckFindsSame \/ CheckCloses \/ CheckDies \/ RefreshFails
                \/ RefreshTree \/ StoreTree \/ Select \/ (\E e \in Events : EventOpensOrCloses(e))
                \/ (\E f \in Fetchers : FetchPage(f)) \/ UNCHANGED vars
         PROVE  A' /\ B' /\ C'
    <2>1. UNCHANGED pricing /\ watcher' = watcher /\ index' = index
      BY <1>11 DEF CycleStart, CheckWakes, CheckFindsSame, CheckCloses, CheckDies, RefreshFails,
         RefreshTree, StoreTree, Select, EventOpensOrCloses, FetchPage, vars, watching
    <2> QED BY SMTT(30), <1>2, <2>1 DEF pricing
  <1>12. A' /\ B' /\ C'
    BY <1>4, <1>5, <1>6, <1>7, <1>8, <1>9, <1>10, <1>11, StepCases
  <1> QED BY <1>12 DEF HeardInv, NewestIsLastHeard

-----------------------------------------------------------------------------
\* The inductive invariant holds in every state.
THEOREM FeedInvariance == Spec => []FeedInv
  <1>1. Init => FeedInv  BY FeedInit
  <1>2. FeedInv /\ [Next]_vars => FeedInv'
    <2> SUFFICES ASSUME FeedInv, [Next]_vars  PROVE  FeedInv'
      OBVIOUS
    <2>1. TypeInv' /\ FetchInv' /\ ListedInv' /\ HeardInv'
      BY TypeNext, FetchNext, ListedNext, HeardNext
    <2> QED BY <2>1 DEF FeedInv
  <1> QED BY <1>1, <1>2, PTL DEF Spec

\* Every variable of the feed keeps its type: among others, a subscription never
\* exceeds the token limit and the check task runs just while a stream is open
\* (resolver.py:114-120, watcher.py:175-200).
THEOREM TypeCorrect == Spec => []TypeOK
  <1>1. FeedInv => TypeOK
    <2> SUFFICES ASSUME FeedInv  PROVE  TypeOK
      OBVIOUS
    <2>1. TypeInv  BY DEF FeedInv
    <2>2. Cardinality(emitting) <= 1
      <3>1. CASE emitting = {}  BY <3>1, FS_EmptySet
      <3>2. CASE emitting # {}
        <4>1. PICK r : r \in emitting  BY <3>2
        <4>2. emitting = {r}  BY <2>1, <4>1 DEF TypeInv
        <4>3. Cardinality({r}) = 1  BY FS_Singleton
        <4> QED BY <4>2, <4>3
      <3> QED BY <3>1, <3>2
    <2>3. ASSUME NEW t \in Tokens, snapshots[t] # {}
          PROVE  \E r \in Snapshot : r.token = t /\ snapshots[t] = {r}
      <3>1. PICK r : r \in snapshots[t]  BY <2>3
      <3>2. r \in Snapshot /\ r.token = t /\ snapshots[t] = {r}  BY <2>1, <3>1 DEF TypeInv
      <3> QED BY <3>2
    <2> QED BY <2>1, <2>2, <2>3 DEF TypeInv, TypeOK, FetchRecords
  <1> QED BY <1>1, FeedInvariance, PTL

\* Skipping repeated prices never hides a change: unless its write failed or
\* retention deleted it, a token's newest snapshot is the price last heard
\* (watcher.py:311-319).
THEOREM SkippingHidesNothing == Spec => []NewestIsLastHeard
  <1>1. FeedInv => NewestIsLastHeard  BY DEF FeedInv, HeardInv
  <1> QED BY <1>1, FeedInvariance, PTL

\* A price is stored only for a token that the decision engine can look up, unless
\* the upsert of that token failed (watcher.py:107-110).
THEOREM PricesCanBeLookedUp == Spec => []PricedTokensAreListed
  <1>1. FeedInv => PricedTokensAreListed
    BY DEF FeedInv, TypeInv, ListedInv, PricedTokensAreListed
  <1> QED BY <1>1, FeedInvariance, PTL

\* Whatever tags, sports and leagues the catalogue has, an event shown under a ticked
\* branch of the tree is one that the resolver matches (resolver.py:55-70).
THEOREM TreeAgreesWithResolver == Spec => []TicksAreWatched
  <1>1. FeedInv => TicksAreWatched
    <2> SUFFICES ASSUME FeedInv  PROVE  TicksAreWatched
      OBVIOUS
    <2>1. tree \subseteq Events  BY DEF FeedInv, TypeInv
    <2> QED BY <2>1, TicksMatch DEF TicksAreWatched
  <1> QED BY <1>1, FeedInvariance, PTL
===============================================================================
