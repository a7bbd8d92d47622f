------------------------------- MODULE Catalog -------------------------------
(***************************************************************************)
(* Polymarket's catalogue of sports events: Gamma's pages (client.py), the *)
(* sport and league an event is shown under (tree.py) and the tokens that   *)
(* a selection of filters subscribes to (resolver.py).                     *)
(***************************************************************************)
EXTENDS Integers, SequencesExt

CONSTANTS
    Listed,      \* all events, ordered by endDate
    TagsOf,      \* event -> its tag slugs in order
    TokensOf,    \* event -> the tokens of its markets in order
    SportOf,     \* KNOWN_SPORT_MAP: slug -> canonical sport
    GenericOf,   \* SPECIFIC_OVER_GENERIC: slug -> the slug it supersedes
    MetaTags,
    PageSize, MaxPages, MaxTokens

Events == ToSet(Listed)
Tokens == UNION {ToSet(TokensOf[e]) : e \in Events}

IsSeq(s) == s \in Seq(ToSet(s))

ASSUME CatalogAssumption ==
    /\ IsSeq(Listed) /\ \A e \in Events : IsSeq(TagsOf[e]) /\ IsSeq(TokensOf[e])
    /\ PageSize \in Nat \ {0} /\ MaxPages \in Nat \ {0} /\ MaxTokens \in Nat \ {0}

\* The elements of s that are in S, in order.  (SelectSeq, which this is, has no
\* definition or facts that a prover knows.)
Chosen(s, S) ==
    LET upto[i \in 0 .. Len(s)] ==
            IF i = 0 THEN <<>>
            ELSE IF s[i] \in S THEN Append(upto[i - 1], s[i]) ELSE upto[i - 1]
    IN  upto[Len(s)]

Clip(s, first, last) == SubSeq(s, first, IF last < Len(s) THEN last ELSE Len(s))

-----------------------------------------------------------------------------
(* One page of the open events, and whether it is the last to be asked for. *)

Page(open, n) ==
    Clip(Chosen(Listed, open), n * PageSize + 1, (n + 1) * PageSize)

IsLastPage(batch, n) == Len(batch) < PageSize \/ n + 1 = MaxPages

\* What a fetch returns while no event opens or closes.
Fetchable(open) == Clip(Chosen(Listed, open), 1, MaxPages * PageSize)

-----------------------------------------------------------------------------
PickSport(tags) ==
    LET superseded == {GenericOf[s] : s \in ToSet(tags) \cap DOMAIN GenericOf}
        known      == {i \in DOMAIN tags : tags[i] \in DOMAIN SportOf \ superseded}
    IN  IF known = {} THEN "other" ELSE SportOf[tags[Min(known)]]

PickLeague(tags) ==
    LET ofSport(s) == s \in DOMAIN SportOf /\ SportOf[s] = PickSport(tags)
        named     == {i \in DOMAIN tags : tags[i] \notin MetaTags /\ ~ofSport(tags[i])}
    IN  IF named = {} THEN "general" ELSE tags[Min(named)]

Sport  == [e \in Events |-> PickSport(TagsOf[e])]
League == [e \in Events |-> PickLeague(TagsOf[e])]

\* The filters the page offers for an event: its leaf and the two branches above.
OffersOf == [e \in Events |->
    {[level |-> "sport", id |-> Sport[e]],
     [level |-> "league", id |-> League[e]],
     [level |-> "event", id |-> e]}]

Offers == UNION {OffersOf[e] : e \in Events}

-----------------------------------------------------------------------------
EventMatchesFirstTag(e, sel) ==           \* mutant: a league is looked for in the first tag only
    \/ [level |-> "event", id |-> e] \in sel
    \/ [level |-> "sport", id |-> Sport[e]] \in sel
    \/ TagsOf[e] # <<>> /\ [level |-> "league", id |-> Head(TagsOf[e])] \in sel

EventMatches(e, sel) ==
    \/ [level |-> "event", id |-> e] \in sel
    \/ [level |-> "sport", id |-> Sport[e]] \in sel
    \/ \E s \in ToSet(TagsOf[e]) : [level |-> "league", id |-> s] \in sel

Resolve(events, sel) ==
    LET matching == Chosen(events, {e \in Events : EventMatches(e, sel)})
    IN  Clip(FlattenSeq([i \in DOMAIN matching |-> TokensOf[matching[i]]]), 1, MaxTokens)
===============================================================================
