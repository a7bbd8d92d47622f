---------------------------- MODULE MCMarketFeed ----------------------------
EXTENDS MarketFeed
CONSTANTS e1, e2, a, b, c, d
ByEndDate == <<e1, e2>>
Tagged    == (e1 :> <<"sports", "epl", "soccer">>) @@ (e2 :> <<"basketball", "nba">>)
Markets   == (e1 :> <<a, b>>) @@ (e2 :> <<c, d>>)
Sports    == ("soccer" :> "soccer") @@ ("nba" :> "nba") @@ ("basketball" :> "basketball-generic")
Generics  == [nba |-> "basketball"]
Meta      == {"sports"}
Bids      == {<<1, 2>>, <<1, 3>>}

-----------------------------------------------------------------------------
\* "every 60s, re-resolve filters; if subscription set changed, close the WS"
\* (watcher.py:6-7)
AlwaysFollows == <>[]Subscribed
==============================================================================
