------------------------------- MODULE MCDecide -------------------------------
EXTENDS Decide
Game     == (1 :> [sport |-> "tennis", home |-> "ann", away |-> "bea", at |-> 2])
Same     == (1 :> [source |-> "pinnacle", sport |-> "tennis", home |-> "ann", away |-> "bea"])
              @@ (2 :> [source |-> "the_odds_api", sport |-> "tennis", home |-> "ann", away |-> "bea"])
              @@ (3 :> [source |-> "pinnacle", sport |-> "tennis", home |-> "anna", away |-> "bea"])
Swapped  == [Same EXCEPT ![2].home = "bea", ![2].away = "ann"]
OneSport == [tennis |-> {"tennis"}]
Alike    == [a \in {"ann", "anna", "bea", "draw"} |-> [b \in {"ann", "anna", "bea"} |->
               IF a = b THEN 100 ELSE IF {a, b} = {"ann", "anna"} THEN 70 ELSE 20]]
Pair     == (1 :> [event |-> 1, outcome |-> "ann"]) @@ (2 :> [event |-> 1, outcome |-> "bea"])
SharpAndSoft == [pinnacle |-> 40, bet365 |-> 20]
TwoBooks == [pinnacle |-> {"pinnacle"}, the_odds_api |-> {"pinnacle", "bet365"}]
Close    == [ann |-> 55, bea |-> 49]
Skewed   == [ann |-> 30, bea |-> 75]
OnlyBea  == [bea |-> 75]
Lists    == (1 :> {Close}) @@ (2 :> {Skewed, OnlyBea}) @@ (3 :> {})
Snap(a, d) == {[ask |-> a, depth |-> d]}
Few      == {<<Snap(52, 1), Snap(72, 0)>>, <<Snap(50, 1), Snap(50, 1)>>}
OneKnown == <<{}, {2}, {}>>

\* Not run: no exception for a part of a market.  It is violated with OnlyBea at 92:
\* a book that lists one team at 0.92 is devigged to certainty, and the tokens of
\* both teams are bought at 50.
NeverBothSidesAtAll ==
    \A row, other \in logged :
        TokenSide(row) # TokenSide(other) => row.ask + other.ask < 100
==============================================================================
