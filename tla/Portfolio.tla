------------------------------ MODULE Portfolio ------------------------------
(***************************************************************************)
(* What the order poller and the position manager promise about a holding, *)
(* with no orders, no sessions and no tasks: it is opened once, sold off in *)
(* parts, each at one price, closed when its last share is sold, and its    *)
(* profit is the sum of what the parts earned.                              *)
(***************************************************************************)
EXTENDS Integers

CONSTANTS Tokens, Lot, Entry, Prices

VARIABLE holding

Absent == [status |-> "ABSENT", size |-> 0, profit |-> 0]

Init == holding = [t \in Tokens |-> Absent]

Buy(h, g) == h = Absent /\ \E n \in 1 .. Lot : g = [status |-> "OPEN", size |-> n, profit |-> 0]

\* n shares leave an open holding at one price
Sell(h, g, n) ==
    /\ h.status = "OPEN" /\ n \in 1 .. h.size
    /\ \E price \in Prices :
          g = [status |-> IF n = h.size THEN "CLOSED" ELSE "OPEN",
               size |-> h.size - n, profit |-> h.profit + (price - Entry) * n]

\* One commit may carry a step of several holdings.
Next ==
    /\ DOMAIN holding' = Tokens
    /\ \A t \in Tokens : \/ holding'[t] = holding[t]
                         \/ Buy(holding[t], holding'[t])
                         \/ \E n \in 1 .. Lot : Sell(holding[t], holding'[t], n)

Spec == Init /\ [][Next]_holding
==============================================================================
