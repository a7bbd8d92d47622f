------------------------------ MODULE MCExitDesk ------------------------------
EXTENDS ExitDesk, TLC
Symmetric == Permutations(SellPms)

-----------------------------------------------------------------------------
(***************************************************************************)
(* What comments of the code say and the code does not keep; no run checks *)
(* these, README.md says how to see each of them violated.                 *)
(***************************************************************************)
\* A position is skipped while an exit of it is in flight
\* (position_manager.py:345-350, 475-478).
OneExitInFlight ==
    \A o, q \in SellIds :
        o # q /\ {db.orders[o].status, db.orders[q].status} \subseteq NonTerminal
            => db.orders[o].token # db.orders[q].token

\* A close request that found an exit in flight does not go on to submit
\* another one because that exit has filled meanwhile (position_manager.py:471-478).
CloseYieldsToFill ==
    \A c \in Closers :
        CloserAt(c, "submit") /\ closer[c].exit # NoOrder
            => db.orders[closer[c].exit].status # "FILLED"

\* What all SELLs of a token sold or may still sell at the CLOB is within what the bot
\* bought (position_manager.py:345-350).
NoOversellAtClob ==
    \A t \in Tokens :
        LET sells == {m \in SellPms : clob[m].token = t}
        IN  SumFunctionOnSet([m \in SellPms |-> Offered(clob[m])], sells) <= clob[t].matched

\* Every live SELL is known to the orders table, or under way (trading.py:269-270).
NoLiveOrderForgotten ==
    \A m \in SellPms :
        clob[m].state = "live" => \E o \in SellIds : View(writer).orders[o].pm = m

\* A BUY, and a SELL submitted to be cancelled, ends when stale (trading.py:360-362).
StaleOrdersEnd ==
    \A o \in OrderIds :
        (o \in LiveRows(db) /\ ~Rides(o)) ~> (db.orders[o].status \in Terminal)

\* A filled share of a BUY that is over is in a Position (trading.py:12-14).
FilledBuysAreHeld ==
    \A t \in Tokens :
        db.orders[t].status \in Terminal /\ db.orders[t].filled > 0 => db.positions[t].status # "ABSENT"
==============================================================================
