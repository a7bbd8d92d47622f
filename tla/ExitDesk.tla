------------------------------- MODULE ExitDesk -------------------------------
(***************************************************************************)
(* The order poller, the position manager and the manual close requests on *)
(* one database and one CLOB: everything that happens to a position from   *)
(* the moment its BUY was submitted.                                       *)
(***************************************************************************)
EXTENDS OrderPoller, ExitManager, Functions

vars == <<db, tx, writer, clob, vault, phase, poller, stale, manager, closer>>

Init == DbInit /\ PollerInit /\ ManagerInit

\* _reconcile_orphans_on_start
Reconcile(d) ==
    [d EXCEPT !.orders = [o \in OrderIds |->
        IF @[o].status = "PENDING_SUBMIT" THEN [@[o] EXCEPT !.status = "FAILED"] ELSE @[o]]]

\* The orders of rows that were acknowledged and not committed
CutOff == {m \in SellPms : \E o \in SellIds : tx.orders[o].pm = m /\ db.orders[o].pm # m}

\* The process dies, or has stopped, and is started again: the sessions, the
\* tasks and the key of the vault are gone, the CLOB's orders are not.
Restart ==
    /\ phase = "stopped" \/ "crash" \in Faults
    /\ db' = Reconcile(db) /\ tx' = db' /\ writer' = NoTask
    /\ vault' = FALSE /\ phase' = "running"
    /\ poller' = PollerIdle /\ manager' = ManagerIdle
    /\ closer' = [c \in Closers |-> IF closer[c].pc = "idle" THEN CloserIdle
                                    ELSE [CloserIdle EXCEPT !.pc = "done"]]
    /\ clob' = [m \in PmIds |-> IF m \in CutOff THEN [clob[m] EXCEPT !.stray = TRUE] ELSE clob[m]]
    /\ UNCHANGED stale

Exchange == \E m \in PmIds : Match(m) \/ Delist(m)

Next ==
    \/ PollerNext /\ UNCHANGED managerVars
    \/ ManagerNext /\ UNCHANGED pollerVars
    \/ (Exchange \/ Lock \/ Unlock) /\ UNCHANGED <<pollerVars, managerVars>>
    \/ Restart

Spec == Init /\ [][Next]_vars

-----------------------------------------------------------------------------
TypeOK == DbTypeOK /\ PollerTypeOK /\ ManagerTypeOK

\* Every SELL that is in flight according to the orders table is the exit of a
\* position that is still OPEN: its fill will find the position to close, and
\* no position has two of them (exit_order_id, position_manager.py:259).
ExitLinked ==
    \A o \in SellIds :
        db.orders[o].status \in NonTerminal =>
            LET p == db.positions[db.orders[o].token]
            IN  p.status = "OPEN" /\ p.exit = o

\* The fills recorded for a position's finished SELLs and the shares it still
\* holds add up to the fill of its BUY, and its PnL to what those SELLs earned:
\* no partial fill is dropped or counted twice on the way through any number
\* of cancelled exits (trading.py:504-511, 567-578).
Finished(d, t) == {o \in SellIds : d.orders[o].token = t /\ d.orders[o].status \in Terminal}
Sold(d, t)     == SumFunctionOnSet([o \in SellIds |-> d.orders[o].filled], Finished(d, t))
Gain(r)        == (r.price - Entry) * r.filled
Earned(d, t)   == SumFunctionOnSet([o \in SellIds |-> Gain(d.orders[o])], Finished(d, t))
BooksBalance ==
    \A t \in Tokens :
        LET p == db.positions[t] IN
        /\ p.status = "OPEN"   => /\ p.size + Sold(db, t) = db.orders[t].filled
                                  /\ p.partial = Earned(db, t)
        /\ p.status = "CLOSED" => /\ Sold(db, t) = db.orders[t].filled
                                  /\ p.pnl = Earned(db, t)

\* No share leaves a position, and no position closes, without a SELL fill on
\* record for it, whatever requests and faults get in the way.
NoShareVanishes ==
    \A t \in Tokens :
        LET p == db.positions[t] IN
        p.status # "ABSENT" =>
            Sold(db, t) + (IF p.status = "OPEN" THEN p.size ELSE 0) >= db.orders[t].filled

\* What the SELLs of a token in flight sold or may still sell at the CLOB, and what is
\* on record as sold before them, is within what the CLOB bought: no exit is submitted
\* for a share that is known to be sold or on offer.
Offered(k)  == IF k.state = "live" THEN k.size ELSE k.matched
Offering(t) == {o \in SellIds : /\ db.orders[o].token = t /\ db.orders[o].pm # NoPm
                                /\ db.orders[o].status \in NonTerminal}
OnOffer(t)  == SumFunctionOnSet([o \in SellIds |-> Offered(clob[db.orders[o].pm])], Offering(t))
NoOversell  == \A t \in Tokens : Sold(db, t) + OnOffer(t) <= clob[t].matched

\* What a cancelled order is recorded to have filled is what the CLOB matched
\* (_mark_partial_cancelled, trading.py:538-540).
CancelledFillsRecorded ==
    \A o \in OrderIds :
        db.orders[o].status = "CANCELLED" => db.orders[o].filled = clob[db.orders[o].pm].matched

\* The ledger may lag behind the CLOB; it never runs ahead of it.
LedgerNeverAhead ==
    \A o \in OrderIds :
        db.orders[o].pm # NoPm => db.orders[o].filled <= clob[db.orders[o].pm].matched

\* Every order at the CLOB that is still live is known to the orders table, or its
\* submission is under way, but those whose answer was lost or whose row a crash cut
\* off before the commit (trading.py:269-270).
LiveOrdersKnown ==
    \A m \in SellPms :
        clob[m].state = "live" /\ ~clob[m].stray => \E o \in SellIds : View(writer).orders[o].pm = m

\* Before anything that could create an exit the position is confirmed OPEN
\* (position_manager.py:372-378, 471-474).
ExitsOnlyOpenPositions ==
    [][\A t \in Tokens :
          db'.positions[t].exit \in SellIds \ {db.positions[t].exit}
              => db.positions[t].status = "OPEN"]_vars

\* A finished order and a closed position are never written again, and an order
\* never loses a fill that was recorded.
HistoryStands ==
    [][/\ \A o \in OrderIds :
             /\ db.orders[o].status \in Terminal => db'.orders[o] = db.orders[o]
             /\ db'.orders[o].filled >= db.orders[o].filled
       /\ \A t \in Tokens :
             db.positions[t].status = "CLOSED" => db'.positions[t] = db.positions[t]]_vars

-----------------------------------------------------------------------------
(***************************************************************************)
(* What is committed is a portfolio: the ledger opens a holding once, sells *)
(* it off in parts and closes it with the profit of all of them.            *)
(***************************************************************************)
Holding(p) == [status |-> p.status,
               size   |-> IF p.status = "OPEN" THEN p.size ELSE 0,
               profit |-> IF p.status = "CLOSED" THEN p.pnl ELSE p.partial]

Holdings == [t \in Tokens |-> Holding(db.positions[t])]

Ledger == INSTANCE Portfolio WITH holding <- Holdings

ImplementsPortfolio == Ledger!Spec

(***************************************************************************)
(* Liveness.  The poller, the manager and the requests run on (their loops  *)
(* catch every exception), time passes, and a CLOB that is asked to cancel  *)
(* an order again and again says yes in the end.                            *)
(***************************************************************************)
Fairness ==
    /\ WF_vars(PollerCycle /\ UNCHANGED managerVars)
    /\ WF_vars(ManagerCycle /\ UNCHANGED pollerVars)
    /\ \A c \in Closers : WF_vars(CloserNext(c) /\ UNCHANGED pollerVars)
    /\ \A o \in OrderIds : WF_vars(Age(o) /\ UNCHANGED managerVars)
    /\ SF_vars(CancelAcked /\ UNCHANGED managerVars)

FairSpec == Spec /\ Fairness

\* As many exits that ride as a poll takes were submitted before the order.
Rides(o) == o \in SellIds /\ db.orders[o].policy = "ride"
Crowded(o) == Cardinality({q \in LiveRows(db) : Rides(q) /\ Older(q, o)}) >= PollLimit

\* Nothing that is meant to be cancelled when stale locks capital for ever: a
\* BUY, or a SELL that a stop-loss submitted (trading.py:358-365), unless older
\* exits that ride keep every poll from it (trading.py:381-382).
CancelledOrDone ==
    \A o \in OrderIds :
        (o \in LiveRows(db) /\ ~Rides(o) /\ ~Crowded(o)) ~> (db.orders[o].status \in Terminal)
===============================================================================
