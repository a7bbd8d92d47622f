------------------------------- MODULE EntryDesk -------------------------------
(***************************************************************************)
(* The trading engine, the risk monitor and the user on one BotState, with  *)
(* the order poller and the position manager reduced to the commits by      *)
(* which they move a lot on (ExitDesk has them in full).                    *)
(***************************************************************************)
EXTENDS EntryEngine, BotControl

vars == <<db, tx, writer, placed, dropped, vault, engine, cursor, logged, monitor, user>>

Init == BotDbInit /\ EngineInit /\ ControlInit

Move(o, from, row) == db.lots[o].status = from /\ Transact(SetLot(db, o, row))

BuyFills(o) == Move(o, "SUBMITTED", [db.lots[o] EXCEPT !.status = "HELD"])

BuyCancelled(o) == "cancel" \in Faults /\ Move(o, "SUBMITTED", [db.lots[o] EXCEPT !.status = "CANCELLED"])

ExitSubmitted(o) ==
    "close" \in Faults /\ ~db.lots[o].exiting /\ Move(o, "HELD", [db.lots[o] EXCEPT !.exiting = TRUE])

ExitCancelled(o) ==
    "cancel" \in Faults /\ db.lots[o].exiting /\ Move(o, "HELD", [db.lots[o] EXCEPT !.exiting = FALSE])

ExitFills(o) ==
    /\ db.lots[o].exiting /\ db.lots[o].status = "HELD"
    /\ \E loss \in Losses :
          Transact([SetLot(db, o, [db.lots[o] EXCEPT !.status = "SOLD", !.exiting = FALSE])
                        EXCEPT !.lost = db.lost + loss])

\* the losses of "today" start again at midnight UTC
NewDay == "newDay" \in Faults /\ db.lost > 0 /\ Transact([db EXCEPT !.lost = 0])

\* A poll, or a cycle of the manager, holds the write lock across its calls to
\* the CLOB; the row it moves, if it commits one, is moved after that.
Busy  == "busy" \in Faults /\ writer = NoTask /\ Write("poller", tx)
Freed == writer = "poller" /\ Rollback("poller")

LotsMove ==
    \/ NewDay \/ Busy \/ Freed
    \/ \E o \in LotIds : \/ BuyFills(o) \/ BuyCancelled(o) \/ ExitSubmitted(o)
                         \/ ExitCancelled(o) \/ ExitFills(o)

Unlock == ~vault /\ vault' = TRUE /\ UNCHANGED <<dbVars, placed>>
Lock   == "lock" \in Faults /\ vault /\ vault' = FALSE /\ UNCHANGED <<dbVars, placed>>

\* The process dies and is started again: the cursor is gone, so is what was
\* flushed and not committed.
Crash ==
    /\ "crash" \in Faults
    /\ tx' = db /\ writer' = NoTask /\ UNCHANGED db
    /\ vault' = FALSE
    /\ dropped' = [t \in Tokens |-> dropped[t] +
                       Cardinality({o \in Accepted(tx, t) : db.lots[o].status = "ABSENT"})]
    /\ engine' = EngineIdle /\ cursor' = 0 /\ UNCHANGED logged
    /\ monitor' = MonitorIdle /\ user' = UserIdle
    /\ UNCHANGED placed

Next ==
    \/ (EngineNext \/ LogDecision) /\ UNCHANGED <<dropped, controlVars>>
    \/ ControlNext /\ UNCHANGED <<dropped, engineVars>>
    \/ LotsMove /\ UNCHANGED <<placed, dropped, vault, engineVars, controlVars>>
    \/ (Lock \/ Unlock) /\ UNCHANGED <<dropped, engineVars, controlVars>>
    \/ Crash

Spec == Init /\ [][Next]_vars

-----------------------------------------------------------------------------
TypeOK == BotDbTypeOK /\ EngineTypeOK /\ ControlTypeOK

\* The BUYs in flight and the positions they opened never number more than
\* max_concurrent_positions, though they are counted in two reads before the
\* balance is awaited and fill all the while (trading.py:157-169, 199-201).
ConcurrencyCap == Cardinality(Active(db)) <= MaxConcurrent

\* A token is bought again only in the cycle that buys it first: two of its BUYs that
\* are in flight or held at once answer different decisions of one batch
\* (trading.py:7, 193-198).
OneBatchPerToken ==
    \A o, p \in Active(db) :
        o # p /\ db.lots[o].token = db.lots[p].token =>
            /\ db.lots[o].decision # db.lots[p].decision
            /\ db.lots[o].decision - db.lots[p].decision < BatchLimit

\* Only the user switches the bot on (risk.py:19-20).
NoSelfUnpause ==
    [][~db.bot.is_running /\ db'.bot.is_running => user.pc = "loaded" /\ user'.pc = "idle"]_vars

\* Every BUY the CLOB accepted has a row of its own, committed or in the engine's open
\* transaction, but those that a crash cuts off before the commit of their cycle; and
\* the row says FAILED of no other than an order whose answer was lost
\* (trading.py:269-270).
PlacedIsRecorded ==
    \A t \in Tokens : placed[t] = dropped[t] + Cardinality(Accepted(View("engine"), t))

\* A bot that has lost its daily limit is paused (or the day ends).  The tasks
\* run on, and the commit of a pause does not time out for ever: a lock it waits
\* for is, sooner or later, let go in time.
Fairness ==
    /\ WF_vars(EngineNext /\ UNCHANGED <<dropped, controlVars>>)
    /\ WF_vars(MonitorLoad /\ UNCHANGED <<dropped, engineVars>>) /\ WF_vars(MonitorPositions /\ UNCHANGED <<dropped, engineVars>>)
    /\ SF_vars(MonitorVerdict /\ UNCHANGED <<dropped, engineVars>>)
    /\ WF_vars((PatchCommit \/ PatchFails) /\ UNCHANGED <<dropped, engineVars>>)
    /\ SF_vars(Freed /\ monitor.pc = "positions" /\ UNCHANGED <<placed, dropped, vault, engineVars, controlVars>>)
    /\ WF_vars(Freed /\ UNCHANGED <<placed, dropped, vault, engineVars, controlVars>>)

FairSpec == Spec /\ Fairness

DrawdownPauses == (Drawdown(db) /\ db.bot.is_running) ~> (~Drawdown(db) \/ ~db.bot.is_running)
================================================================================
