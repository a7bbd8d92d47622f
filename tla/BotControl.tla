------------------------------ MODULE BotControl ------------------------------
(***************************************************************************)
(* The two other writers of the BotState row: RiskMonitor._cycle, which    *)
(* checks the limits every 60 s with no order intended, and PATCH           *)
(* /bot/state, by which the user switches the bot on and off.               *)
(***************************************************************************)
EXTENDS BotDb

VARIABLES monitor, user
controlVars == <<monitor, user>>

MonitorIdle == [pc |-> "idle", running |-> FALSE, balance |-> {}, held |-> 0, notional |-> 0]
UserIdle    == [pc |-> "idle", bot |-> [is_running |-> FALSE, paused |-> FALSE]]

ControlTypeOK ==
    /\ monitor \in [pc : {"idle", "loaded", "positions"}, running : BOOLEAN,
                    balance : SUBSET Balances, held : Nat, notional : Nat]
    /\ user \in [pc : {"idle", "loaded"}, bot : BotRow]

ControlInit == monitor = MonitorIdle /\ user = UserIdle

\* BotState is loaded, then the balance is awaited.
MonitorLoad ==
    /\ monitor.pc = "idle"
    /\ \E b \in {{}} \cup {{n} : n \in Balances} :
          monitor' = [MonitorIdle EXCEPT !.pc = "loaded", !.running = db.bot.is_running,
                                         !.balance = b]
    /\ UNCHANGED <<dbVars, placed, vault, user>>

MonitorPositions ==
    /\ monitor.pc = "loaded"
    /\ monitor' = [monitor EXCEPT !.pc = "positions", !.held = Cardinality(Held(db)),
                                  !.notional = Notional(db, Held(db))]
    /\ UNCHANGED <<dbVars, placed, vault, user>>

MonitorVerdictWholeRow ==                 \* mutant: commits the row as it was loaded
    /\ monitor.pc = "positions"
    /\ IF monitor.running /\ Serious(db, monitor.held, monitor.notional, 0, monitor.balance)
       THEN Transact(Pause(db))
       ELSE Transact(SetBot(db, [db.bot EXCEPT !.is_running = monitor.running]))
    /\ monitor' = MonitorIdle
    /\ UNCHANGED <<placed, vault, user>>

MonitorVerdict ==
    /\ monitor.pc = "positions"
    /\ IF monitor.running /\ Serious(db, monitor.held, monitor.notional, 0, monitor.balance)
       THEN Transact(Pause(db))
       ELSE UNCHANGED dbVars
    /\ monitor' = MonitorIdle
    /\ UNCHANGED <<placed, vault, user>>

\* "database is locked" when the pause is committed
MonitorAbort ==
    /\ monitor.pc = "positions" /\ writer # NoTask
    /\ monitor' = MonitorIdle
    /\ UNCHANGED <<dbVars, placed, vault, user>>

MonitorNext == MonitorLoad \/ MonitorPositions \/ MonitorVerdict \/ MonitorAbort

-----------------------------------------------------------------------------
PatchLoad ==
    /\ "patch" \in Faults /\ vault
    /\ user.pc = "idle"
    /\ user' = [pc |-> "loaded", bot |-> db.bot]
    /\ UNCHANGED <<dbVars, placed, vault, monitor>>

\* The attributes that differ from the loaded row are written: a switch to what
\* was loaded is none, and a pause reason is cleared only if one was loaded.
Patched(loaded, bot, running) ==
    [is_running |-> IF running # loaded.is_running THEN running ELSE bot.is_running,
     paused     |-> IF running /\ ~loaded.is_running /\ loaded.paused THEN FALSE ELSE bot.paused]

PatchCommit ==
    /\ user.pc = "loaded"
    /\ \E running \in BOOLEAN : Transact(SetBot(db, Patched(user.bot, db.bot, running)))
    /\ user' = UserIdle
    /\ UNCHANGED <<placed, vault, monitor>>

PatchFails ==
    /\ user.pc = "loaded" /\ writer # NoTask
    /\ user' = UserIdle
    /\ UNCHANGED <<dbVars, placed, vault, monitor>>

UserNext == PatchLoad \/ PatchCommit \/ PatchFails

ControlNext == MonitorNext \/ UserNext
===============================================================================
