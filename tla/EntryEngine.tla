----------------------------- MODULE EntryEngine -----------------------------
(***************************************************************************)
(* TradingEngine._cycle: every 5 s the BUY decisions after the cursor are  *)
(* turned into orders, one after the other, gated by duplicates, the       *)
(* concurrency cap and the risk limits.  One step per await.                *)
(***************************************************************************)
EXTENDS BotDb

VARIABLES
    engine,  \* what _cycle holds between two awaits
    cursor,  \* _last_decision_id, in memory only
    logged   \* decisions the DecisionEngine has logged

engineVars == <<engine, cursor, logged>>

\* balance is the empty set when get_usdc_balance answered None.
EngineIdle == [pc |-> "idle", orders |-> {}, exits |-> {}, held |-> {}, count |-> 0, last |-> 0,
               balance |-> {}, riskHeld |-> 0, riskNotional |-> 0, lot |-> NoLot]

EngineType ==
    [pc : {"idle", "orders", "positions", "buys", "loop", "risk", "place", "reply", "commit"},
     orders : SUBSET LotIds, exits : SUBSET LotIds, held : SUBSET LotIds, count : Nat,
     last : 0 .. Decisions, balance : SUBSET Balances, riskHeld : Nat, riskNotional : Nat,
     lot : LotIds \cup {NoLot}]

EngineTypeOK ==
    /\ engine \in EngineType
    /\ cursor \in 0 .. Decisions
    /\ logged \in 0 .. Decisions

EngineInit == engine = EngineIdle /\ cursor = 0 /\ logged = 0

\* The DecisionEngine logs the next BUY (decision.py:570-617).
LogDecision ==
    /\ logged < Decisions
    /\ logged' = logged + 1
    /\ UNCHANGED <<dbVars, placed, vault, engine, cursor>>

At(pc) == engine.pc = pc
Goto(pc) == engine' = [engine EXCEPT !.pc = pc]
EngineRead == UNCHANGED <<dbVars, placed, vault, cursor, logged>>

CycleStart ==
    /\ At("idle") /\ db.bot.is_running /\ vault
    /\ Goto("orders")
    /\ EngineRead

\* The orders are read before the positions: an order that fills in between
\* is counted twice, never not at all.
ReadOrders ==
    /\ At("orders")
    /\ engine' = [engine EXCEPT !.pc = "positions", !.orders = PendingBuys(db), !.exits = Exits(db)]
    /\ EngineRead

ReadPositionsOnly ==                      \* mutant: orders in flight do not count
    /\ At("positions")
    /\ engine' = [engine EXCEPT !.pc = "buys", !.held = Held(db), !.count = Cardinality(Held(db))]
    /\ EngineRead

ReadPositions ==
    /\ At("positions")
    /\ engine' = [engine EXCEPT !.pc = "buys", !.held = Held(db),
                     !.count = Cardinality(engine.orders) + Cardinality(engine.exits)
                                   + Cardinality(Held(db))]
    /\ EngineRead

\* the BUYs after the cursor, ORDER BY id LIMIT 20
LastOfBatch == IF logged > cursor + BatchLimit THEN cursor + BatchLimit ELSE logged

ReadBuys ==
    /\ At("buys")
    /\ \E b \in {{}} \cup {{n} : n \in Balances} :
          engine' = [engine EXCEPT !.pc = "loop", !.last = LastOfBatch, !.balance = b]
    /\ EngineRead

-----------------------------------------------------------------------------
\* for d in buys: the cursor moves first, whatever becomes of the decision
Decision == cursor + 1
NextDecision == At("loop") /\ cursor < engine.last /\ cursor' = Decision

TokensInOrders ==                         \* mutant: a held token may be bought again
    {db.lots[o].token : o \in engine.orders \cup engine.exits}

\* the tokens of the orders and positions read at the start of the cycle
TokensBusy == {db.lots[o].token : o \in engine.orders \cup engine.exits \cup engine.held}

SkipDuplicate ==
    /\ NextDecision
    /\ TokenOf[Decision] \in TokensBusy
    /\ UNCHANGED <<dbVars, placed, vault, engine, logged>>

AtCapReturns ==                           \* mutant: leaves the cycle without its commit
    /\ NextDecision
    /\ TokenOf[Decision] \notin TokensBusy
    /\ engine.count >= MaxConcurrent
    /\ Rollback("engine") /\ engine' = EngineIdle
    /\ UNCHANGED <<placed, vault, logged>>

AtCap ==
    /\ NextDecision
    /\ TokenOf[Decision] \notin TokensBusy
    /\ engine.count >= MaxConcurrent
    /\ Goto("commit")
    /\ UNCHANGED <<dbVars, placed, vault, logged>>

\* enforce_risk: the first of its reads ...
RiskPositions ==
    /\ NextDecision
    /\ TokenOf[Decision] \notin TokensBusy
    /\ engine.count < MaxConcurrent
    /\ LET d == View("engine")
       IN  engine' = [engine EXCEPT !.pc = "risk", !.riskHeld = Cardinality(Held(d)),
                                    !.riskNotional = Notional(d, Held(d))]
    /\ UNCHANGED <<dbVars, placed, vault, logged>>

Violated == Serious(View("engine"), engine.riskHeld, engine.riskNotional,
                    StakeOf[cursor], engine.balance)

RiskVerdictReturns ==                     \* mutant: leaves the cycle without its commit
    /\ At("risk")
    /\ IF Violated
       THEN Rollback("engine") /\ engine' = EngineIdle
       ELSE UNCHANGED dbVars /\ Goto("place")
    /\ UNCHANGED <<placed, vault, cursor, logged>>

\* ... and the others, with the verdict.  Any violation is a serious one here,
\* so the bot is paused (flushed with the commit) and the loop is left.
RiskVerdict ==
    /\ At("risk")
    /\ IF Violated
       THEN Write("engine", Pause(tx)) /\ Goto("commit")
       ELSE UNCHANGED dbVars /\ Goto("place")
    /\ UNCHANGED <<placed, vault, cursor, logged>>

\* A stake or price out of range, or a size that rounds to nothing: no row.
Unplaceable ==
    /\ At("place")
    /\ Goto("loop")
    /\ EngineRead

\* _place_for_decision: the row is flushed, which takes the write lock ...
Insert(o) ==
    /\ At("place")
    /\ tx.lots[o].status = "ABSENT"
    /\ Write("engine", SetLot(tx, o, [status |-> "PENDING_SUBMIT", token |-> TokenOf[cursor],
                                      decision |-> cursor, notional |-> StakeOf[cursor],
                                      exiting |-> FALSE]))
    /\ engine' = [engine EXCEPT !.pc = "reply", !.lot = o]
    /\ UNCHANGED <<placed, vault, cursor, logged>>

SubmittedFilled ==                        \* mutant: an accepted order passes for filled
    /\ At("reply") /\ vault
    /\ placed[tx.lots[engine.lot].token] < MaxPlaced
    /\ Write("engine", SetStatus(tx, engine.lot, "FILLED"))
    /\ placed' = [placed EXCEPT ![tx.lots[engine.lot].token] = @ + 1]
    /\ engine' = [engine EXCEPT !.pc = "loop", !.count = @ + 1, !.lot = NoLot]
    /\ UNCHANGED <<vault, cursor, logged>>

\* ... and the CLOB answers.
Submitted ==
    /\ At("reply") /\ vault
    /\ placed[tx.lots[engine.lot].token] < MaxPlaced
    /\ Write("engine", SetStatus(tx, engine.lot, "SUBMITTED"))
    /\ placed' = [placed EXCEPT ![tx.lots[engine.lot].token] = @ + 1]
    /\ engine' = [engine EXCEPT !.pc = "loop", !.count = @ + 1, !.lot = NoLot]
    /\ UNCHANGED <<vault, cursor, logged>>

Failed ==
    /\ At("reply")
    /\ Write("engine", SetStatus(tx, engine.lot, "FAILED"))
    /\ engine' = [engine EXCEPT !.pc = "loop", !.lot = NoLot]
    /\ UNCHANGED <<placed, vault, cursor, logged>>

\* The order is taken and its answer lost: place_limit_order makes a failure of
\* whatever is raised after the POST.
Unheard ==
    /\ "ambiguous" \in Faults
    /\ At("reply") /\ vault
    /\ placed[tx.lots[engine.lot].token] < MaxPlaced
    /\ Write("engine", SetStatus(tx, engine.lot, "UNHEARD"))
    /\ placed' = [placed EXCEPT ![tx.lots[engine.lot].token] = @ + 1]
    /\ engine' = [engine EXCEPT !.pc = "loop", !.lot = NoLot]
    /\ UNCHANGED <<vault, cursor, logged>>

CycleCommit ==
    /\ At("commit") \/ (At("loop") /\ cursor >= engine.last)
    /\ Commit("engine")
    /\ engine' = EngineIdle
    /\ UNCHANGED <<placed, vault, cursor, logged>>

\* "database is locked": the cycle is lost, the decisions it passed are too.
CycleAbort ==
    /\ At("place") \/ (At("risk") /\ Violated)
    /\ LockedOut("engine")
    /\ engine' = EngineIdle
    /\ UNCHANGED <<dbVars, placed, vault, cursor, logged>>

EngineNext ==
    \/ CycleStart \/ ReadOrders \/ ReadPositions \/ ReadBuys \/ SkipDuplicate \/ AtCap
    \/ RiskPositions \/ RiskVerdict \/ Unplaceable \/ Submitted \/ Failed \/ Unheard
    \/ CycleCommit \/ CycleAbort
    \/ \E o \in LotIds : Insert(o)
==============================================================================
