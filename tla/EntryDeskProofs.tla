--------------------------- MODULE EntryDeskProofs ---------------------------
(***************************************************************************)
(* Proofs about EntryDesk, for every set of tokens and lots, every sequence *)
(* of decisions and every limit: the concurrency cap holds, only the user   *)
(* switches the bot on, what the CLOB accepted has its row but for what a    *)
(* crash cuts off, and a token is bought again only by the batch that        *)
(* bought it.                                                               *)
(***************************************************************************)
EXTENDS EntryDesk, SumProofs

(***************************************************************************)
(* The inductive invariant.  The engine decides by a count it took from    *)
(* two reads; the invariant says how that count bounds the active lots of   *)
(* the transaction the engine works on, at every point of its cycle.        *)
(* The types of sums of notionals do not matter and are left open (N).      *)
(***************************************************************************)
EngineRec(N) ==
    [pc : {"idle", "orders", "positions", "buys", "loop", "risk", "place", "reply", "commit"},
     orders : SUBSET LotIds, exits : SUBSET LotIds, held : SUBSET LotIds, count : Nat,
     last : 0 .. Decisions, balance : SUBSET Balances, riskHeld : Nat, riskNotional : N,
     lot : LotIds \cup {NoLot}]

Shape ==
    /\ db \in Database /\ tx \in Database
    /\ writer \in {NoTask, "engine", "poller"}
    /\ cursor \in 0 .. Decisions /\ logged \in 0 .. Decisions
    /\ \E N : engine \in EngineRec(N)
    /\ user.pc \in {"idle", "loaded"} /\ user.bot \in BotRow

\* Only the engine keeps a transaction open across its steps, and it never
\* switches the bot on in it.
OpenTx ==
    /\ writer # "engine" => tx = db
    /\ tx.bot.is_running => db.bot.is_running
    /\ engine.pc \in {"idle", "orders", "positions", "buys"} => writer # "engine"

Count(d) == Cardinality(Active(d))

Counted ==
    /\ Count(db) <= MaxConcurrent /\ Count(tx) <= MaxConcurrent
    /\ engine.pc = "positions" => PendingBuys(db) \subseteq engine.orders
    /\ engine.pc \in {"buys", "loop", "risk", "place"} => Count(tx) <= engine.count
    /\ engine.pc \in {"risk", "place", "reply"} => engine.count < MaxConcurrent
    /\ engine.pc \in {"risk", "place"} => cursor \in 1 .. Decisions
    /\ engine.pc = "reply" => /\ writer = "engine"
                              /\ engine.lot \in PendingBuys(tx)
                              /\ Count(tx) <= engine.count + 1

Inv == Shape /\ OpenTx /\ Counted

-----------------------------------------------------------------------------
(***************************************************************************)
(* Databases and the lots that are active in them.                         *)
(***************************************************************************)

\* Writing one lot keeps a database one, and touches nothing else.
LEMMA SetLotShape ==
    ASSUME NEW d \in Database, NEW o \in LotIds, NEW row \in LotRow
    PROVE  /\ SetLot(d, o, row) \in Database
           /\ SetLot(d, o, row).bot = d.bot
           /\ \A p \in LotIds : SetLot(d, o, row).lots[p] = IF p = o THEN row ELSE d.lots[p]
BY DEF SetLot, Database

\* The active lots of a database are finitely many.
LEMMA ActiveFinite ==
    ASSUME NEW d
    PROVE  /\ IsFiniteSet(PendingBuys(d)) /\ IsFiniteSet(Held(d)) /\ IsFiniteSet(Active(d))
           /\ Count(d) \in Nat
<1>1. IsFiniteSet(LotIds)
  BY BotAssumption
<1>2. PendingBuys(d) \subseteq LotIds /\ Held(d) \subseteq LotIds /\ Active(d) \subseteq LotIds
  BY DEF Active, PendingBuys, Held
<1>3. IsFiniteSet(PendingBuys(d)) /\ IsFiniteSet(Held(d)) /\ IsFiniteSet(Active(d))
  BY <1>1, <1>2, FS_Subset
<1>4. Count(d) \in Nat
  BY <1>3, FS_CardinalityType DEF Count
<1> QED
  BY <1>3, <1>4

\* Fewer active lots count no more.
LEMMA FewerActive ==
    ASSUME NEW d, NEW e, Active(e) \subseteq Active(d)
    PROVE  Count(e) <= Count(d)
BY ActiveFinite, FS_Subset DEF Count

\* Writing a lot that is not active afterwards, or was before, adds none.
LEMMA SetLotShrinks ==
    ASSUME NEW d \in Database, NEW o \in LotIds, NEW row \in LotRow,
           row.status \in InFlight => o \in PendingBuys(d),
           row.status = "HELD" => o \in Active(d)
    PROVE  /\ PendingBuys(SetLot(d, o, row)) \subseteq PendingBuys(d)
           /\ Active(SetLot(d, o, row)) \subseteq Active(d)
<1>2. \A p \in LotIds : SetLot(d, o, row).lots[p] = IF p = o THEN row ELSE d.lots[p]
  BY SetLotShape
<1> QED
  BY <1>2 DEF PendingBuys, Active, Held

\* Writing one lot adds at most that one.
LEMMA SetLotAddsOne ==
    ASSUME NEW d \in Database, NEW o \in LotIds, NEW row \in LotRow
    PROVE  Count(SetLot(d, o, row)) <= Count(d) + 1
<1>2. \A p \in LotIds : SetLot(d, o, row).lots[p] = IF p = o THEN row ELSE d.lots[p]
  BY SetLotShape
<1>3. Active(SetLot(d, o, row)) \subseteq Active(d) \cup {o}
  BY <1>2 DEF PendingBuys, Active, Held
<1>4. /\ IsFiniteSet(Active(d) \cup {o})
      /\ Cardinality(Active(d) \cup {o}) \in {Count(d), Count(d) + 1}
  BY ActiveFinite, FS_AddElement DEF Count
<1>5. Cardinality(Active(SetLot(d, o, row))) <= Cardinality(Active(d) \cup {o})
  BY <1>3, <1>4, FS_Subset
<1> QED
  BY <1>4, <1>5, ActiveFinite DEF Count

-----------------------------------------------------------------------------
(***************************************************************************)
(* The other writers: each of their commits leaves no more active lots.    *)
(***************************************************************************)

\* A commit of another session, when no transaction is open.
LEMMA TransactInv ==
    ASSUME Inv, NEW e \in Database, Transact(e),
           PendingBuys(e) \subseteq PendingBuys(db), Active(e) \subseteq Active(db),
           UNCHANGED engineVars, user'.pc \in {"idle", "loaded"}, user'.bot \in BotRow
    PROVE  Inv'
<1>1. db' = e /\ tx' = e /\ writer' = writer /\ writer = NoTask /\ tx = db
  BY BotAssumption DEF Transact, Inv, OpenTx, Tasks
<1>2. engine' = engine /\ cursor' = cursor /\ logged' = logged
  BY DEF engineVars
<1>3. Count(e) <= Count(db) /\ Count(e) \in Nat /\ Count(db) \in Nat
  BY FewerActive, ActiveFinite
<1>4. Shape'
  BY <1>1, <1>2 DEF Inv, Shape
<1>5. OpenTx'
  BY <1>1, <1>2 DEF Inv, OpenTx
<1>6. Count(db)' = Count(e) /\ Count(tx)' = Count(e) /\ PendingBuys(db)' = PendingBuys(e)
  BY <1>1 DEF Count, Active, PendingBuys, Held
<1>7. engine.pc # "reply"
  BY <1>1, BotAssumption DEF Inv, Counted, Tasks
<1>8. engine.count \in Nat /\ MaxConcurrent \in Nat
  BY BotAssumption DEF Inv, Shape, EngineRec
<1>9. Counted'
  BY <1>1, <1>2, <1>3, <1>6, <1>7, <1>8 DEF Inv, Counted
<1> QED
  BY <1>4, <1>5, <1>9 DEF Inv

\* Nothing the engine works with changes.
LEMMA OutsideInv ==
    ASSUME Inv, UNCHANGED <<dbVars, engineVars>>,
           user'.pc \in {"idle", "loaded"}, user'.bot \in BotRow
    PROVE  Inv'
<1>1. db' = db /\ tx' = tx /\ writer' = writer /\ engine' = engine /\ cursor' = cursor /\ logged' = logged
  BY DEF dbVars, engineVars
<1>2. Count(db)' = Count(db) /\ Count(tx)' = Count(tx) /\ PendingBuys(db)' = PendingBuys(db)
      /\ PendingBuys(tx)' = PendingBuys(tx)
  BY <1>1 DEF Count, Active, PendingBuys, Held
<1>3. Shape'
  BY <1>1 DEF Inv, Shape
<1>4. OpenTx' /\ Counted'
  BY <1>1, <1>2 DEF Inv, OpenTx, Counted
<1> QED
  BY <1>3, <1>4 DEF Inv

\* Writing the BotState row leaves the lots alone.
LEMMA SetBotShape ==
    ASSUME NEW d \in Database, NEW bot \in BotRow
    PROVE  /\ SetBot(d, bot) \in Database
           /\ SetBot(d, bot).bot = bot
           /\ PendingBuys(SetBot(d, bot)) = PendingBuys(d)
           /\ Active(SetBot(d, bot)) = Active(d)
<1>1. SetBot(d, bot) \in Database /\ SetBot(d, bot).lots = d.lots /\ SetBot(d, bot).bot = bot
  BY DEF SetBot, Database
<1> QED
  BY <1>1 DEF PendingBuys, Active, Held

\* A paused bot is a legal one that does not run.
LEMMA PauseShape ==
    ASSUME NEW d \in Database
    PROVE  /\ Pause(d) \in Database /\ ~Pause(d).bot.is_running
           /\ PendingBuys(Pause(d)) = PendingBuys(d) /\ Active(Pause(d)) = Active(d)
<1> DEFINE off == [is_running |-> FALSE, paused |-> TRUE]
<1>1. off \in BotRow /\ ~off.is_running
  BY DEF BotRow
<1> QED
  BY <1>1, SetBotShape DEF Pause

\* The monitor reads, and pauses or gives up.
LEMMA MonitorInv == Inv /\ MonitorNext /\ UNCHANGED engineVars => Inv'
<1> SUFFICES ASSUME Inv, MonitorNext, UNCHANGED engineVars
             PROVE  Inv'
  OBVIOUS
<1>1. user' = user /\ user'.pc \in {"idle", "loaded"} /\ user'.bot \in BotRow
  BY DEF MonitorNext, MonitorLoad, MonitorPositions, MonitorVerdict, MonitorAbort, Inv, Shape
<1>2. CASE UNCHANGED dbVars
  BY <1>1, <1>2, OutsideInv
<1>3. CASE Transact(Pause(db))
  <2>1. db \in Database
    BY DEF Inv, Shape
  <2> QED
    BY <1>1, <1>3, <2>1, PauseShape, TransactInv
<1> QED
  BY <1>2, <1>3 DEF MonitorNext, MonitorLoad, MonitorPositions, MonitorVerdict, MonitorAbort, dbVars

\* The user switches the bot on or off.
LEMMA UserInv == Inv /\ UserNext /\ UNCHANGED engineVars => Inv'
<1> SUFFICES ASSUME Inv, UserNext, UNCHANGED engineVars
             PROVE  Inv'
  OBVIOUS
<1>1. db \in Database /\ db.bot \in BotRow /\ user.bot \in BotRow
  BY DEF Inv, Shape, Database
<1>2. UserIdle.pc = "idle" /\ UserIdle.bot \in BotRow
  BY DEF UserIdle, BotRow
<1>3. CASE PatchLoad
  <2>1. user'.pc = "loaded" /\ user'.bot \in BotRow /\ UNCHANGED dbVars
    BY <1>1, <1>3 DEF PatchLoad
  <2> QED
    BY <2>1, OutsideInv
<1>4. CASE PatchCommit
  <2>1. PICK running \in BOOLEAN : Transact(SetBot(db, Patched(user.bot, db.bot, running)))
    BY <1>4 DEF PatchCommit
  <2>2. Patched(user.bot, db.bot, running) \in BotRow
    BY <1>1 DEF Patched, BotRow
  <2>3. user' = UserIdle
    BY <1>4 DEF PatchCommit
  <2> QED
    BY <1>1, <1>2, <2>1, <2>2, <2>3, SetBotShape, TransactInv
<1>5. CASE PatchFails
  BY <1>2, <1>5, OutsideInv DEF PatchFails
<1> QED
  BY <1>3, <1>4, <1>5 DEF UserNext

\* The poller and the manager move a lot on, and a day ends.
LEMMA LotsMoveInv == Inv /\ LotsMove /\ UNCHANGED <<engineVars, controlVars>> => Inv'
<1> SUFFICES ASSUME Inv, LotsMove, UNCHANGED <<engineVars, controlVars>>
             PROVE  Inv'
  OBVIOUS
<1>1. db \in Database /\ db.lots \in [LotIds -> LotRow] /\ db.lost \in Nat
  BY DEF Inv, Shape, Database
<1>2. user'.pc \in {"idle", "loaded"} /\ user'.bot \in BotRow
  BY DEF controlVars, Inv, Shape
<1>3. ASSUME NEW n \in Nat, Transact([db EXCEPT !.lost = n])
      PROVE  Inv'
  <2>1. [db EXCEPT !.lost = n] \in Database /\ [db EXCEPT !.lost = n].lots = db.lots
    BY <1>1 DEF Database
  <2>2. /\ PendingBuys([db EXCEPT !.lost = n]) = PendingBuys(db)
        /\ Active([db EXCEPT !.lost = n]) = Active(db)
    BY <2>1 DEF PendingBuys, Active, Held
  <2> QED
    BY <1>2, <1>3, <2>1, <2>2, TransactInv
<1>4. ASSUME NEW o \in LotIds, NEW row \in LotRow, Transact(SetLot(db, o, row)),
             row.status \notin InFlight, row.status = "HELD" => o \in Active(db)
      PROVE  Inv'
  BY <1>1, <1>2, <1>4, SetLotShape, SetLotShrinks, TransactInv
<1>5. CASE NewDay
  BY <1>3, <1>5 DEF NewDay
<1>6. CASE Busy
  <2>1. writer = NoTask /\ writer' = "poller" /\ tx' = tx /\ db' = db
    BY <1>6 DEF Busy, Write
  <2>2. engine' = engine /\ cursor' = cursor /\ logged' = logged
    BY DEF engineVars
  <2>3. engine.pc # "reply" /\ tx = db
    BY <2>1, BotAssumption DEF Inv, OpenTx, Counted, Tasks
  <2>4. Count(db)' = Count(db) /\ Count(tx)' = Count(tx) /\ PendingBuys(db)' = PendingBuys(db)
    BY <2>1 DEF Count, Active, PendingBuys, Held
  <2>5. Shape'
    BY <1>2, <2>1, <2>2 DEF Inv, Shape
  <2> QED
    BY <2>1, <2>2, <2>3, <2>4, <2>5 DEF Inv, OpenTx, Counted
<1>7. CASE Freed
  <2>1. writer = "poller" /\ writer' = NoTask /\ tx' = db /\ db' = db
    BY <1>7 DEF Freed, Rollback
  <2>2. engine' = engine /\ cursor' = cursor /\ logged' = logged
    BY DEF engineVars
  <2>3. engine.pc # "reply" /\ tx = db /\ writer' # "engine"
    BY <2>1, BotAssumption DEF Inv, OpenTx, Counted, Tasks
  <2>4. Count(db)' = Count(db) /\ Count(tx)' = Count(tx) /\ PendingBuys(db)' = PendingBuys(db)
    BY <2>1, <2>3 DEF Count, Active, PendingBuys, Held
  <2>5. Shape'
    BY <1>2, <2>1, <2>2 DEF Inv, Shape
  <2> QED
    BY <2>1, <2>2, <2>3, <2>4, <2>5 DEF Inv, OpenTx, Counted
<1>8. ASSUME NEW o \in LotIds,
             \/ BuyFills(o) \/ BuyCancelled(o) \/ ExitSubmitted(o) \/ ExitCancelled(o)
      PROVE  Inv'
  <2>1. db.lots[o] \in LotRow
    BY <1>1
  <2>2. CASE BuyFills(o)
    <3> DEFINE row == [db.lots[o] EXCEPT !.status = "HELD"]
    <3>1. row \in LotRow /\ row.status = "HELD" /\ Transact(SetLot(db, o, row))
      BY <2>1, <2>2 DEF BuyFills, Move, LotRow, LotStatus
    <3>2. o \in Active(db) /\ row.status \notin InFlight
      BY <2>2, <3>1 DEF BuyFills, Move, Active, PendingBuys, InFlight
    <3> HIDE DEF row
    <3> QED
      BY <3>1, <3>2, <1>4
  <2>3. CASE BuyCancelled(o)
    <3> DEFINE row == [db.lots[o] EXCEPT !.status = "CANCELLED"]
    <3>1. row \in LotRow /\ row.status = "CANCELLED" /\ Transact(SetLot(db, o, row))
      BY <2>1, <2>3 DEF BuyCancelled, Move, LotRow, LotStatus
    <3> HIDE DEF row
    <3> QED
      BY <3>1, <1>4 DEF InFlight
  <2>4. CASE ExitSubmitted(o) \/ ExitCancelled(o)
    <3>1. PICK b \in BOOLEAN : Move(o, "HELD", [db.lots[o] EXCEPT !.exiting = b])
      BY <2>4 DEF ExitSubmitted, ExitCancelled
    <3> DEFINE row == [db.lots[o] EXCEPT !.exiting = b]
    <3>2. row \in LotRow /\ row.status = "HELD" /\ Transact(SetLot(db, o, row)) /\ o \in Active(db)
      BY <2>1, <3>1 DEF Move, LotRow, Active, Held
    <3> HIDE DEF row
    <3> QED
      BY <3>2, <1>4 DEF InFlight
  <2> QED
    BY <1>8, <2>2, <2>3, <2>4
<1>9. ASSUME NEW o \in LotIds, ExitFills(o)
      PROVE  Inv'
  <2> DEFINE row == [db.lots[o] EXCEPT !.status = "SOLD", !.exiting = FALSE]
             d   == SetLot(db, o, row)
  <2>1. PICK loss \in Losses : Transact([d EXCEPT !.lost = db.lost + loss])
    BY <1>9 DEF ExitFills
  <2> DEFINE e == [d EXCEPT !.lost = db.lost + loss]
  <2>2. row \in LotRow /\ row.status = "SOLD"
    BY <1>1 DEF LotRow, LotStatus
  <2> HIDE DEF row
  <2>3. /\ d \in Database
        /\ PendingBuys(d) \subseteq PendingBuys(db) /\ Active(d) \subseteq Active(db)
    BY <1>1, <2>2, SetLotShape, SetLotShrinks DEF InFlight
  <2>4. db.lost + loss \in Nat
    BY <1>1, BotAssumption
  <2> HIDE DEF d
  <2>5. e \in Database /\ e.lots = d.lots
    BY <2>3, <2>4 DEF Database
  <2>6. PendingBuys(e) \subseteq PendingBuys(db) /\ Active(e) \subseteq Active(db)
    BY <2>3, <2>5 DEF PendingBuys, Active, Held
  <2>7. Transact(e)
    BY <2>1
  <2> HIDE DEF e
  <2> QED
    BY <1>2, <2>5, <2>6, <2>7, TransactInv
<1> QED
  BY <1>5, <1>6, <1>7, <1>8, <1>9 DEF LotsMove

-----------------------------------------------------------------------------
(***************************************************************************)
(* The engine.                                                             *)
(***************************************************************************)

\* What the engine's steps need to know of the state they start in.
LEMMA EngineFacts ==
    ASSUME Inv
    PROVE  /\ engine.count \in Nat /\ engine.last \in 0 .. Decisions
           /\ engine.orders \subseteq LotIds /\ engine.exits \subseteq LotIds
           /\ Count(db) \in Nat /\ Count(tx) \in Nat /\ MaxConcurrent \in Nat /\ Decisions \in Nat
BY ActiveFinite, BotAssumption DEF Inv, Shape, EngineRec

\* A step of the engine that only reads: the database stays, and so does what
\* Counted says of it.
LEMMA EngineReads ==
    ASSUME Inv, UNCHANGED dbVars, UNCHANGED controlVars, UNCHANGED logged,
           cursor' \in 0 .. Decisions, \E N : engine' \in EngineRec(N)
    PROVE  /\ Shape' /\ db' = db /\ tx' = tx /\ writer' = writer
           /\ Count(db)' = Count(db) /\ Count(tx)' = Count(tx)
           /\ PendingBuys(db)' = PendingBuys(db) /\ PendingBuys(tx)' = PendingBuys(tx)
<1>1. db' = db /\ tx' = tx /\ writer' = writer /\ logged' = logged /\ user' = user
  BY DEF dbVars, controlVars
<1>2. /\ Count(db)' = Count(db) /\ Count(tx)' = Count(tx)
      /\ PendingBuys(db)' = PendingBuys(db) /\ PendingBuys(tx)' = PendingBuys(tx)
  BY <1>1 DEF Count, Active, PendingBuys, Held
<1>3. Shape'
  BY <1>1 DEF Inv, Shape
<1> QED
  BY <1>1, <1>2, <1>3

\* The cycle starts.
LEMMA CycleStartInv == Inv /\ CycleStart /\ UNCHANGED controlVars => Inv'
<1> SUFFICES ASSUME Inv, CycleStart, UNCHANGED controlVars
             PROVE  Inv'
  OBVIOUS
<1>1. PICK N : engine \in EngineRec(N)
  BY DEF Inv, Shape
<1>2. engine' \in EngineRec(N) /\ engine'.pc = "orders" /\ engine.pc = "idle"
  BY <1>1 DEF CycleStart, Goto, At, EngineRec
<1>3. UNCHANGED dbVars /\ UNCHANGED logged /\ cursor' \in 0 .. Decisions
  BY DEF CycleStart, EngineRead, Inv, Shape
<1> QED
  BY <1>2, <1>3, EngineReads DEF Inv, OpenTx, Counted

\* The orders are read: those in flight stay among them.
LEMMA ReadOrdersInv == Inv /\ ReadOrders /\ UNCHANGED controlVars => Inv'
<1> SUFFICES ASSUME Inv, ReadOrders, UNCHANGED controlVars
             PROVE  Inv'
  OBVIOUS
<1>1. PICK N : engine \in EngineRec(N)
  BY DEF Inv, Shape
<1>2. PendingBuys(db) \subseteq LotIds /\ Exits(db) \subseteq LotIds
  BY DEF PendingBuys, Exits
<1>3. /\ engine' \in EngineRec(N) /\ engine'.pc = "positions" /\ engine'.orders = PendingBuys(db)
      /\ engine.pc = "orders"
  BY <1>1, <1>2 DEF ReadOrders, At, EngineRec
<1>4. UNCHANGED dbVars /\ UNCHANGED logged /\ cursor' \in 0 .. Decisions
  BY DEF ReadOrders, EngineRead, Inv, Shape
<1> QED
  BY <1>3, <1>4, EngineReads DEF Inv, OpenTx, Counted

\* The positions are read: together with the orders read before they bound
\* the lots that are active now.
LEMMA ReadPositionsInv == Inv /\ ReadPositions /\ UNCHANGED controlVars => Inv'
<1> SUFFICES ASSUME Inv, ReadPositions, UNCHANGED controlVars
             PROVE  Inv'
  OBVIOUS
<1>1. PICK N : engine \in EngineRec(N)
  BY DEF Inv, Shape
<1>2. /\ IsFiniteSet(engine.orders) /\ IsFiniteSet(engine.exits)
      /\ IsFiniteSet(Held(db)) /\ IsFiniteSet(PendingBuys(db)) /\ Held(db) \subseteq LotIds
  BY EngineFacts, ActiveFinite, BotAssumption, FS_Subset DEF Held
<1>3. /\ Cardinality(engine.orders) \in Nat /\ Cardinality(engine.exits) \in Nat
      /\ Cardinality(Held(db)) \in Nat /\ Cardinality(PendingBuys(db)) \in Nat
  BY <1>2, FS_CardinalityType
<1> DEFINE n == Cardinality(engine.orders) + Cardinality(engine.exits) + Cardinality(Held(db))
<1>4. n \in Nat
  BY <1>3
<1>5. engine.pc = "positions" /\ engine' = [engine EXCEPT !.pc = "buys", !.held = Held(db), !.count = n]
  BY DEF ReadPositions, At
<1> HIDE DEF n
<1>6. engine' \in EngineRec(N) /\ engine'.pc = "buys" /\ engine'.count = n
  BY <1>1, <1>2, <1>4, <1>5 DEF EngineRec
<1>7. Cardinality(PendingBuys(db)) <= Cardinality(engine.orders)
  BY <1>2, <1>5, FS_Subset DEF Inv, Counted
<1>8. Count(db) <= Cardinality(PendingBuys(db)) + Cardinality(Held(db))
  <2>1. IsFiniteSet(PendingBuys(db) \cap Held(db))
    BY <1>2, FS_Intersection
  <2>2. Cardinality(PendingBuys(db) \cap Held(db)) \in Nat
    BY <2>1, FS_CardinalityType
  <2>3. Cardinality(PendingBuys(db) \cup Held(db))
          = Cardinality(PendingBuys(db)) + Cardinality(Held(db))
              - Cardinality(PendingBuys(db) \cap Held(db))
    BY <1>2, FS_Union
  <2>4. Count(db) = Cardinality(PendingBuys(db) \cup Held(db))
    BY DEF Count, Active
  <2> QED
    BY <1>3, <2>2, <2>3, <2>4
<1>9. Count(db) <= n
  BY <1>3, <1>7, <1>8, EngineFacts DEF n
<1>10. tx = db
  BY <1>5 DEF Inv, OpenTx
<1>11. UNCHANGED dbVars /\ UNCHANGED logged /\ cursor' \in 0 .. Decisions
  BY DEF ReadPositions, EngineRead, Inv, Shape
<1> QED
  BY <1>5, <1>6, <1>9, <1>10, <1>11, EngineReads DEF Inv, OpenTx, Counted

\* The decisions and the balance are read.
LEMMA ReadBuysInv == Inv /\ ReadBuys /\ UNCHANGED controlVars => Inv'
<1> SUFFICES ASSUME Inv, ReadBuys, UNCHANGED controlVars
             PROVE  Inv'
  OBVIOUS
<1>1. PICK N : engine \in EngineRec(N)
  BY DEF Inv, Shape
<1>2. PICK b \in {{}} \cup {{n} : n \in Balances} :
          engine' = [engine EXCEPT !.pc = "loop", !.last = LastOfBatch, !.balance = b]
  BY DEF ReadBuys
<1>3. b \in SUBSET Balances /\ LastOfBatch \in 0 .. Decisions
  BY BotAssumption DEF Inv, Shape, LastOfBatch
<1>4. engine' \in EngineRec(N) /\ engine'.pc = "loop" /\ engine'.count = engine.count
  BY <1>1, <1>2, <1>3 DEF EngineRec
<1>5. UNCHANGED dbVars /\ UNCHANGED logged /\ cursor' \in 0 .. Decisions /\ engine.pc = "buys"
  BY DEF ReadBuys, At, EngineRead, Inv, Shape
<1> QED
  BY <1>4, <1>5, EngineReads DEF Inv, OpenTx, Counted

\* A decision is looked at: it is skipped, ends the cycle, or goes to the gate.
LEMMA NextDecisionInv ==
    Inv /\ (SkipDuplicate \/ AtCap \/ RiskPositions) /\ UNCHANGED controlVars => Inv'
<1> SUFFICES ASSUME Inv, SkipDuplicate \/ AtCap \/ RiskPositions, UNCHANGED controlVars
             PROVE  Inv'
  OBVIOUS
<1>1. PICK N : engine \in EngineRec(N)
  BY DEF Inv, Shape
<1>2. NextDecision
  BY DEF SkipDuplicate, AtCap, RiskPositions
<1>3. cursor' \in 1 .. Decisions /\ cursor' \in 0 .. Decisions /\ engine.pc = "loop"
  BY <1>2, EngineFacts DEF NextDecision, At, Decision, Inv, Shape
<1>4. UNCHANGED dbVars /\ UNCHANGED logged
  BY DEF SkipDuplicate, AtCap, RiskPositions
<1>5. CASE SkipDuplicate
  <2>1. engine' = engine
    BY <1>5 DEF SkipDuplicate
  <2> QED
    BY <1>1, <1>3, <1>4, <2>1, EngineReads DEF Inv, OpenTx, Counted
<1>6. CASE AtCap
  <2>1. engine' \in EngineRec(N) /\ engine'.pc = "commit"
    BY <1>1, <1>6 DEF AtCap, Goto, EngineRec
  <2> QED
    BY <1>3, <1>4, <2>1, EngineReads DEF Inv, OpenTx, Counted
<1>7. CASE RiskPositions
  <2> DEFINE d == View("engine")
             M == N \cup {Notional(d, Held(d))}
  <2>1. /\ engine.count < MaxConcurrent
        /\ engine' = [engine EXCEPT !.pc = "risk", !.riskHeld = Cardinality(Held(d)),
                                    !.riskNotional = Notional(d, Held(d))]
    BY <1>7 DEF RiskPositions
  <2>2. Cardinality(Held(d)) \in Nat
    BY ActiveFinite, FS_CardinalityType
  <2>3. Notional(d, Held(d)) \in M
    OBVIOUS
  <2>4. engine \in EngineRec(M)
    BY <1>1 DEF EngineRec
  <2> HIDE DEF d, M
  <2>5. engine' \in EngineRec(M) /\ engine'.pc = "risk" /\ engine'.count = engine.count
    BY <2>1, <2>2, <2>3, <2>4 DEF EngineRec
  <2> QED
    BY <1>3, <1>4, <2>1, <2>5, EngineReads DEF Inv, OpenTx, Counted
<1> QED
  BY <1>5, <1>6, <1>7

\* The verdict: the bot is paused in the engine's transaction, or the order goes on.
LEMMA RiskVerdictInv == Inv /\ RiskVerdict /\ UNCHANGED controlVars => Inv'
<1> SUFFICES ASSUME Inv, RiskVerdict, UNCHANGED controlVars
             PROVE  Inv'
  OBVIOUS
<1>1. PICK N : engine \in EngineRec(N)
  BY DEF Inv, Shape
<1>2. engine.pc = "risk" /\ cursor' = cursor /\ logged' = logged /\ user' = user
  BY DEF RiskVerdict, At, controlVars
<1>3. CASE Write("engine", Pause(tx)) /\ Goto("commit")
  <2>1. db' = db /\ tx' = Pause(tx) /\ writer' = "engine"
    BY <1>3 DEF Write
  <2>2. engine' \in EngineRec(N) /\ engine'.pc = "commit"
    BY <1>1, <1>3 DEF Goto, EngineRec
  <2>3. /\ Pause(tx) \in Database /\ ~Pause(tx).bot.is_running
        /\ Active(Pause(tx)) = Active(tx)
    BY PauseShape DEF Inv, Shape
  <2>4. Count(db)' = Count(db) /\ Count(tx)' = Count(tx)
    BY <2>1, <2>3 DEF Count, Active, PendingBuys, Held
  <2>5. Shape'
    BY <1>2, <2>1, <2>2, <2>3 DEF Inv, Shape
  <2> QED
    BY <2>1, <2>2, <2>3, <2>4, <2>5 DEF Inv, OpenTx, Counted
<1>4. CASE UNCHANGED dbVars /\ Goto("place")
  <2>1. engine' \in EngineRec(N) /\ engine'.pc = "place" /\ engine'.count = engine.count
    BY <1>1, <1>4 DEF Goto, EngineRec
  <2>2. cursor' \in 0 .. Decisions
    BY <1>2 DEF Inv, Shape
  <2> QED
    BY <1>2, <1>4, <2>1, <2>2, EngineReads DEF Inv, OpenTx, Counted
<1> QED
  BY <1>3, <1>4 DEF RiskVerdict

\* No row is written for this decision.
LEMMA UnplaceableInv == Inv /\ Unplaceable /\ UNCHANGED controlVars => Inv'
<1> SUFFICES ASSUME Inv, Unplaceable, UNCHANGED controlVars
             PROVE  Inv'
  OBVIOUS
<1>1. PICK N : engine \in EngineRec(N)
  BY DEF Inv, Shape
<1>2. /\ engine' \in EngineRec(N) /\ engine'.pc = "loop" /\ engine'.count = engine.count
      /\ engine.pc = "place"
  BY <1>1 DEF Unplaceable, Goto, At, EngineRec
<1>3. UNCHANGED dbVars /\ UNCHANGED logged /\ cursor' \in 0 .. Decisions
  BY DEF Unplaceable, EngineRead, Inv, Shape
<1> QED
  BY <1>2, <1>3, EngineReads DEF Inv, OpenTx, Counted

\* The row is inserted in the engine's transaction: one active lot more.
LEMMA InsertInv ==
    ASSUME NEW o \in LotIds PROVE Inv /\ Insert(o) /\ UNCHANGED controlVars => Inv'
<1> SUFFICES ASSUME Inv, Insert(o), UNCHANGED controlVars
             PROVE  Inv'
  OBVIOUS
<1>1. PICK N : engine \in EngineRec(N)
  BY DEF Inv, Shape
<1> DEFINE row == [status |-> "PENDING_SUBMIT", token |-> TokenOf[cursor], decision |-> cursor,
                   notional |-> StakeOf[cursor], exiting |-> FALSE]
<1>2. /\ engine.pc = "place" /\ cursor' = cursor /\ logged' = logged /\ user' = user
      /\ Write("engine", SetLot(tx, o, row))
      /\ engine' = [engine EXCEPT !.pc = "reply", !.lot = o]
  BY DEF Insert, At, controlVars
<1>3. cursor \in 1 .. Decisions /\ tx \in Database
  BY <1>2 DEF Inv, Shape, Counted
<1>4. TokenOf[cursor] \in Tokens /\ StakeOf[cursor] \in Nat /\ cursor \in 0 .. Decisions
  BY <1>3, EngineFacts, BotAssumption
<1>5. row \in LotRow /\ row.status = "PENDING_SUBMIT"
  BY <1>4 DEF LotRow, LotStatus, InFlight
<1> HIDE DEF row
<1>6. db' = db /\ tx' = SetLot(tx, o, row) /\ writer' = "engine"
  BY <1>2 DEF Write
<1>7. engine' \in EngineRec(N) /\ engine'.pc = "reply" /\ engine'.lot = o /\ engine'.count = engine.count
  BY <1>1, <1>2 DEF EngineRec
<1>8. tx' \in Database /\ tx'.bot = tx.bot /\ o \in PendingBuys(tx')
  BY <1>3, <1>5, <1>6, SetLotShape DEF PendingBuys, InFlight
<1>9. Count(tx') <= Count(tx) + 1 /\ Count(tx') \in Nat
  BY <1>3, <1>5, <1>6, SetLotAddsOne, ActiveFinite
<1>10. /\ Count(tx)' = Count(tx') /\ Count(db)' = Count(db) /\ PendingBuys(tx)' = PendingBuys(tx')
  BY <1>6 DEF Count, Active, PendingBuys, Held
<1>11. Shape'
  BY <1>2, <1>6, <1>7, <1>8 DEF Inv, Shape
<1>12. OpenTx'
  BY <1>6, <1>7, <1>8 DEF Inv, OpenTx
<1>13. Count(tx) <= engine.count /\ engine.count < MaxConcurrent /\ Count(db) <= MaxConcurrent
  BY <1>2 DEF Inv, Counted
<1>14. Counted'
  BY <1>6, <1>7, <1>8, <1>9, <1>10, <1>13, EngineFacts DEF Counted
<1> QED
  BY <1>11, <1>12, <1>14 DEF Inv

\* The CLOB accepts the order, or does not: the row stays active, or is given up.
LEMMA ReplyInv == Inv /\ (Submitted \/ Failed \/ Unheard) /\ UNCHANGED controlVars => Inv'
<1> SUFFICES ASSUME Inv, Submitted \/ Failed \/ Unheard, UNCHANGED controlVars
             PROVE  Inv'
  OBVIOUS
<1>1. PICK N : engine \in EngineRec(N)
  BY DEF Inv, Shape
<1>2. /\ engine.pc = "reply" /\ cursor' = cursor /\ logged' = logged /\ user' = user
  BY DEF Submitted, Failed, Unheard, At, controlVars
<1>3. /\ tx \in Database /\ engine.lot \in PendingBuys(tx) /\ engine.lot \in LotIds
      /\ Count(tx) <= engine.count + 1 /\ engine.count < MaxConcurrent
      /\ Count(db) <= MaxConcurrent
  BY <1>2 DEF Inv, Shape, Counted, PendingBuys
<1>4. ASSUME NEW s \in {"SUBMITTED", "FAILED", "UNHEARD"}
      PROVE  /\ [tx.lots[engine.lot] EXCEPT !.status = s] \in LotRow
             /\ [tx.lots[engine.lot] EXCEPT !.status = s].status = s
  <2>1. tx.lots[engine.lot] \in LotRow
    BY <1>3 DEF Database
  <2> QED
    BY <2>1 DEF LotRow, LotStatus, InFlight
<1>5. ASSUME NEW s \in {"SUBMITTED", "FAILED", "UNHEARD"}
      PROVE  /\ SetStatus(tx, engine.lot, s) \in Database
             /\ SetStatus(tx, engine.lot, s).bot = tx.bot
             /\ SetStatus(tx, engine.lot, s).lots[engine.lot].status = s
             /\ Active(SetStatus(tx, engine.lot, s)) \subseteq Active(tx)
  <2> DEFINE row == [tx.lots[engine.lot] EXCEPT !.status = s]
  <2>1. row \in LotRow /\ row.status = s /\ SetStatus(tx, engine.lot, s) = SetLot(tx, engine.lot, row)
    BY <1>4 DEF SetStatus
  <2> HIDE DEF row
  <2>2. engine.lot \in Active(tx) /\ row.status # "HELD"
    BY <1>3, <2>1 DEF Active
  <2>3. SetLot(tx, engine.lot, row).lots[engine.lot] = row
    BY <1>3, <2>1, SetLotShape
  <2>4. Active(SetLot(tx, engine.lot, row)) \subseteq Active(tx)
    BY <1>3, <2>1, <2>2, SetLotShrinks
  <2> QED
    BY <1>3, <2>1, <2>3, <2>4, SetLotShape
<1>6. CASE Submitted
  <2>1. /\ db' = db /\ tx' = SetStatus(tx, engine.lot, "SUBMITTED") /\ writer' = "engine"
        /\ engine' = [engine EXCEPT !.pc = "loop", !.count = @ + 1, !.lot = NoLot]
    BY <1>6 DEF Submitted, Write
  <2> DEFINE n == engine.count + 1
  <2>1a. n \in Nat /\ engine' = [engine EXCEPT !.pc = "loop", !.count = n, !.lot = NoLot]
    BY <2>1, EngineFacts
  <2> HIDE DEF n
  <2>1b. engine' \in EngineRec(N) /\ engine'.pc = "loop" /\ engine'.count = n
    BY <1>1, <2>1a DEF EngineRec
  <2>2. engine' \in EngineRec(N) /\ engine'.pc = "loop" /\ engine'.count = engine.count + 1
    BY <2>1b DEF n
  <2>3. Count(tx') <= Count(tx) /\ Count(tx') \in Nat
    BY <1>5, <2>1, FewerActive, ActiveFinite
  <2>4. Count(tx)' = Count(tx') /\ Count(db)' = Count(db)
    BY <2>1 DEF Count, Active, PendingBuys, Held
  <2>5. Shape' /\ OpenTx'
    BY <1>2, <1>5, <2>1, <2>2 DEF Inv, Shape, OpenTx
  <2> QED
    BY <1>3, <2>1, <2>2, <2>3, <2>4, <2>5, EngineFacts DEF Inv, Counted
<1>7. CASE Failed \/ Unheard
  <2>0. PICK s \in {"FAILED", "UNHEARD"} : tx' = SetStatus(tx, engine.lot, s)
    BY <1>7 DEF Failed, Unheard, Write
  <2>1. /\ db' = db /\ writer' = "engine"
        /\ engine' = [engine EXCEPT !.pc = "loop", !.lot = NoLot]
    BY <1>7 DEF Failed, Unheard, Write
  <2>2. engine' \in EngineRec(N) /\ engine'.pc = "loop" /\ engine'.count = engine.count
    BY <1>1, <2>1 DEF EngineRec
  <2>3. /\ Count(tx)' = Count(tx') /\ Count(db)' = Count(db)
    BY <2>1 DEF Count, Active, PendingBuys, Held
  <2>4. Count(tx') <= engine.count /\ Count(tx') \in Nat
    <3>1. engine.lot \in Active(tx) /\ engine.lot \notin Active(tx')
      <4>1. tx'.lots[engine.lot].status = s
        BY <1>5, <2>0
      <4> QED
        BY <1>3, <4>1 DEF Active, PendingBuys, Held, InFlight
    <3>2. Active(tx') \subseteq Active(tx) \ {engine.lot}
      BY <1>5, <2>0, <3>1
    <3>3. /\ IsFiniteSet(Active(tx) \ {engine.lot})
          /\ Cardinality(Active(tx) \ {engine.lot}) = Count(tx) - 1
      BY <3>1, ActiveFinite, FS_RemoveElement DEF Count
    <3>4. Count(tx') <= Count(tx) - 1
      BY <3>2, <3>3, FS_Subset DEF Count
    <3> QED
      BY <1>3, <3>4, EngineFacts, ActiveFinite
  <2>5. Shape' /\ OpenTx'
    BY <1>2, <1>5, <2>0, <2>1, <2>2 DEF Inv, Shape, OpenTx
  <2> QED
    BY <1>3, <2>1, <2>2, <2>3, <2>4, <2>5, EngineFacts DEF Inv, Counted
<1> QED
  BY <1>6, <1>7

\* EngineIdle is a record of the right shape.
LEMMA EngineIdleShape == EngineIdle \in EngineRec(Nat) /\ EngineIdle.pc = "idle"
BY BotAssumption DEF EngineIdle, EngineRec

\* The cycle ends, in a commit or in "database is locked".
LEMMA CycleEndInv == Inv /\ (CycleCommit \/ CycleAbort) /\ UNCHANGED controlVars => Inv'
<1> SUFFICES ASSUME Inv, CycleCommit \/ CycleAbort, UNCHANGED controlVars
             PROVE  Inv'
  OBVIOUS
<1>1. engine' = EngineIdle /\ cursor' = cursor /\ logged' = logged /\ user' = user
  BY DEF CycleCommit, CycleAbort, controlVars
<1>2. CASE CycleCommit
  <2>1. /\ db' = IF writer = "engine" THEN tx ELSE db
        /\ tx' = tx
        /\ writer' = IF writer = "engine" THEN NoTask ELSE writer
    BY <1>2 DEF CycleCommit, Commit, View
  <2>2. tx' = db' /\ writer' # "engine" /\ db' = tx
    BY <2>1, BotAssumption DEF Inv, OpenTx, Tasks
  <2>3. Count(tx)' = Count(tx) /\ Count(db)' = Count(tx)
    BY <2>1, <2>2 DEF Count, Active, PendingBuys, Held
  <2>4. Shape'
    BY <1>1, <2>1, <2>2, EngineIdleShape DEF Inv, Shape
  <2> QED
    BY <1>1, <2>2, <2>3, <2>4, EngineIdleShape DEF Inv, OpenTx, Counted
<1>3. CASE CycleAbort
  <2>1. db' = db /\ tx' = tx /\ writer' = writer /\ writer # "engine"
    BY <1>3 DEF CycleAbort, LockedOut, dbVars
  <2>2. Count(tx)' = Count(tx) /\ Count(db)' = Count(db)
    BY <2>1 DEF Count, Active, PendingBuys, Held
  <2>3. Shape'
    BY <1>1, <2>1, EngineIdleShape DEF Inv, Shape
  <2> QED
    BY <1>1, <2>1, <2>2, <2>3, EngineIdleShape DEF Inv, OpenTx, Counted
<1> QED
  BY <1>2, <1>3

\* The decision engine logs a decision.
LEMMA LogDecisionInv == Inv /\ LogDecision /\ UNCHANGED controlVars => Inv'
<1> SUFFICES ASSUME Inv, LogDecision, UNCHANGED controlVars
             PROVE  Inv'
  OBVIOUS
<1>1. /\ db' = db /\ tx' = tx /\ writer' = writer /\ engine' = engine /\ cursor' = cursor
      /\ user' = user /\ logged' \in 0 .. Decisions
  BY EngineFacts DEF LogDecision, dbVars, controlVars, Inv, Shape
<1>2. Count(tx)' = Count(tx) /\ Count(db)' = Count(db)
      /\ PendingBuys(db)' = PendingBuys(db) /\ PendingBuys(tx)' = PendingBuys(tx)
  BY <1>1 DEF Count, Active, PendingBuys, Held
<1> QED
  BY <1>1, <1>2 DEF Inv, Shape, OpenTx, Counted

\* Every step of the engine.
LEMMA EngineInv == Inv /\ EngineNext /\ UNCHANGED controlVars => Inv'
BY CycleStartInv, ReadOrdersInv, ReadPositionsInv, ReadBuysInv, NextDecisionInv, RiskVerdictInv,
   UnplaceableInv, InsertInv, ReplyInv, CycleEndInv DEF EngineNext

-----------------------------------------------------------------------------
(***************************************************************************)
(* The invariant, and what follows from it.                                *)
(***************************************************************************)

\* What was not committed is gone, and the count starts again from nothing.
LEMMA CrashInv == Inv /\ Crash => Inv'
<1> SUFFICES ASSUME Inv, Crash
             PROVE  Inv'
  OBVIOUS
<1>1. /\ db' = db /\ tx' = db /\ writer' = NoTask /\ engine' = EngineIdle /\ cursor' = 0
      /\ logged' = logged /\ user' = UserIdle
  BY DEF Crash
<1>2. Count(tx)' = Count(db) /\ Count(db)' = Count(db)
  BY <1>1 DEF Count, Active, PendingBuys, Held
<1>3. UserIdle.pc = "idle" /\ UserIdle.bot \in BotRow
  BY DEF UserIdle, BotRow
<1>4. Shape'
  BY <1>1, <1>3, EngineIdleShape, EngineFacts DEF Inv, Shape
<1>5. NoTask # "engine"
  BY BotAssumption DEF Tasks
<1> QED
  BY <1>1, <1>2, <1>4, <1>5, EngineIdleShape DEF Inv, OpenTx, Counted

\* At the start there are no lots and the bot runs.
LEMMA InitInv == Init => Inv
<1> SUFFICES ASSUME Init
             PROVE  Inv
  OBVIOUS
<1>1. /\ db = [lots |-> [o \in LotIds |-> NoLotRow],
               bot |-> [is_running |-> TRUE, paused |-> FALSE], lost |-> 0]
      /\ tx = db /\ writer = NoTask /\ engine = EngineIdle /\ cursor = 0 /\ logged = 0
      /\ user = UserIdle
  BY DEF Init, BotDbInit, EngineInit, ControlInit
<1>2. NoLotRow \in LotRow /\ NoLotRow.status = "ABSENT"
  BY BotAssumption DEF NoLotRow, LotRow, LotStatus
<1>3. db \in Database
  BY <1>1, <1>2 DEF Database, BotRow
<1>4. PendingBuys(db) = {} /\ Held(db) = {}
  BY <1>1, <1>2 DEF PendingBuys, Held, InFlight
<1>5. Active(db) = {} /\ Count(db) = 0
  BY <1>4, FS_EmptySet DEF Active, Count
<1>6. UserIdle.pc = "idle" /\ UserIdle.bot \in BotRow
  BY DEF UserIdle, BotRow
<1>7. NoTask # "engine"
  BY BotAssumption DEF Tasks
<1>8. Shape
  BY <1>1, <1>3, <1>6, EngineIdleShape, BotAssumption DEF Shape
<1>9. engine.pc = "idle" /\ writer = NoTask /\ tx = db /\ Count(tx) = 0 /\ Count(db) = 0
  BY <1>1, <1>5, EngineIdleShape
<1>10. OpenTx
  BY <1>7, <1>9 DEF OpenTx
<1>11. 0 <= MaxConcurrent
  BY BotAssumption
<1>12. Counted
  BY <1>9, <1>11 DEF Counted
<1> QED
  BY <1>8, <1>10, <1>12 DEF Inv

\* Every step keeps the invariant.
LEMMA NextInv == Inv /\ [Next]_vars => Inv'
<1> SUFFICES ASSUME Inv, [Next]_vars
             PROVE  Inv'
  OBVIOUS
<1>1. user.pc \in {"idle", "loaded"} /\ user.bot \in BotRow
  BY DEF Inv, Shape
<1>2. CASE EngineNext /\ UNCHANGED controlVars
  BY <1>2, EngineInv
<1>3. CASE LogDecision /\ UNCHANGED controlVars
  BY <1>3, LogDecisionInv
<1>4. CASE ControlNext /\ UNCHANGED engineVars
  BY <1>4, MonitorInv, UserInv DEF ControlNext
<1>5. CASE LotsMove /\ UNCHANGED <<placed, vault, engineVars, controlVars>>
  BY <1>5, LotsMoveInv
<1>6. CASE (Lock \/ Unlock) /\ UNCHANGED <<engineVars, controlVars>>
  BY <1>1, <1>6, OutsideInv DEF Lock, Unlock, controlVars
<1>7. CASE Crash
  BY <1>7, CrashInv
<1>8. CASE UNCHANGED vars
  BY <1>1, <1>8, OutsideInv DEF vars, dbVars, engineVars
<1> QED
  BY <1>2, <1>3, <1>4, <1>5, <1>6, <1>7, <1>8 DEF Next

\* The inductive invariant of the entry side.
THEOREM Invariance == Spec => []Inv
<1>1. Init => Inv
  BY InitInv
<1>2. Inv /\ [Next]_vars => Inv'
  BY NextInv
<1> QED
  BY <1>1, <1>2, PTL DEF Spec

\* The BUYs in flight and the positions never number more than
\* max_concurrent_positions (trading.py:157-169, 199-201), whatever fills, is
\* cancelled, crashes or is decided twice meanwhile.
THEOREM CapHolds == Spec => []ConcurrencyCap
<1>1. Inv => ConcurrencyCap
  BY DEF Inv, Counted, Count, ConcurrencyCap
<1> QED
  BY <1>1, Invariance, PTL

\* Only a commit of the user's request turns is_running on (risk.py:19-20).
LEMMA StepNoSelfUnpause ==
    Inv /\ [Next]_vars =>
        (~db.bot.is_running /\ db'.bot.is_running => user.pc = "loaded" /\ user'.pc = "idle")
<1> SUFFICES ASSUME Inv, [Next]_vars, ~db.bot.is_running, db'.bot.is_running
             PROVE  user.pc = "loaded" /\ user'.pc = "idle"
  OBVIOUS
<1>1. db' # db /\ db \in Database /\ tx \in Database /\ ~tx.bot.is_running
  BY DEF Inv, Shape, OpenTx
<1>2. CASE EngineNext
  <2>1. db' = db \/ db' = tx
    BY <1>2 DEF EngineNext, CycleStart, ReadOrders, ReadPositions, ReadBuys, SkipDuplicate, AtCap,
                RiskPositions, RiskVerdict, Unplaceable, Submitted, Failed, Unheard, CycleCommit, CycleAbort,
                Insert, EngineRead, Write, Commit, View, dbVars
  <2> QED
    BY <1>1, <2>1
<1>3. CASE LogDecision \/ Lock \/ Unlock \/ Crash \/ UNCHANGED vars
  BY <1>1, <1>3 DEF LogDecision, Lock, Unlock, Crash, vars, dbVars
<1>4. CASE MonitorNext
  <2>1. db' = db \/ db' = Pause(db)
    BY <1>4 DEF MonitorNext, MonitorLoad, MonitorPositions, MonitorVerdict, MonitorAbort, Transact, dbVars
  <2> QED
    BY <1>1, <2>1, PauseShape
<1>5. CASE UserNext
  BY <1>1, <1>5 DEF UserNext, PatchLoad, PatchCommit, PatchFails, UserIdle, dbVars
<1>6. CASE LotsMove
  <2>1. ASSUME NEW o, NEW row, Transact(SetLot(db, o, row))
        PROVE  db'.bot = db.bot
    BY <1>1, <2>1 DEF Transact, SetLot, Database
  <2>2. ASSUME NEW o \in LotIds, NEW row, NEW n, Transact([SetLot(db, o, row) EXCEPT !.lost = n])
        PROVE  db'.bot = db.bot
    BY <1>1, <2>2 DEF Transact, SetLot, Database
  <2>3. ASSUME NEW n, Transact([db EXCEPT !.lost = n])
        PROVE  db'.bot = db.bot
    BY <1>1, <2>3 DEF Transact, Database
  <2>4. CASE NewDay
    BY <2>3, <2>4 DEF NewDay
  <2>5. CASE Busy \/ Freed
    BY <1>1, <2>5 DEF Busy, Freed, Write, Rollback
  <2>6. ASSUME NEW o \in LotIds, BuyFills(o) \/ BuyCancelled(o) \/ ExitSubmitted(o) \/ ExitCancelled(o)
        PROVE  db'.bot = db.bot
    BY <2>1, <2>6 DEF BuyFills, BuyCancelled, ExitSubmitted, ExitCancelled, Move
  <2>7. ASSUME NEW o \in LotIds, ExitFills(o)
        PROVE  db'.bot = db.bot
    BY <2>2, <2>7 DEF ExitFills
  <2> QED
    BY <1>6, <2>4, <2>5, <2>6, <2>7, <1>1 DEF LotsMove
<1> QED
  BY <1>2, <1>3, <1>4, <1>5, <1>6 DEF Next, ControlNext

\* The same, of behaviours.
THEOREM OnlyUserUnpauses == Spec => NoSelfUnpause
<1>1. Inv /\ [Next]_vars =>
          [~db.bot.is_running /\ db'.bot.is_running => user.pc = "loaded" /\ user'.pc = "idle"]_vars
  BY StepNoSelfUnpause
<1> QED
  BY <1>1, Invariance, PTL DEF Spec, NoSelfUnpause

-----------------------------------------------------------------------------
(***************************************************************************)
(* What the engine relies on the others for: while it looks at a batch of  *)
(* decisions they may move a lot on, but they never open one, give one      *)
(* another token, or touch the transaction it works on.                    *)
(***************************************************************************)
Gentle(d, e) ==
    \A o \in LotIds : \/ e.lots[o] = d.lots[o]
                      \/ /\ e.lots[o].token = d.lots[o].token
                         /\ e.lots[o].decision = d.lots[o].decision
                         /\ d.lots[o].status \in {"SUBMITTED", "HELD"}
                         /\ e.lots[o].status \in {"HELD", "CANCELLED", "SOLD"}

\* A session's decisions, orders and acceptances are not touched; the lots change
\* gently, and not at all while the engine's transaction is open.
Aside ==
    /\ engine' = engine /\ cursor' = cursor /\ logged' = logged
    /\ placed' = placed /\ dropped' = dropped
    /\ Gentle(db, db') /\ Gentle(tx, tx')
    /\ writer = "engine" <=> writer' = "engine"
    /\ writer = "engine" => db'.lots = db.lots /\ tx'.lots = tx.lots

\* Each token of a lot is one that the decisions name.
Named(d) == \A o \in LotIds : d.lots[o].status # "ABSENT" => d.lots[o].token \in Tokens

TypeInv ==
    /\ engine \in EngineType
    /\ placed \in [Tokens -> 0 .. MaxPlaced] /\ dropped \in [Tokens -> Nat] /\ vault \in BOOLEAN
    /\ monitor \in [pc : {"idle", "loaded", "positions"}, running : BOOLEAN,
                    balance : SUBSET Balances, held : Nat, notional : Nat]
    /\ user \in [pc : {"idle", "loaded"}, bot : BotRow]
    /\ Named(db) /\ Named(tx)

\* An open transaction differs from the database only by lots of its own, of which
\* only the one that waits for its answer is not submitted.
RowsKept ==
    \A o \in LotIds : /\ db.lots[o] = tx.lots[o] \/ db.lots[o].status = "ABSENT"
                      /\ db.lots[o].status # "PENDING_SUBMIT"
                      /\ tx.lots[o].status = "PENDING_SUBMIT" => engine.pc = "reply" /\ o = engine.lot

\* The record is complete but for what was dropped.
PlacedInv ==
    /\ \A t \in Tokens : placed[t] = dropped[t] + Cardinality(Accepted(tx, t))
    /\ engine.pc = "reply" => tx.lots[engine.lot].status = "PENDING_SUBMIT"
    /\ RowsKept

\* Two active lots for a token answer different decisions of one batch.
OneBatch(d) ==
    \A o, p \in Active(d) :
        o # p /\ d.lots[o].token = d.lots[p].token =>
            /\ d.lots[o].decision # d.lots[p].decision
            /\ d.lots[o].decision - d.lots[p].decision < BatchLimit

\* Every active lot of d is for a token that was busy when the cycle began or answers
\* one of the decisions after first, up to n.
Foreseen(d, busy, first, n) ==
    \A o \in Active(d) : d.lots[o].token \in busy \/ d.lots[o].decision \in first + 1 .. n

\* The engine works on the decisions after first, up to last; of those it has
\* dealt with the ones before c, and with c too unless it is about to place it.
Batch(pc, last, c, d, busy) ==
    \E first \in 0 .. Decisions :
       /\ last <= first + BatchLimit
       /\ first <= c
       /\ pc # "loop" => first < c /\ c <= last
       /\ Foreseen(d, busy, first, IF pc \in {"risk", "place"} THEN c - 1 ELSE c)

OneLotInv ==
    /\ OneBatch(db) /\ OneBatch(tx)
    /\ engine.pc = "buys" => Foreseen(tx, TokensBusy, cursor, cursor)
    /\ engine.pc \in {"risk", "place"} => TokenOf[cursor] \notin TokensBusy
    /\ engine.pc \in {"loop", "risk", "place", "reply"} =>
          Batch(engine.pc, engine.last, cursor, tx, TokensBusy)

\* A database is gentle to itself, and to one with the same lots.
LEMMA GentleSame ==
    ASSUME NEW d, NEW e, e.lots = d.lots
    PROVE  Gentle(d, e)
BY DEF Gentle

\* Writing one lot gently.
LEMMA GentleSetLot ==
    ASSUME NEW d \in Database, NEW o \in LotIds, NEW row \in LotRow,
           row.token = d.lots[o].token, row.decision = d.lots[o].decision,
           d.lots[o].status \in {"SUBMITTED", "HELD"},
           row.status \in {"HELD", "CANCELLED", "SOLD"}
    PROVE  Gentle(d, SetLot(d, o, row))
<1>1. \A p \in LotIds : SetLot(d, o, row).lots[p] = IF p = o THEN row ELSE d.lots[p]
  BY SetLotShape
<1> HIDE DEF SetLot
<1> QED
  BY <1>1 DEF Gentle

\* A gentle commit of another session.
LEMMA TransactAside ==
    ASSUME Inv, NEW e, Transact(e), Gentle(db, e), UNCHANGED engineVars, placed' = placed, dropped' = dropped
    PROVE  Aside
<1>1. db' = e /\ tx' = e /\ writer' = writer /\ tx = db /\ writer # "engine"
  BY BotAssumption DEF Transact, Inv, OpenTx, Tasks
<1>2. Gentle(db, db') /\ Gentle(tx, tx')
  BY <1>1
<1> QED
  BY <1>1, <1>2 DEF Aside, engineVars

\* Nothing of the database changes.
LEMMA QuietAside ==
    ASSUME UNCHANGED <<dbVars, engineVars>>, placed' = placed, dropped' = dropped
    PROVE  Aside
<1>1. db' = db /\ tx' = tx /\ writer' = writer
  BY DEF dbVars
<1>2. Gentle(db, db') /\ Gentle(tx, tx')
  BY <1>1, GentleSame
<1> QED
  BY <1>1, <1>2 DEF Aside, engineVars

\* The poller and the manager move lots on gently.
LEMMA LotsMoveAside ==
    ASSUME Inv, LotsMove, UNCHANGED <<placed, dropped, vault, engineVars, controlVars>>
    PROVE  Aside
<1>1. db \in Database /\ db.lots \in [LotIds -> LotRow] /\ db.lost \in Nat
  BY DEF Inv, Shape, Database
<1>2. UNCHANGED engineVars /\ placed' = placed /\ dropped' = dropped
  OBVIOUS
<1>3. CASE NewDay
  <2>1. [db EXCEPT !.lost = 0].lots = db.lots
    BY <1>1 DEF Inv, Shape, Database
  <2>2. Gentle(db, [db EXCEPT !.lost = 0])
    BY <2>1, GentleSame
  <2>3. Transact([db EXCEPT !.lost = 0])
    BY <1>3 DEF NewDay
  <2> QED
    BY <1>2, <2>2, <2>3, TransactAside
<1>4. CASE Busy \/ Freed
  <2>1. db' = db /\ writer # "engine" /\ writer' # "engine"
    BY <1>4, BotAssumption DEF Busy, Freed, Write, Rollback, Tasks
  <2>2. tx' = tx
    BY <1>4, <2>1 DEF Busy, Freed, Write, Rollback, Inv, OpenTx
  <2>3. Gentle(db, db') /\ Gentle(tx, tx')
    BY <2>1, <2>2, GentleSame
  <2> QED
    BY <1>2, <2>1, <2>3 DEF Aside, engineVars
<1>5. ASSUME NEW o \in LotIds,
             \/ BuyFills(o) \/ BuyCancelled(o) \/ ExitSubmitted(o) \/ ExitCancelled(o)
      PROVE  Aside
  <2>1. db.lots[o] \in LotRow
    BY Zenon, <1>1
  <2>2. \E from \in {"SUBMITTED", "HELD"}, s \in {"HELD", "CANCELLED"}, b \in BOOLEAN :
           Move(o, from, [db.lots[o] EXCEPT !.status = s, !.exiting = b])
    <3>1. /\ [db.lots[o] EXCEPT !.status = "HELD"]
                = [db.lots[o] EXCEPT !.status = "HELD", !.exiting = db.lots[o].exiting]
          /\ [db.lots[o] EXCEPT !.status = "CANCELLED"]
                = [db.lots[o] EXCEPT !.status = "CANCELLED", !.exiting = db.lots[o].exiting]
          /\ db.lots[o].exiting \in BOOLEAN
      BY <2>1 DEF LotRow
    <3>2. db.lots[o].status = "HELD" =>
             /\ [db.lots[o] EXCEPT !.exiting = TRUE]
                   = [db.lots[o] EXCEPT !.status = "HELD", !.exiting = TRUE]
             /\ [db.lots[o] EXCEPT !.exiting = FALSE]
                   = [db.lots[o] EXCEPT !.status = "HELD", !.exiting = FALSE]
      BY <2>1 DEF LotRow
    <3>3. CASE BuyFills(o)
      BY <3>1, <3>3 DEF BuyFills
    <3>4. CASE BuyCancelled(o)
      BY Zenon, <3>1, <3>4 DEF BuyCancelled
    <3>5. CASE ExitSubmitted(o) \/ ExitCancelled(o)
      BY <3>2, <3>5 DEF ExitSubmitted, ExitCancelled, Move
    <3> QED
      BY <1>5, <3>3, <3>4, <3>5
  <2>3. PICK from \in {"SUBMITTED", "HELD"}, s \in {"HELD", "CANCELLED"}, b \in BOOLEAN :
           Move(o, from, [db.lots[o] EXCEPT !.status = s, !.exiting = b])
    BY <2>2
  <2> DEFINE row == [db.lots[o] EXCEPT !.status = s, !.exiting = b]
  <2>4. /\ row \in LotRow /\ row.token = db.lots[o].token /\ row.decision = db.lots[o].decision
        /\ row.status = s
    BY <2>1 DEF LotRow, LotStatus
  <2>5. db.lots[o].status \in {"SUBMITTED", "HELD"} /\ Transact(SetLot(db, o, row))
    BY <2>3 DEF Move
  <2> HIDE DEF row
  <2>6. Gentle(db, SetLot(db, o, row))
    BY <1>1, <2>4, <2>5, GentleSetLot
  <2> QED
    BY <1>2, <2>5, <2>6, TransactAside
<1>6. ASSUME NEW o \in LotIds, ExitFills(o)
      PROVE  Aside
  <2> DEFINE row == [db.lots[o] EXCEPT !.status = "SOLD", !.exiting = FALSE]
             d   == SetLot(db, o, row)
  <2>1. PICK loss \in Losses : Transact([d EXCEPT !.lost = db.lost + loss])
    BY <1>6 DEF ExitFills
  <2> DEFINE e == [d EXCEPT !.lost = db.lost + loss]
  <2>2. /\ row \in LotRow /\ row.status = "SOLD" /\ row.token = db.lots[o].token
        /\ row.decision = db.lots[o].decision
    BY <1>1 DEF LotRow, LotStatus
  <2>3. db.lots[o].status = "HELD"
    BY <1>6 DEF ExitFills
  <2> HIDE DEF row
  <2>4. d \in Database /\ Gentle(db, d)
    BY <1>1, <2>2, <2>3, SetLotShape, GentleSetLot
  <2> HIDE DEF d
  <2>5. e.lots = d.lots
    BY <2>4 DEF Database
  <2>6. Gentle(db, e) /\ Transact(e)
    BY <2>1, <2>4, <2>5 DEF Gentle
  <2> HIDE DEF e
  <2> QED
    BY <1>2, <2>6, TransactAside
<1> QED
  BY <1>3, <1>4, <1>5, <1>6 DEF LotsMove

\* Every step but the engine's and a crash.
LEMMA OthersAside ==
    ASSUME Inv,
           \/ ControlNext /\ UNCHANGED <<dropped, engineVars>>
           \/ LotsMove /\ UNCHANGED <<placed, dropped, vault, engineVars, controlVars>>
           \/ (Lock \/ Unlock) /\ UNCHANGED <<dropped, engineVars, controlVars>>
           \/ UNCHANGED vars
    PROVE  Aside
<1>1. db \in Database
  BY DEF Inv, Shape
<1>2. CASE MonitorNext /\ UNCHANGED <<dropped, engineVars>>
  <2>1. placed' = placed
    BY <1>2 DEF MonitorNext, MonitorLoad, MonitorPositions, MonitorVerdict, MonitorAbort
  <2>2. CASE UNCHANGED dbVars
    BY <1>2, <2>1, <2>2, QuietAside
  <2>3. CASE Transact(Pause(db))
    <3>1. Pause(db).lots = db.lots
      BY <1>1 DEF Pause, SetBot, Database
    <3>2. Gentle(db, Pause(db))
      BY <3>1, GentleSame
    <3> QED
      BY <1>2, <2>1, <2>3, <3>2, TransactAside
  <2> QED
    BY <1>2, <2>2, <2>3 DEF MonitorNext, MonitorLoad, MonitorPositions, MonitorVerdict, MonitorAbort, dbVars
<1>3. CASE UserNext /\ UNCHANGED <<dropped, engineVars>>
  <2>1. placed' = placed
    BY <1>3 DEF UserNext, PatchLoad, PatchCommit, PatchFails
  <2>2. CASE UNCHANGED dbVars
    BY <1>3, <2>1, <2>2, QuietAside
  <2>3. ASSUME NEW bot, Transact(SetBot(db, bot))
        PROVE  Aside
    <3>1. SetBot(db, bot).lots = db.lots
      BY <1>1 DEF SetBot, Database
    <3>2. Gentle(db, SetBot(db, bot))
      BY <3>1, GentleSame
    <3> QED
      BY <1>3, <2>1, <2>3, <3>2, TransactAside
  <2> QED
    BY <1>3, <2>2, <2>3 DEF UserNext, PatchLoad, PatchCommit, PatchFails, dbVars
<1>4. CASE LotsMove /\ UNCHANGED <<placed, dropped, vault, engineVars, controlVars>>
  BY <1>4, LotsMoveAside
<1>5. CASE (Lock \/ Unlock) /\ UNCHANGED <<dropped, engineVars, controlVars>>
  BY <1>5, QuietAside DEF Lock, Unlock, dbVars, engineVars
<1>6. CASE UNCHANGED vars
  BY <1>6, QuietAside DEF vars, dbVars, engineVars
<1> QED
  BY <1>2, <1>3, <1>4, <1>5, <1>6 DEF ControlNext

-----------------------------------------------------------------------------
(***************************************************************************)
(* What the engine's steps do to the lots, the acceptances and its record. *)
(***************************************************************************)

\* Notionals add up to a natural number.
LEMMA NotionalNat ==
    ASSUME NEW d \in Database
    PROVE  Notional(d, Held(d)) \in Nat /\ Cardinality(Held(d)) \in Nat
<1> DEFINE f == [o \in LotIds |-> d.lots[o].notional]
<1>1. IsFiniteSet(Held(d)) /\ Held(d) \subseteq LotIds
  BY ActiveFinite DEF Held
<1>2. \A o \in Held(d) : f[o] \in Nat
  BY <1>1 DEF Database, LotRow
<1>3. SumFunctionOnSet(f, Held(d)) \in Nat
  BY <1>1, <1>2, SumNat
<1> QED
  BY <1>1, <1>3, FS_CardinalityType DEF Notional

\* What a step of the engine leaves of the lots it works on: all of them, or all but
\* the lot that is inserted or answered.
LEMMA EngineLots ==
    ASSUME Inv, EngineNext \/ LogDecision
    PROVE  \/ /\ tx'.lots = tx.lots /\ placed' = placed
              /\ engine.pc = "reply" => engine' = engine
              /\ engine'.pc = "reply" => engine.pc = "reply" /\ engine' = engine
           \/ /\ engine.pc = "place" /\ placed' = placed /\ cursor' = cursor
              /\ engine'.pc = "reply" /\ engine'.lot \in LotIds
              /\ tx.lots[engine'.lot].status = "ABSENT"
              /\ tx'.lots = [tx.lots EXCEPT ![engine'.lot] =
                    [status |-> "PENDING_SUBMIT", token |-> TokenOf[cursor], decision |-> cursor,
                     notional |-> StakeOf[cursor], exiting |-> FALSE]]
           \/ /\ engine.pc = "reply" /\ engine'.pc = "loop" /\ engine.lot \in LotIds
              /\ \/ /\ tx'.lots = [tx.lots EXCEPT ![engine.lot] = [@ EXCEPT !.status = "SUBMITTED"]]
                    /\ placed[tx.lots[engine.lot].token] < MaxPlaced
                    /\ placed' = [placed EXCEPT ![tx.lots[engine.lot].token] = @ + 1]
                 \/ /\ tx'.lots = [tx.lots EXCEPT ![engine.lot] = [@ EXCEPT !.status = "FAILED"]]
                    /\ placed' = placed
                 \/ /\ tx'.lots = [tx.lots EXCEPT ![engine.lot] = [@ EXCEPT !.status = "UNHEARD"]]
                    /\ placed[tx.lots[engine.lot].token] < MaxPlaced
                    /\ placed' = [placed EXCEPT ![tx.lots[engine.lot].token] = @ + 1]
<1>1. PICK N : engine \in EngineRec(N)
  BY DEF Inv, Shape
<1>2. tx \in Database /\ tx.lots \in [LotIds -> LotRow]
  BY DEF Inv, Shape, Database
<1>3. \A o, row : SetLot(tx, o, row).lots = [tx.lots EXCEPT ![o] = row]
  BY <1>2 DEF SetLot, Database
<1>4. CASE \/ CycleStart \/ ReadOrders \/ ReadPositions \/ ReadBuys \/ SkipDuplicate \/ AtCap
           \/ RiskPositions \/ Unplaceable \/ CycleCommit \/ CycleAbort \/ LogDecision
  <2>1. tx' = tx /\ placed' = placed
    BY <1>4 DEF CycleStart, ReadOrders, ReadPositions, ReadBuys, SkipDuplicate, AtCap, RiskPositions,
       Unplaceable, CycleCommit, CycleAbort, LogDecision, EngineRead, Commit, dbVars
  <2>2. CASE LogDecision
    BY <2>1, <2>2 DEF LogDecision
  <2>3. CASE ~LogDecision
    <3>1. engine.pc # "reply"
      BY <1>4, <2>3 DEF CycleStart, ReadOrders, ReadPositions, ReadBuys, SkipDuplicate, AtCap, RiskPositions,
         Unplaceable, CycleCommit, CycleAbort, NextDecision, At
    <3>2. engine'.pc # "reply"
      <4>1. CASE CycleCommit \/ CycleAbort
        BY <4>1, EngineIdleShape DEF CycleCommit, CycleAbort
      <4>2. CASE CycleStart \/ ReadOrders \/ ReadPositions \/ ReadBuys \/ RiskPositions
        BY <1>1, <4>2 DEF CycleStart, ReadOrders, ReadPositions, ReadBuys, RiskPositions, Goto, EngineRec
      <4>3. CASE SkipDuplicate \/ AtCap \/ Unplaceable
        BY <1>1, <3>1, <4>3 DEF SkipDuplicate, AtCap, Unplaceable, Goto, EngineRec
      <4> QED
        BY <1>4, <2>3, <4>1, <4>2, <4>3
    <3> QED
      BY <2>1, <3>1, <3>2
  <2> QED
    BY <2>2, <2>3
<1>5. CASE RiskVerdict
  <2>3. engine.pc # "reply" /\ engine'.pc # "reply"
    BY <1>1, <1>5 DEF RiskVerdict, Goto, At, EngineRec
  <2>1. placed' = placed /\ (tx' = tx \/ tx' = Pause(tx))
    BY <1>5 DEF RiskVerdict, Write, dbVars
  <2>2. Pause(tx).lots = tx.lots
    BY <1>2 DEF Pause, SetBot, Database
  <2> QED
    BY <2>1, <2>2, <2>3
<1>6. ASSUME NEW o \in LotIds, Insert(o)
      PROVE  /\ engine.pc = "place" /\ placed' = placed /\ cursor' = cursor
             /\ engine'.pc = "reply" /\ engine'.lot \in LotIds
             /\ tx.lots[engine'.lot].status = "ABSENT"
             /\ tx'.lots = [tx.lots EXCEPT ![engine'.lot] =
                   [status |-> "PENDING_SUBMIT", token |-> TokenOf[cursor], decision |-> cursor,
                    notional |-> StakeOf[cursor], exiting |-> FALSE]]
  <2> DEFINE row == [status |-> "PENDING_SUBMIT", token |-> TokenOf[cursor], decision |-> cursor,
                     notional |-> StakeOf[cursor], exiting |-> FALSE]
  <2>1. /\ engine.pc = "place" /\ placed' = placed /\ cursor' = cursor
        /\ tx.lots[o].status = "ABSENT" /\ tx' = SetLot(tx, o, row)
        /\ engine' = [engine EXCEPT !.pc = "reply", !.lot = o]
    BY <1>6 DEF Insert, At, Write
  <2> HIDE DEF row
  <2>2. tx'.lots = [tx.lots EXCEPT ![o] = row]
    BY <1>3, <2>1
  <2>3. engine'.pc = "reply" /\ engine'.lot = o
    BY <1>1, <2>1 DEF EngineRec
  <2> QED
    BY <2>1, <2>2, <2>3 DEF row
<1>7. CASE Submitted \/ Failed \/ Unheard
  <2>1. /\ engine.pc = "reply" /\ engine.lot \in LotIds /\ engine'.pc = "loop"
    BY <1>1, <1>7 DEF Submitted, Failed, Unheard, At, EngineRec, Inv, Counted, PendingBuys
  <2>2. \A s : SetStatus(tx, engine.lot, s).lots = [tx.lots EXCEPT ![engine.lot] = [@ EXCEPT !.status = s]]
    BY <1>3 DEF SetStatus
  <2> QED
    BY <1>7, <2>1, <2>2 DEF Submitted, Failed, Unheard, Write
<1> QED
  BY <1>4, <1>5, <1>6, <1>7 DEF EngineNext

\* The engine's record keeps its shape, sums of notionals included.
LEMMA EngineTypeNext ==
    ASSUME Inv, engine \in EngineType, Inv', EngineNext \/ LogDecision
    PROVE  engine' \in EngineType
<1>1. PICK N : engine' \in EngineRec(N)
  BY DEF Inv, Shape
<1>2. engine'.riskNotional \in Nat
  <2>1. engine.riskNotional \in Nat
    BY DEF EngineType
  <2>2. CASE \/ CycleStart \/ ReadOrders \/ ReadPositions \/ ReadBuys \/ SkipDuplicate \/ AtCap
             \/ Unplaceable \/ LogDecision \/ Submitted \/ Failed \/ Unheard \/ \E o \in LotIds : Insert(o)
    BY <2>1, <2>2 DEF CycleStart, ReadOrders, ReadPositions, ReadBuys, SkipDuplicate, AtCap,
       Unplaceable, LogDecision, Submitted, Failed, Unheard, Insert, Goto, EngineType
  <2>3. CASE RiskPositions
    <3>1. View("engine") \in Database
      BY DEF View, Inv, Shape
    <3>2. Notional(View("engine"), Held(View("engine"))) \in Nat
      BY <3>1, NotionalNat
    <3> QED
      BY <2>3, <3>2 DEF RiskPositions, EngineType
  <2>4. CASE RiskVerdict
    <3>1. engine' = [engine EXCEPT !.pc = "commit"] \/ engine' = [engine EXCEPT !.pc = "place"]
      BY <2>4 DEF RiskVerdict, Goto
    <3> QED
      BY <2>1, <3>1 DEF EngineType
  <2>5. CASE CycleCommit \/ CycleAbort
    BY <2>5 DEF CycleCommit, CycleAbort, EngineIdle
  <2> QED
    BY <2>2, <2>3, <2>4, <2>5 DEF EngineNext
<1> QED
  BY <1>1, <1>2 DEF EngineRec, EngineType

\* The monitor's record keeps its shape.
LEMMA MonitorTypeNext ==
    ASSUME Inv, TypeInv, MonitorNext
    PROVE  monitor' \in [pc : {"idle", "loaded", "positions"}, running : BOOLEAN,
                         balance : SUBSET Balances, held : Nat, notional : Nat]
<1> DEFINE M == [pc : {"idle", "loaded", "positions"}, running : BOOLEAN,
                 balance : SUBSET Balances, held : Nat, notional : Nat]
<1>1. monitor \in M /\ db \in Database /\ db.bot.is_running \in BOOLEAN
  BY DEF TypeInv, Inv, Shape, Database, BotRow
<1>2. MonitorIdle \in M
  BY DEF MonitorIdle
<1>3. CASE MonitorLoad
  <2>1. PICK b \in SUBSET Balances :
           monitor' = [MonitorIdle EXCEPT !.pc = "loaded", !.running = db.bot.is_running, !.balance = b]
    BY <1>3 DEF MonitorLoad
  <2> DEFINE r == db.bot.is_running
             m == MonitorIdle
  <2>2. r \in BOOLEAN /\ m \in M
    BY <1>1, <1>2
  <2>3. monitor' = [m EXCEPT !.pc = "loaded", !.running = r, !.balance = b]
    BY <2>1
  <2> HIDE DEF r, m
  <2> QED
    BY <2>2, <2>3
<1>4. CASE MonitorPositions
  <2> DEFINE h == Cardinality(Held(db))
             n == Notional(db, Held(db))
  <2>1. h \in Nat /\ n \in Nat
    BY <1>1, NotionalNat
  <2>2. monitor' = [monitor EXCEPT !.pc = "positions", !.held = h, !.notional = n]
    BY <1>4 DEF MonitorPositions
  <2> HIDE DEF h, n
  <2> QED
    BY <1>1, <2>1, <2>2
<1>5. CASE MonitorVerdict \/ MonitorAbort
  BY <1>2, <1>5 DEF MonitorVerdict, MonitorAbort
<1> QED
  BY <1>3, <1>4, <1>5 DEF MonitorNext

-----------------------------------------------------------------------------
(***************************************************************************)
(* Types, and the record of what the CLOB accepted.                        *)
(***************************************************************************)

\* A gentle commit gives no lot another token and opens none.
LEMMA GentleNamed ==
    ASSUME NEW d, NEW e, Gentle(d, e), Named(d)
    PROVE  Named(e)
BY DEF Gentle, Named

LEMMA GentleAccepted ==
    ASSUME NEW d, NEW e, Gentle(d, e), NEW t
    PROVE  Accepted(e, t) = Accepted(d, t)
BY DEF Gentle, Accepted

\* What is committed is what the engine's transaction held, or what it was.
LEMMA EngineCommits ==
    ASSUME Inv, EngineNext \/ LogDecision
    PROVE  db' = db \/ (db' = tx /\ tx' = tx /\ engine.pc # "reply" /\ engine'.pc = "idle")
<1>1. CASE CycleCommit
  BY <1>1, EngineIdleShape DEF CycleCommit, Commit, View, At
<1>2. CASE \/ CycleStart \/ ReadOrders \/ ReadPositions \/ ReadBuys \/ SkipDuplicate \/ AtCap
           \/ RiskPositions \/ RiskVerdict \/ Unplaceable \/ Submitted \/ Failed \/ Unheard \/ CycleAbort
           \/ LogDecision \/ (\E o \in LotIds : Insert(o))
  BY <1>2 DEF CycleStart, ReadOrders, ReadPositions, ReadBuys, SkipDuplicate, AtCap, RiskPositions,
     RiskVerdict, Unplaceable, Submitted, Failed, Unheard, CycleAbort, LogDecision, Insert, EngineRead, Write, dbVars
<1> QED
  BY <1>1, <1>2 DEF EngineNext

\* Every step keeps the types.
LEMMA TypeNext == Inv /\ TypeInv /\ [Next]_vars => TypeInv'
<1> SUFFICES ASSUME Inv, TypeInv, [Next]_vars
             PROVE  TypeInv'
  OBVIOUS
<1>1. Inv'
  BY NextInv
<1> DEFINE M == [pc : {"idle", "loaded", "positions"}, running : BOOLEAN,
                 balance : SUBSET Balances, held : Nat, notional : Nat]
           U == [pc : {"idle", "loaded"}, bot : BotRow]
<1>2. /\ engine \in EngineType /\ placed \in [Tokens -> 0 .. MaxPlaced] /\ dropped \in [Tokens -> Nat] /\ vault \in BOOLEAN
      /\ monitor \in M /\ user \in U /\ Named(db) /\ Named(tx)
  BY DEF TypeInv
<1>3. EngineIdle \in EngineType /\ MonitorIdle \in M /\ UserIdle \in U
  BY EngineIdleShape DEF EngineRec, EngineType, MonitorIdle, UserIdle, BotRow
<1>4. CASE (EngineNext \/ LogDecision) /\ UNCHANGED <<dropped, controlVars>>
  <2>1. engine' \in EngineType
    BY <1>1, <1>2, <1>4, EngineTypeNext
  <2>2. vault' = vault /\ monitor' = monitor /\ user' = user
    BY <1>4 DEF EngineNext, CycleStart, ReadOrders, ReadPositions, ReadBuys, SkipDuplicate, AtCap,
       RiskPositions, RiskVerdict, Unplaceable, Submitted, Failed, Unheard, CycleCommit, CycleAbort, Insert,
       LogDecision, EngineRead, controlVars
  <2>3. tx.lots \in [LotIds -> LotRow] /\ Named(tx)
    BY <1>2 DEF Inv, Shape, Database
  <2>4. Named(tx') /\ placed' \in [Tokens -> 0 .. MaxPlaced]
    <3>1. CASE tx'.lots = tx.lots /\ placed' = placed
      BY <1>2, <3>1 DEF Named
    <3>2. CASE /\ engine.pc = "place" /\ placed' = placed /\ engine'.lot \in LotIds
               /\ tx'.lots = [tx.lots EXCEPT ![engine'.lot] =
                     [status |-> "PENDING_SUBMIT", token |-> TokenOf[cursor], decision |-> cursor,
                      notional |-> StakeOf[cursor], exiting |-> FALSE]]
      <4>1. TokenOf[cursor] \in Tokens
        <5>1. cursor \in 1 .. Decisions
          BY <3>2 DEF Inv, Counted
        <5> QED
          BY <5>1, BotAssumption
      <4> QED
        BY <1>2, <2>3, <3>2, <4>1 DEF Named
    <3>3. CASE /\ engine.pc = "reply" /\ engine.lot \in LotIds
               /\ \/ /\ tx'.lots = [tx.lots EXCEPT ![engine.lot] = [@ EXCEPT !.status = "SUBMITTED"]]
                     /\ placed[tx.lots[engine.lot].token] < MaxPlaced
                     /\ placed' = [placed EXCEPT ![tx.lots[engine.lot].token] = @ + 1]
                  \/ /\ tx'.lots = [tx.lots EXCEPT ![engine.lot] = [@ EXCEPT !.status = "FAILED"]]
                     /\ placed' = placed
                  \/ /\ tx'.lots = [tx.lots EXCEPT ![engine.lot] = [@ EXCEPT !.status = "UNHEARD"]]
                     /\ placed[tx.lots[engine.lot].token] < MaxPlaced
                     /\ placed' = [placed EXCEPT ![tx.lots[engine.lot].token] = @ + 1]
      <4> DEFINE t == tx.lots[engine.lot].token
      <4>1. tx.lots[engine.lot].status # "ABSENT"
        BY <3>3 DEF Inv, Counted, PendingBuys, InFlight
      <4>2. t \in Tokens
        BY <2>3, <3>3, <4>1 DEF Named
      <4>3. \A o \in LotIds : tx'.lots[o].token = tx.lots[o].token
        <5>1. tx.lots[engine.lot] \in LotRow
          BY <2>3, <3>3
        <5>2. \A s : [tx.lots[engine.lot] EXCEPT !.status = s].token = t
          BY <5>1 DEF LotRow
        <5>3. PICK s : tx'.lots = [tx.lots EXCEPT ![engine.lot] = [@ EXCEPT !.status = s]]
          BY <3>3
        <5> DEFINE row == [tx.lots[engine.lot] EXCEPT !.status = s]
        <5>4. tx'.lots = [tx.lots EXCEPT ![engine.lot] = row] /\ row.token = t
          BY <5>2, <5>3
        <5> HIDE DEF row
        <5> QED
          BY <2>3, <3>3, <5>4
      <4>4. \A o \in LotIds : tx'.lots[o].status # "ABSENT" => tx.lots[o].status # "ABSENT"
        BY <2>3, <3>3, <4>1
      <4>5. Named(tx')
        BY <2>3, <4>3, <4>4 DEF Named
      <4>6. placed' \in [Tokens -> 0 .. MaxPlaced]
        <5> DEFINE p == placed[t]
        <5>1. placed' = placed \/ (p < MaxPlaced /\ placed' = [placed EXCEPT ![t] = p + 1])
          BY <3>3
        <5>2. p \in 0 .. MaxPlaced
          BY <1>2, <4>2
        <5> HIDE DEF t, p
        <5>3. p < MaxPlaced => p + 1 \in 0 .. MaxPlaced
          BY <5>2, BotAssumption
        <5> QED
          BY <1>2, <4>2, <5>1, <5>3
      <4> QED
        BY <4>5, <4>6
    <3> QED
      BY <1>4, <3>1, <3>2, <3>3, EngineLots
  <2>5. Named(db')
    BY <1>2, <1>4, EngineCommits
  <2>6. dropped' \in [Tokens -> Nat]
    BY <1>2, <1>4
  <2> QED
    BY <1>2, <2>1, <2>2, <2>4, <2>5, <2>6 DEF TypeInv, Named
<1>5. ASSUME Aside, vault' \in BOOLEAN, monitor' \in M, user' \in U
      PROVE  TypeInv'
  <2>1. Named(db') /\ Named(tx')
    BY <1>2, <1>5, GentleNamed DEF Aside
  <2> QED
    BY <1>2, <1>5, <2>1 DEF Aside, TypeInv, Named
<1>6. CASE ControlNext /\ UNCHANGED <<dropped, engineVars>>
  <2>1. Aside
    BY <1>6, OthersAside
  <2>2. vault' = vault
    BY <1>6 DEF ControlNext, MonitorNext, MonitorLoad, MonitorPositions, MonitorVerdict, MonitorAbort,
       UserNext, PatchLoad, PatchCommit, PatchFails
  <2>3. monitor' \in M
    <3>1. CASE MonitorNext
      BY <3>1, MonitorTypeNext
    <3>2. CASE UserNext
      BY <1>2, <3>2 DEF UserNext, PatchLoad, PatchCommit, PatchFails
    <3> QED
      BY <1>6, <3>1, <3>2 DEF ControlNext
  <2>4. user' \in U
    <3>1. db.bot \in BotRow
      BY DEF Inv, Shape, Database
    <3>2. CASE MonitorNext
      BY <1>2, <3>2 DEF MonitorNext, MonitorLoad, MonitorPositions, MonitorVerdict, MonitorAbort
    <3>3. CASE UserNext
      BY <1>3, <3>1, <3>3 DEF UserNext, PatchLoad, PatchCommit, PatchFails
    <3> QED
      BY <1>6, <3>2, <3>3 DEF ControlNext
  <2> QED
    BY <1>2, <1>5, <2>1, <2>2, <2>3, <2>4
<1>7. CASE LotsMove /\ UNCHANGED <<placed, dropped, vault, engineVars, controlVars>>
  <2>1. Aside
    BY <1>7, OthersAside
  <2> QED
    BY <1>2, <1>5, <1>7, <2>1 DEF controlVars
<1>8. CASE (Lock \/ Unlock) /\ UNCHANGED <<dropped, engineVars, controlVars>>
  <2>1. Aside
    BY <1>8, OthersAside
  <2>2. vault' \in BOOLEAN /\ monitor' = monitor /\ user' = user
    BY <1>8 DEF Lock, Unlock, controlVars
  <2> QED
    BY <1>2, <1>5, <2>1, <2>2
<1>9. CASE Crash
  <2> DEFINE n(t) == dropped[t] + Cardinality({o \in Accepted(tx, t) : db.lots[o].status = "ABSENT"})
  <2>1. dropped' = [t \in Tokens |-> n(t)]
    BY <1>9 DEF Crash
  <2>2. \A t \in Tokens : n(t) \in Nat
    <3> SUFFICES ASSUME NEW t \in Tokens  PROVE  n(t) \in Nat
      OBVIOUS
    <3> DEFINE S == {o \in Accepted(tx, t) : db.lots[o].status = "ABSENT"}
    <3>1. S \subseteq LotIds
      BY DEF Accepted
    <3>2. Cardinality(S) \in Nat
      BY <3>1, BotAssumption, FS_Subset, FS_CardinalityType
    <3> HIDE DEF S
    <3>3. dropped[t] \in Nat
      BY <1>2
    <3> QED
      BY <3>2, <3>3 DEF S
  <2> HIDE DEF n
  <2>3. dropped' \in [Tokens -> Nat]
    BY <2>1, <2>2
  <2> QED
    BY <1>2, <1>3, <1>9, <2>3 DEF Crash, TypeInv, Named
<1>10. CASE UNCHANGED vars
  <2>1. Aside
    BY <1>10, OthersAside
  <2> QED
    BY <1>2, <1>5, <1>10, <2>1 DEF vars
<1> QED
  BY <1>4, <1>6, <1>7, <1>8, <1>9, <1>10 DEF Next

\* At the start the records are idle ones and there are no lots.
LEMMA TypeInit == Init => TypeInv
<1> SUFFICES ASSUME Init
               PROVE  TypeInv
    OBVIOUS
<1>1. EngineIdle \in EngineType /\ MonitorIdle.pc = "idle"
    BY EngineIdleShape DEF EngineRec, EngineType, MonitorIdle
<1>2. MonitorIdle \in [pc : {"idle", "loaded", "positions"}, running : BOOLEAN,
                         balance : SUBSET Balances, held : Nat, notional : Nat]
    BY DEF MonitorIdle
<1>3. \A o \in LotIds : db.lots[o].status = "ABSENT" /\ tx.lots[o].status = "ABSENT"
    BY DEF Init, BotDbInit, NoLotRow
<1>4. placed \in [Tokens -> 0 .. MaxPlaced] /\ dropped \in [Tokens -> Nat] /\ vault \in BOOLEAN
    BY BotAssumption DEF Init, BotDbInit
<1>5. UserIdle \in [pc : {"idle", "loaded"}, bot : BotRow]
    BY DEF UserIdle, BotRow
<1> QED
    BY <1>1, <1>2, <1>3, <1>4, <1>5 DEF Init, EngineInit, ControlInit, TypeInv, Named

\* Every variable of the entry side keeps its type: among others, no row is written
\* for a token that no decision names, and no count or notional becomes negative.
THEOREM TypeCorrect == Spec => []TypeOK
<1>1. Init => TypeInv
  BY TypeInit
<1>2. Inv /\ TypeInv => TypeOK
  <2> SUFFICES ASSUME Inv, TypeInv
               PROVE  TypeOK
    OBVIOUS
  <2>1. writer \in Tasks \cup {NoTask}
    BY DEF Inv, Shape, Tasks
  <2>2. user \in [pc : {"idle", "loaded"}, bot : BotRow]
    BY DEF TypeInv
  <2> QED
    BY <2>1, <2>2 DEF Inv, Shape, TypeInv, TypeOK, BotDbTypeOK, EngineTypeOK, ControlTypeOK
<1> QED
  BY <1>1, <1>2, TypeNext, Invariance, PTL DEF Spec

-----------------------------------------------------------------------------
(***************************************************************************)
(* What the CLOB accepted is recorded, but for what a crash cuts off.      *)
(***************************************************************************)

\* Every step keeps the rows apart: an open transaction differs from the database by
\* lots of its own.
LEMMA RowsNext == Inv /\ TypeInv /\ PlacedInv /\ [Next]_vars => RowsKept'
<1> SUFFICES ASSUME Inv, TypeInv, PlacedInv, [Next]_vars
             PROVE  RowsKept'
  OBVIOUS
<1>1. RowsKept /\ (engine.pc = "reply" => tx.lots[engine.lot].status = "PENDING_SUBMIT")
  BY DEF PlacedInv
<1>2. tx.lots \in [LotIds -> LotRow]
  BY DEF Inv, Shape, Database
<1>3. Inv'
  BY NextInv
<1>4. CASE Aside
  <2>1. engine' = engine /\ Gentle(tx, tx') /\ Gentle(db, db')
    BY <1>4 DEF Aside
  <2>2. CASE writer = "engine"
    <3>1. db'.lots = db.lots /\ tx'.lots = tx.lots
      BY <1>4, <2>2 DEF Aside
    <3> QED
      BY <1>1, <2>1, <3>1 DEF RowsKept
  <2>3. CASE writer # "engine"
    <3>1. tx' = db'
      BY <1>3, <1>4, <2>3 DEF Aside, Inv, OpenTx
    <3> QED
      BY <1>1, <2>1, <3>1 DEF RowsKept, Gentle
  <2> QED
    BY <2>2, <2>3
<1>5. CASE EngineNext \/ LogDecision
  <2>1. CASE db' = tx /\ tx' = tx /\ engine.pc # "reply"
    BY <1>1, <2>1 DEF RowsKept
  <2>2. CASE db' = db
    <3>1. CASE tx'.lots = tx.lots /\ (engine.pc = "reply" => engine' = engine)
      BY <1>1, <2>2, <3>1 DEF RowsKept
    <3>2. ASSUME engine.pc = "place", engine'.pc = "reply", engine'.lot \in LotIds,
                 tx.lots[engine'.lot].status = "ABSENT",
                 \A o \in LotIds \ {engine'.lot} : tx'.lots[o] = tx.lots[o]
          PROVE  RowsKept'
      BY <1>1, <2>2, <3>2 DEF RowsKept
    <3>3. ASSUME engine.pc = "reply", engine.lot \in LotIds,
                 \A o \in LotIds \ {engine.lot} : tx'.lots[o] = tx.lots[o],
                 tx'.lots[engine.lot].status # "PENDING_SUBMIT"
          PROVE  RowsKept'
      BY <1>1, <2>2, <3>3 DEF RowsKept
    <3>4. CASE /\ engine.pc = "place" /\ engine'.pc = "reply" /\ engine'.lot \in LotIds
               /\ tx.lots[engine'.lot].status = "ABSENT"
               /\ tx'.lots = [tx.lots EXCEPT ![engine'.lot] =
                     [status |-> "PENDING_SUBMIT", token |-> TokenOf[cursor], decision |-> cursor,
                      notional |-> StakeOf[cursor], exiting |-> FALSE]]
      BY <1>2, <3>2, <3>4
    <3>5. CASE /\ engine.pc = "reply" /\ engine.lot \in LotIds
               /\ \E s \in {"SUBMITTED", "FAILED", "UNHEARD"} :
                     tx'.lots = [tx.lots EXCEPT ![engine.lot] = [@ EXCEPT !.status = s]]
      <4>1. PICK s \in {"SUBMITTED", "FAILED", "UNHEARD"} :
               tx'.lots = [tx.lots EXCEPT ![engine.lot] = [@ EXCEPT !.status = s]]
        BY <3>5
      <4> DEFINE row == [tx.lots[engine.lot] EXCEPT !.status = s]
      <4>2. row.status = s /\ tx'.lots = [tx.lots EXCEPT ![engine.lot] = row]
        BY <1>2, <3>5, <4>1 DEF LotRow
      <4> HIDE DEF row
      <4> QED
        BY <1>2, <3>3, <3>5, <4>2
    <3> QED
      BY <1>5, <3>1, <3>4, <3>5, EngineLots
  <2> QED
    BY <1>5, <2>1, <2>2, EngineCommits
<1>6. CASE Crash
  BY <1>1, <1>6 DEF Crash, RowsKept
<1> QED
  BY <1>4, <1>5, <1>6, OthersAside DEF Next

\* Every step keeps the record.
LEMMA PlacedNext == Inv /\ TypeInv /\ PlacedInv /\ [Next]_vars => PlacedInv'
<1> SUFFICES ASSUME Inv, TypeInv, PlacedInv, [Next]_vars
             PROVE  PlacedInv'
  OBVIOUS
<1>0. RowsKept'
  BY RowsNext
<1>1. /\ \A t \in Tokens : placed[t] = dropped[t] + Cardinality(Accepted(tx, t))
      /\ engine.pc = "reply" => tx.lots[engine.lot].status = "PENDING_SUBMIT"
      /\ engine.pc = "reply" => writer = "engine" /\ engine.lot \in LotIds
  BY DEF PlacedInv, Inv, Counted, PendingBuys
<1>1a. \A d, t : IsFiniteSet(Accepted(d, t)) /\ Cardinality(Accepted(d, t)) \in Nat
  <2>1. \A d, t : Accepted(d, t) \subseteq LotIds
    BY DEF Accepted
  <2>2. \A S : S \subseteq LotIds => IsFiniteSet(S) /\ Cardinality(S) \in Nat
    BY BotAssumption, FS_Subset, FS_CardinalityType
  <2> QED
    BY <2>1, <2>2
<1>2. tx.lots \in [LotIds -> LotRow] /\ placed \in [Tokens -> Nat] /\ dropped \in [Tokens -> Nat]
  BY DEF Inv, Shape, Database, TypeInv
<1>3. CASE Aside
  <2>1. engine' = engine /\ placed' = placed /\ dropped' = dropped /\ Gentle(tx, tx')
    BY <1>3 DEF Aside
  <2>2. \A t \in Tokens : Accepted(tx', t) = Accepted(tx, t)
    BY <2>1, GentleAccepted
  <2>3. engine.pc = "reply" => tx'.lots[engine.lot].status = "PENDING_SUBMIT"
    BY <1>1, <2>1 DEF Gentle
  <2>4. \A t \in Tokens : placed'[t] = dropped'[t] + Cardinality(Accepted(tx', t))
    BY <1>1, <2>1, <2>2
  <2> QED
    BY <1>0, <2>1, <2>3, <2>4 DEF PlacedInv, Accepted
<1>4. CASE (EngineNext \/ LogDecision) /\ dropped' = dropped
  <2>1. \A t \in Tokens : placed'[t] = dropped'[t] + Cardinality(Accepted(tx', t))
    <3>1. CASE tx'.lots = tx.lots /\ placed' = placed
      <4>1. \A t : Accepted(tx', t) = Accepted(tx, t)
        BY <3>1 DEF Accepted
      <4> QED
        BY <1>4, <1>1, <3>1, <4>1
    <3>2. CASE /\ placed' = placed /\ engine'.lot \in LotIds
               /\ tx.lots[engine'.lot].status = "ABSENT"
               /\ tx'.lots = [tx.lots EXCEPT ![engine'.lot] =
                     [status |-> "PENDING_SUBMIT", token |-> TokenOf[cursor], decision |-> cursor,
                      notional |-> StakeOf[cursor], exiting |-> FALSE]]
      <4>1. \A t : Accepted(tx', t) = Accepted(tx, t)
        BY <1>2, <3>2 DEF Accepted
      <4> QED
        BY <1>4, <1>1, <3>2, <4>1
    <3>3. CASE /\ engine.pc = "reply"
               /\ tx'.lots = [tx.lots EXCEPT ![engine.lot] = [@ EXCEPT !.status = "FAILED"]]
               /\ placed' = placed
      <4> DEFINE row == [tx.lots[engine.lot] EXCEPT !.status = "FAILED"]
      <4>1. row.status = "FAILED" /\ tx'.lots = [tx.lots EXCEPT ![engine.lot] = row]
        BY <1>1, <1>2, <3>3 DEF LotRow
      <4> HIDE DEF row
      <4>2. \A t : Accepted(tx', t) = Accepted(tx, t)
        BY <1>1, <1>2, <3>3, <4>1 DEF Accepted
      <4> QED
        BY <1>4, <1>1, <3>3, <4>2
    <3>4. ASSUME NEW s \in {"SUBMITTED", "UNHEARD"}, engine.pc = "reply",
                 tx'.lots = [tx.lots EXCEPT ![engine.lot] = [@ EXCEPT !.status = s]],
                 placed' = [placed EXCEPT ![tx.lots[engine.lot].token] = @ + 1]
          PROVE  \A t \in Tokens : placed'[t] = dropped'[t] + Cardinality(Accepted(tx', t))
      <4> DEFINE l   == engine.lot
                 u   == tx.lots[l].token
                 row == [tx.lots[l] EXCEPT !.status = s]
      <4>1. row.status = s /\ row.token = u /\ l \in LotIds
        BY <1>1, <1>2, <3>4 DEF LotRow
      <4>2. tx'.lots = [tx.lots EXCEPT ![l] = row] /\ tx.lots[l].status = "PENDING_SUBMIT"
        BY <1>1, <3>4
      <4>3. placed' = [placed EXCEPT ![u] = @ + 1]
        BY <3>4
      <4> HIDE DEF row, l
      <4>4. \A t \in Tokens \ {u} : Accepted(tx', t) = Accepted(tx, t)
        BY <1>2, <4>1, <4>2 DEF Accepted
      <4>5. Accepted(tx', u) = Accepted(tx, u) \cup {l} /\ l \notin Accepted(tx, u)
        BY <1>2, <4>1, <4>2 DEF Accepted
      <4> HIDE DEF u
      <4>6. ASSUME u \in Tokens  PROVE  placed'[u] = dropped'[u] + Cardinality(Accepted(tx', u))
        <5>1. IsFiniteSet(Accepted(tx, u)) /\ Cardinality(Accepted(tx, u)) \in Nat
          BY <1>1a
        <5>2. Cardinality(Accepted(tx, u) \cup {l}) = Cardinality(Accepted(tx, u)) + 1
          BY <4>5, <5>1, FS_AddElement
        <5>3. placed'[u] = placed[u] + 1
          BY <1>2, <4>3, <4>6
        <5> QED
          BY <1>1, <1>2, <1>4, <4>5, <4>6, <5>1, <5>2, <5>3
      <4>7. ASSUME NEW t \in Tokens \ {u}  PROVE  placed'[t] = dropped'[t] + Cardinality(Accepted(tx', t))
        <5>1. placed'[t] = placed[t]
          BY <1>2, <4>3
        <5> QED
          BY <1>1, <1>4, <4>4, <5>1
      <4> QED
        BY <4>6, <4>7
    <3> QED
      BY <1>4, <3>1, <3>2, <3>3, <3>4, EngineLots
  <2>2. engine'.pc = "reply" => tx'.lots[engine'.lot].status = "PENDING_SUBMIT"
    <3>1. CASE tx'.lots = tx.lots /\ (engine'.pc = "reply" => engine.pc = "reply" /\ engine' = engine)
      BY <1>1, <3>1
    <3>2. CASE /\ engine'.lot \in LotIds
               /\ tx'.lots = [tx.lots EXCEPT ![engine'.lot] =
                     [status |-> "PENDING_SUBMIT", token |-> TokenOf[cursor], decision |-> cursor,
                      notional |-> StakeOf[cursor], exiting |-> FALSE]]
      BY <1>2, <3>2
    <3>3. CASE engine'.pc = "loop"
      BY <3>3
    <3> QED
      BY <1>4, <3>1, <3>2, <3>3, EngineLots
  <2> QED
    BY <1>0, <2>1, <2>2 DEF PlacedInv, Accepted
<1>5. CASE Crash
  <2>1. tx' = db /\ placed' = placed /\ engine' = EngineIdle
    BY <1>5 DEF Crash
  <2>2. engine'.pc # "reply"
    BY <2>1, EngineIdleShape
  <2>3. ASSUME NEW t \in Tokens
        PROVE  placed'[t] = dropped'[t] + Cardinality(Accepted(tx', t))
    <3> DEFINE D == {o \in Accepted(tx, t) : db.lots[o].status = "ABSENT"}
               A == Accepted(db, t)
    <3>1. RowsKept
      BY DEF PlacedInv
    <3>2. Accepted(tx, t) = A \cup D /\ A \cap D = {}
      BY <3>1 DEF Accepted, RowsKept
    <3>3. dropped'[t] = dropped[t] + Cardinality(D)
      BY <1>5 DEF Crash
    <3>4. IsFiniteSet(A) /\ IsFiniteSet(Accepted(tx, t)) /\ Cardinality(A) \in Nat
      BY <1>1a
    <3>5. IsFiniteSet(D)
      BY <3>2, <3>4, FS_Subset
    <3> HIDE DEF A, D
    <3>6. Cardinality(D) \in Nat /\ Cardinality({}) = 0
      BY <3>5, FS_CardinalityType, FS_EmptySet
    <3>7. Cardinality(A \cup D) = Cardinality(A) + Cardinality(D) - Cardinality(A \cap D)
      BY <3>4, <3>5, FS_Union
    <3>8. Cardinality(Accepted(tx, t)) = Cardinality(A) + Cardinality(D)
      <4>1. Cardinality(A \cap D) = 0
        BY <3>2, <3>6
      <4>2. Cardinality(Accepted(tx, t)) = Cardinality(A \cup D)
        BY <3>2
      <4> QED
        BY <3>4, <3>6, <3>7, <4>1, <4>2
    <3>9. Cardinality(Accepted(tx', t)) = Cardinality(A)
      BY <2>1 DEF A
    <3>10. placed[t] = dropped[t] + Cardinality(Accepted(tx, t)) /\ dropped[t] \in Nat
      BY <1>1, <1>2
    <3> QED
      BY <2>1, <3>3, <3>4, <3>6, <3>8, <3>9, <3>10
  <2> QED
    BY <1>0, <2>2, <2>3 DEF PlacedInv, Accepted
<1> QED
  BY <1>3, <1>4, <1>5, OthersAside DEF Next

\* Every BUY the CLOB accepted has its row, whatever is locked, cancelled or filled
\* meanwhile and whether its answer came or not, but those of a cycle that a crash
\* cut off before its commit (trading.py:269-270, 324-332).
THEOREM AcceptedIsRecorded == Spec => []PlacedIsRecorded
<1>1. Init => PlacedInv
  <2> SUFFICES ASSUME Init
               PROVE  PlacedInv
    OBVIOUS
  <2>1. tx = db /\ \A o \in LotIds : tx.lots[o].status = "ABSENT"
    BY DEF Init, BotDbInit, NoLotRow
  <2>2. \A t \in Tokens : Accepted(tx, t) = {} /\ placed[t] = 0 /\ dropped[t] = 0
    BY <2>1 DEF Init, BotDbInit, Accepted
  <2>3. engine.pc # "reply"
    BY EngineIdleShape DEF Init, EngineInit
  <2>4. RowsKept
    BY <2>1 DEF RowsKept
  <2>5. \A t \in Tokens : placed[t] = dropped[t] + Cardinality(Accepted(tx, t))
    <3>1. Cardinality({}) = 0
      BY FS_EmptySet
    <3> QED
      BY <2>2, <3>1
  <2> QED
    BY <2>3, <2>4, <2>5 DEF PlacedInv
<1>2. Init => TypeInv
  BY TypeInit
<1>3. Inv /\ PlacedInv => PlacedIsRecorded
  <2> SUFFICES ASSUME Inv, PlacedInv
               PROVE  PlacedIsRecorded
    OBVIOUS
  <2>1. View("engine") = tx
    BY DEF View, Inv, OpenTx
  <2> QED
    BY <2>1 DEF PlacedInv, PlacedIsRecorded
<1>4. Inv /\ TypeInv /\ PlacedInv /\ [Next]_vars => PlacedInv'
  BY PlacedNext
<1> QED
  BY <1>1, <1>2, <1>3, <1>4, TypeNext, Invariance, PTL DEF Spec

-----------------------------------------------------------------------------
(***************************************************************************)
(* Lots for a token.  The tokens of the orders and positions that the cycle  *)
(* read keep it from buying what it bought before; nothing but the decisions *)
(* themselves keeps it from buying one twice in the same cycle.             *)
(***************************************************************************)

\* What is active after a gentle commit was so before.
LEMMA GentleActive ==
    ASSUME NEW d, NEW e, Gentle(d, e)
    PROVE  /\ Active(e) \subseteq Active(d)
           /\ \A o \in LotIds : /\ e.lots[o].token = d.lots[o].token
                                /\ e.lots[o].decision = d.lots[o].decision
BY DEF Gentle, Active, PendingBuys, Held, InFlight

\* The tokens that are busy are those of the rows that were read.
LEMMA BusySame ==
    ASSUME Inv, \A o \in LotIds : db'.lots[o].token = db.lots[o].token,
           engine'.orders = engine.orders, engine'.exits = engine.exits, engine'.held = engine.held
    PROVE  TokensBusy' = TokensBusy
<1>1. engine.orders \cup engine.exits \cup engine.held \subseteq LotIds
  BY DEF Inv, Shape, EngineRec
<1>2. \A o \in engine.orders \cup engine.exits \cup engine.held : db'.lots[o].token = db.lots[o].token
  BY <1>1
<1> QED
  BY <1>2 DEF TokensBusy

\* The steps of the others.
LEMMA OneLotAside ==
    ASSUME Inv, OneLotInv, Aside
    PROVE  OneLotInv'
<1>1. engine' = engine /\ cursor' = cursor /\ Gentle(db, db') /\ Gentle(tx, tx')
  BY DEF Aside
<1>2. \A o \in LotIds : db'.lots[o].token = db.lots[o].token
  BY <1>1, GentleActive
<1>3. TokensBusy' = TokensBusy
  BY <1>1, <1>2, BusySame
<1>4. /\ Active(tx') \subseteq Active(tx)
      /\ \A o \in Active(tx') : /\ tx'.lots[o].token = tx.lots[o].token
                                /\ tx'.lots[o].decision = tx.lots[o].decision
  BY <1>1, GentleActive DEF Active, PendingBuys, Held
<1>5. /\ Active(db') \subseteq Active(db)
      /\ \A o \in Active(db') : /\ db'.lots[o].token = db.lots[o].token
                                /\ db'.lots[o].decision = db.lots[o].decision
  BY <1>1, GentleActive DEF Active, PendingBuys, Held
<1>6. OneBatch(db') /\ OneBatch(tx')
  BY <1>4, <1>5 DEF OneLotInv, OneBatch
<1>7. \A first, n : Foreseen(tx, TokensBusy, first, n) => Foreseen(tx', TokensBusy, first, n)
  BY <1>4 DEF Foreseen
<1>8. \A pc, last, c : Batch(pc, last, c, tx, TokensBusy) => Batch(pc, last, c, tx', TokensBusy)
  BY <1>7 DEF Batch
<1>9. /\ OneBatch(db)' /\ OneBatch(tx)'
  BY <1>6 DEF OneBatch, Active, PendingBuys, Held
<1> QED
  BY <1>1, <1>3, <1>7, <1>8, <1>9 DEF OneLotInv

\* The engine's steps that write no lot and commit nothing.
LEMMA OneLotReads ==
    ASSUME Inv, OneLotInv,
           \/ CycleStart \/ ReadOrders \/ ReadPositions \/ ReadBuys \/ SkipDuplicate \/ AtCap
           \/ RiskPositions \/ RiskVerdict \/ Unplaceable \/ CycleAbort \/ LogDecision
    PROVE  OneLotInv'
<1>1. PICK N : engine \in EngineRec(N)
  BY DEF Inv, Shape
<1>2. /\ cursor \in Nat /\ BatchLimit \in Nat /\ Decisions \in Nat /\ engine.last \in Nat
      /\ cursor \in 0 .. Decisions
  BY <1>1, BotAssumption DEF Inv, Shape, EngineRec
<1>3. db' = db /\ tx'.lots = tx.lots
  <2>1. CASE RiskVerdict
    <3>1. db' = db /\ (tx' = tx \/ tx' = Pause(tx))
      BY <2>1 DEF RiskVerdict, Write, dbVars
    <3>2. Pause(tx).lots = tx.lots
      BY DEF Pause, SetBot, Inv, Shape, Database
    <3> QED
      BY <3>1, <3>2
  <2>2. CASE \/ CycleStart \/ ReadOrders \/ ReadPositions \/ ReadBuys \/ SkipDuplicate \/ AtCap
             \/ RiskPositions \/ Unplaceable \/ CycleAbort \/ LogDecision
    BY <2>2 DEF CycleStart, ReadOrders, ReadPositions, ReadBuys, SkipDuplicate, AtCap, RiskPositions,
       Unplaceable, CycleAbort, LogDecision, EngineRead, dbVars
  <2> QED
    BY <2>1, <2>2
<1>4. /\ Active(tx') = Active(tx) /\ \A o : tx'.lots[o] = tx.lots[o]
      /\ OneBatch(db)' /\ OneBatch(tx)'
  BY <1>3 DEF OneLotInv, OneBatch, Active, PendingBuys, Held
<1>5. \A busy, first, n : Foreseen(tx', busy, first, n) <=> Foreseen(tx, busy, first, n)
  BY <1>4 DEF Foreseen
<1>6. CASE CycleStart \/ ReadOrders \/ AtCap \/ CycleAbort
  <2>1. engine'.pc \in {"idle", "orders", "positions", "commit"}
    BY <1>1, <1>6, EngineIdleShape DEF CycleStart, ReadOrders, AtCap, CycleAbort, Goto, EngineRec
  <2> QED
    BY <1>4, <2>1 DEF OneLotInv
<1>7. CASE ReadPositions
  <2> DEFINE n == Cardinality(engine.orders) + Cardinality(engine.exits) + Cardinality(Held(db))
             h == Held(db)
  <2>1. engine.pc = "positions" /\ engine' = [engine EXCEPT !.pc = "buys", !.held = h, !.count = n]
    BY <1>7 DEF ReadPositions, At
  <2> HIDE DEF n, h
  <2>2. engine'.pc = "buys" /\ engine'.orders = engine.orders /\ engine'.held = h
    BY <1>1, <2>1 DEF EngineRec
  <2>3. tx = db /\ PendingBuys(db) \subseteq engine.orders
    BY <2>1 DEF Inv, OpenTx, Counted
  <2>4. Active(tx) \subseteq engine'.orders \cup engine'.exits \cup engine'.held
    BY <2>2, <2>3 DEF Active, h
  <2>5. \A o \in Active(tx') : tx'.lots[o].token \in TokensBusy'
    BY <1>3, <1>4, <2>3, <2>4 DEF TokensBusy
  <2>6. Foreseen(tx', TokensBusy', cursor', cursor')
    BY <2>5 DEF Foreseen
  <2> QED
    BY <1>4, <2>2, <2>6 DEF OneLotInv
<1>8. ASSUME engine'.orders = engine.orders, engine'.exits = engine.exits, engine'.held = engine.held
      PROVE  TokensBusy' = TokensBusy
  BY <1>3, <1>8, BusySame
<1>9. CASE ReadBuys
  <2>1. PICK b : engine' = [engine EXCEPT !.pc = "loop", !.last = LastOfBatch, !.balance = b]
    BY <1>9 DEF ReadBuys
  <2>2. engine.pc = "buys" /\ cursor' = cursor
    BY <1>9 DEF ReadBuys, At, EngineRead
  <2>3. LastOfBatch <= cursor + BatchLimit
    BY <1>2 DEF LastOfBatch, Inv, Shape
  <2>4. /\ engine'.pc = "loop" /\ engine'.last = LastOfBatch /\ engine'.orders = engine.orders
        /\ engine'.exits = engine.exits /\ engine'.held = engine.held
    BY <1>1, <2>1 DEF EngineRec
  <2>5. TokensBusy' = TokensBusy
    BY <1>8, <2>4
  <2>6. Foreseen(tx', TokensBusy, cursor, cursor)
    BY <1>5, <2>2 DEF OneLotInv
  <2>7. Batch("loop", LastOfBatch, cursor, tx', TokensBusy)
    BY <1>2, <2>3, <2>6 DEF Batch
  <2> QED
    BY <1>4, <2>2, <2>4, <2>5, <2>7 DEF OneLotInv
<1>10. CASE SkipDuplicate \/ RiskPositions
  <2>1. engine.pc = "loop" /\ cursor < engine.last /\ cursor' = cursor + 1
    BY <1>10 DEF SkipDuplicate, RiskPositions, NextDecision, At, Decision
  <2>2. PICK first \in 0 .. Decisions :
           engine.last <= first + BatchLimit /\ first <= cursor /\ Foreseen(tx, TokensBusy, first, cursor)
    BY <2>1 DEF OneLotInv, Batch
  <2>3. CASE SkipDuplicate
    <3>1. engine' = engine
      BY <2>3 DEF SkipDuplicate
    <3>2. TokensBusy' = TokensBusy
      BY <1>8, <3>1
    <3>3. Foreseen(tx', TokensBusy, first, cursor + 1)
      <4>1. \A i : i \in first + 1 .. cursor => i \in first + 1 .. cursor + 1
        BY <1>2
      <4> QED
        BY <1>4, <2>2, <4>1 DEF Foreseen
    <3>4. first <= cursor + 1
      BY <1>2, <2>2
    <3>5. Batch("loop", engine.last, cursor', tx', TokensBusy)
      BY <2>1, <2>2, <3>3, <3>4 DEF Batch
    <3> QED
      BY <1>4, <2>1, <3>1, <3>2, <3>5 DEF OneLotInv
  <2>4. CASE RiskPositions
    <3>1. /\ engine'.pc = "risk" /\ engine'.last = engine.last /\ engine'.orders = engine.orders
          /\ engine'.exits = engine.exits /\ engine'.held = engine.held
      BY <1>1, <2>4 DEF RiskPositions, EngineRec
    <3>2. TokensBusy' = TokensBusy
      BY <1>8, <3>1
    <3>3. TokenOf[cursor'] \notin TokensBusy
      BY <2>1, <2>4 DEF RiskPositions, Decision
    <3>4. first < cursor' /\ first <= cursor' /\ cursor' <= engine.last /\ cursor' - 1 = cursor
      BY <1>2, <2>1, <2>2
    <3>5. Foreseen(tx', TokensBusy, first, cursor' - 1)
      BY <1>5, <2>2, <3>4
    <3>6. Batch("risk", engine.last, cursor', tx', TokensBusy)
      BY <2>2, <3>4, <3>5 DEF Batch
    <3> QED
      BY <1>4, <3>1, <3>2, <3>3, <3>6 DEF OneLotInv
  <2> QED
    BY <1>10, <2>3, <2>4
<1>11. CASE RiskVerdict
  <2>1. engine.pc = "risk" /\ cursor' = cursor
    BY <1>11 DEF RiskVerdict, At
  <2>2. /\ engine'.pc \in {"commit", "place"} /\ engine'.last = engine.last
        /\ engine'.orders = engine.orders /\ engine'.exits = engine.exits /\ engine'.held = engine.held
    BY <1>1, <1>11 DEF RiskVerdict, Goto, EngineRec
  <2>3. TokensBusy' = TokensBusy
    BY <1>8, <2>2
  <2>4. Batch("place", engine.last, cursor, tx', TokensBusy)
    BY <1>5, <2>1 DEF OneLotInv, Batch
  <2> QED
    BY <1>4, <2>1, <2>2, <2>3, <2>4 DEF OneLotInv
<1>12. CASE Unplaceable
  <2>1. engine.pc = "place" /\ cursor' = cursor
    BY <1>12 DEF Unplaceable, At, EngineRead
  <2>2. /\ engine'.pc = "loop" /\ engine'.last = engine.last
        /\ engine'.orders = engine.orders /\ engine'.exits = engine.exits /\ engine'.held = engine.held
    BY <1>1, <1>12 DEF Unplaceable, Goto, EngineRec
  <2>3. TokensBusy' = TokensBusy
    BY <1>8, <2>2
  <2>4. PICK first \in 0 .. Decisions :
           /\ engine.last <= first + BatchLimit /\ first <= cursor
           /\ Foreseen(tx, TokensBusy, first, cursor - 1)
    BY <2>1 DEF OneLotInv, Batch
  <2>5. Foreseen(tx', TokensBusy, first, cursor)
    <3>1. \A i : i \in first + 1 .. cursor - 1 => i \in first + 1 .. cursor
      BY <1>2
    <3> QED
      BY <1>4, <2>4, <3>1 DEF Foreseen
  <2>6. Batch("loop", engine.last, cursor, tx', TokensBusy)
    BY <2>4, <2>5 DEF Batch
  <2> QED
    BY <1>4, <2>1, <2>2, <2>3, <2>6 DEF OneLotInv
<1>13. CASE LogDecision
  <2>1. engine' = engine /\ cursor' = cursor
    BY <1>13 DEF LogDecision
  <2>2. TokensBusy' = TokensBusy
    BY <1>8, <2>1
  <2>3. \A pc, last, c : Batch(pc, last, c, tx, TokensBusy) => Batch(pc, last, c, tx', TokensBusy)
    BY <1>5 DEF Batch
  <2> QED
    BY <1>4, <1>5, <2>1, <2>2, <2>3 DEF OneLotInv
<1> QED
  BY <1>6, <1>7, <1>9, <1>10, <1>11, <1>12, <1>13

\* The row of the decision is inserted: another active lot of its token is of its batch.
LEMMA OneLotInsert ==
    ASSUME Inv, OneLotInv, NEW o \in LotIds, Insert(o)
    PROVE  OneLotInv'
<1>1. PICK N : engine \in EngineRec(N)
  BY DEF Inv, Shape
<1> DEFINE row == [status |-> "PENDING_SUBMIT", token |-> TokenOf[cursor], decision |-> cursor,
                   notional |-> StakeOf[cursor], exiting |-> FALSE]
           t   == TokenOf[cursor]
<1>2. /\ engine.pc = "place" /\ cursor' = cursor /\ db' = db /\ tx' = SetLot(tx, o, row)
      /\ engine' = [engine EXCEPT !.pc = "reply", !.lot = o]
  BY DEF Insert, At, Write
<1>3. row.token = t /\ row.decision = cursor
  OBVIOUS
<1> HIDE DEF row
<1>4. \A p \in LotIds : tx'.lots[p] = IF p = o THEN row ELSE tx.lots[p]
  BY <1>2 DEF SetLot, Inv, Shape, Database
<1>5. Active(tx') \subseteq Active(tx) \cup {o} /\ Active(tx') \subseteq LotIds
  BY <1>4 DEF Active, PendingBuys, Held
<1>6. cursor \in 1 .. Decisions /\ BatchLimit \in Nat /\ Decisions \in Nat /\ engine.last \in Nat
  BY <1>1, <1>2, BotAssumption DEF Inv, Counted, EngineRec
<1>7. PICK first \in 0 .. Decisions :
         /\ engine.last <= first + BatchLimit /\ first < cursor /\ cursor <= engine.last
         /\ Foreseen(tx, TokensBusy, first, cursor - 1)
  BY <1>2 DEF OneLotInv, Batch
<1>8. ASSUME NEW p \in Active(tx), tx.lots[p].token = t
      PROVE  tx.lots[p].decision \in first + 1 .. cursor - 1
  <2>1. t \notin TokensBusy
    BY <1>2 DEF OneLotInv
  <2> QED
    BY <1>7, <1>8, <2>1 DEF Foreseen
<1>9. OneBatch(tx')
  <2> SUFFICES ASSUME NEW p \in Active(tx'), NEW q \in Active(tx'), p # q,
                      tx'.lots[p].token = tx'.lots[q].token
               PROVE  /\ tx'.lots[p].decision # tx'.lots[q].decision
                      /\ tx'.lots[p].decision - tx'.lots[q].decision < BatchLimit
    BY DEF OneBatch
  <2>1. CASE p # o /\ q # o
    BY <1>4, <1>5, <2>1 DEF OneLotInv, OneBatch
  <2>2. CASE p = o
    <3>1. q \in Active(tx) /\ tx'.lots[q] = tx.lots[q] /\ tx.lots[q].token = t
          /\ tx'.lots[p].decision = cursor
      BY <1>3, <1>4, <1>5, <2>2
    <3>2. tx.lots[q].decision \in first + 1 .. cursor - 1
      BY <1>8, <3>1
    <3> QED
      BY <1>6, <1>7, <3>1, <3>2
  <2>3. CASE q = o
    <3>1. p \in Active(tx) /\ tx'.lots[p] = tx.lots[p] /\ tx.lots[p].token = t
          /\ tx'.lots[q].decision = cursor
      BY <1>3, <1>4, <1>5, <2>3
    <3>2. tx.lots[p].decision \in first + 1 .. cursor - 1
      BY <1>8, <3>1
    <3>3. BatchLimit > 0
      BY BotAssumption
    <3> QED
      BY <1>6, <1>7, <3>1, <3>2, <3>3
  <2> QED
    BY <2>1, <2>2, <2>3
<1>10. /\ engine'.pc = "reply" /\ engine'.last = engine.last
       /\ engine'.orders = engine.orders /\ engine'.exits = engine.exits /\ engine'.held = engine.held
  BY <1>1, <1>2 DEF EngineRec
<1>11. TokensBusy' = TokensBusy
  BY <1>2, <1>10, BusySame
<1>12. Foreseen(tx', TokensBusy, first, cursor)
  <2>1. \A i : i \in first + 1 .. cursor - 1 => i \in first + 1 .. cursor
    BY <1>6
  <2>2. cursor \in first + 1 .. cursor
    BY <1>6, <1>7
  <2>3. ASSUME NEW p \in Active(tx'), p # o
        PROVE  \/ tx'.lots[p].token \in TokensBusy
               \/ tx'.lots[p].decision \in first + 1 .. cursor
    <3>1. p \in Active(tx) /\ tx'.lots[p] = tx.lots[p]
      BY <1>4, <1>5, <2>3
    <3> QED
      BY <1>7, <2>1, <3>1 DEF Foreseen
  <2>4. tx'.lots[o].decision = cursor
    BY <1>3, <1>4
  <2> QED
    BY <2>2, <2>3, <2>4 DEF Foreseen
<1>13. Batch("reply", engine.last, cursor, tx', TokensBusy)
  <2>1. first <= cursor
    BY <1>6, <1>7
  <2> QED
    BY <1>7, <1>12, <2>1 DEF Batch
<1>14. OneBatch(db)' /\ OneBatch(tx)'
  BY <1>2, <1>9 DEF OneLotInv, OneBatch, Active, PendingBuys, Held
<1> QED
  BY <1>2, <1>10, <1>11, <1>13, <1>14 DEF OneLotInv

\* The CLOB's answer is written: the lot stays the one for its token, or is given up.
LEMMA OneLotReply ==
    ASSUME Inv, OneLotInv, Submitted \/ Failed \/ Unheard
    PROVE  OneLotInv'
<1>1. PICK N : engine \in EngineRec(N)
  BY DEF Inv, Shape
<1>2. /\ engine.pc = "reply" /\ cursor' = cursor /\ db' = db
      /\ \E s \in {"SUBMITTED", "FAILED", "UNHEARD"} : tx' = SetStatus(tx, engine.lot, s)
  BY DEF Submitted, Failed, Unheard, At, Write
<1>3. PICK s \in {"SUBMITTED", "FAILED", "UNHEARD"} : tx' = SetStatus(tx, engine.lot, s)
  BY <1>2
<1> DEFINE row == [tx.lots[engine.lot] EXCEPT !.status = s]
<1>4. tx \in Database /\ engine.lot \in LotIds /\ engine.lot \in Active(tx)
  BY <1>2 DEF Inv, Shape, Counted, Active, PendingBuys
<1>5. row.token = tx.lots[engine.lot].token /\ row.decision = tx.lots[engine.lot].decision
  BY <1>4 DEF Database, LotRow
<1>6. tx' = SetLot(tx, engine.lot, row)
  BY <1>3 DEF SetStatus
<1> HIDE DEF row
<1>7. \A p \in LotIds : tx'.lots[p] = IF p = engine.lot THEN row ELSE tx.lots[p]
  BY <1>4, <1>6 DEF SetLot, Database
<1>8. /\ Active(tx') \subseteq Active(tx)
      /\ \A p \in Active(tx') : /\ tx'.lots[p].token = tx.lots[p].token
                                /\ tx'.lots[p].decision = tx.lots[p].decision
  BY <1>4, <1>5, <1>7 DEF Active, PendingBuys, Held
<1>9. /\ engine'.pc = "loop" /\ engine'.last = engine.last
      /\ engine'.orders = engine.orders /\ engine'.exits = engine.exits /\ engine'.held = engine.held
  BY <1>1 DEF Submitted, Failed, Unheard, EngineRec
<1>10. TokensBusy' = TokensBusy
  BY <1>2, <1>9, BusySame
<1>11. \A first, n : Foreseen(tx, TokensBusy, first, n) => Foreseen(tx', TokensBusy, first, n)
  BY <1>8 DEF Foreseen
<1>12. Batch("loop", engine.last, cursor, tx', TokensBusy)
  BY <1>2, <1>11 DEF OneLotInv, Batch
<1>13. OneBatch(db)' /\ OneBatch(tx)'
  BY <1>2, <1>8 DEF OneLotInv, OneBatch, Active, PendingBuys, Held
<1> QED
  BY <1>2, <1>9, <1>10, <1>12, <1>13 DEF OneLotInv

\* Every step.
LEMMA OneLotNext == Inv /\ OneLotInv /\ [Next]_vars => OneLotInv'
<1> SUFFICES ASSUME Inv, OneLotInv, [Next]_vars
             PROVE  OneLotInv'
  OBVIOUS
<1>1. CASE (EngineNext \/ LogDecision) /\ UNCHANGED controlVars
  <2>1. CASE CycleCommit
    <3>1. engine' = EngineIdle /\ db' = tx /\ tx' = tx
      BY <2>1 DEF CycleCommit, Commit, View, Inv, OpenTx
    <3>2. OneBatch(db)' /\ OneBatch(tx)'
      BY <3>1 DEF OneLotInv, OneBatch, Active, PendingBuys, Held
    <3> QED
      BY <3>1, <3>2, EngineIdleShape DEF OneLotInv
  <2> QED
    BY <1>1, <2>1, OneLotReads, OneLotInsert, OneLotReply DEF EngineNext
<1>2. CASE Crash
  <2>1. engine' = EngineIdle /\ db' = db /\ tx' = db
    BY <1>2 DEF Crash
  <2>2. OneBatch(db)' /\ OneBatch(tx)'
    BY <2>1 DEF OneLotInv, OneBatch, Active, PendingBuys, Held
  <2> QED
    BY <2>1, <2>2, EngineIdleShape DEF OneLotInv
<1> QED
  BY <1>1, <1>2, OthersAside, OneLotAside DEF Next

\* A token is bought again only by the batch of decisions that bought it, whatever
\* fills, is cancelled or sold while the cycle runs, and though a crash sends the
\* cursor back to the first decision (trading.py:171-198, 228-265).
THEOREM OneBatchEach == Spec => []OneBatchPerToken
<1>1. Init => OneLotInv
  <2> SUFFICES ASSUME Init
               PROVE  OneLotInv
    OBVIOUS
  <2>1. Active(db) = {} /\ Active(tx) = {}
    BY DEF Init, BotDbInit, NoLotRow, Active, PendingBuys, Held, InFlight
  <2>2. engine.pc = "idle"
    BY EngineIdleShape DEF Init, EngineInit
  <2> QED
    BY <2>1, <2>2 DEF OneLotInv, OneBatch
<1>2. OneLotInv => OneBatchPerToken
  BY DEF OneLotInv, OneBatch, OneBatchPerToken
<1>3. Inv /\ OneLotInv /\ [Next]_vars => OneLotInv'
  BY OneLotNext
<1> QED
  BY <1>1, <1>2, <1>3, Invariance, PTL DEF Spec
===============================================================================
