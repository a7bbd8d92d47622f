---------------------------- MODULE ExitDeskProofs ----------------------------
(***************************************************************************)
(* Proofs about ExitDesk, for every set of tokens, order ids, requests and *)
(* faults: its type invariant, that the ledger never runs ahead of the     *)
(* CLOB, and, in the second half, that no share vanishes.                  *)
(***************************************************************************)
EXTENDS ExitDesk, SumProofs

(***************************************************************************)
(* The inductive invariant.  TypeOK alone is not inductive: that a fill    *)
(* never exceeds an order's size needs orders of positive size, which come *)
(* from positions of positive size, read by tasks that hold the write lock *)
(* while they place them.                                                   *)
(***************************************************************************)
GoodDb(d) ==
    /\ d \in Database
    /\ \A o \in OrderIds : d.orders[o].status = "ABSENT" => d.orders[o].pm = NoPm
    /\ \A t \in Tokens : d.positions[t].status = "OPEN" => d.positions[t].size > 0

GoodClob(k) ==
    \A m \in PmIds : /\ k[m].state = "live" => k[m].matched < k[m].size
                     /\ k[m].state = "filled" => k[m].matched > 0
                     /\ k[m].state = "unknown" => k[m].matched = 0

\* the ledger d is behind the CLOB k
Behind(d, k) ==
    \A o \in OrderIds :
        d.orders[o].pm # NoPm => d.orders[o].filled <= k[d.orders[o].pm].matched

\* an exit that is inserted and not yet answered
Fresh(d, o) ==
    /\ d.orders[o].status = "PENDING_SUBMIT" /\ d.orders[o].pm = NoPm
    /\ d.orders[o].size > 0 /\ d.orders[o].filled = 0

\* e keeps the ids at the CLOB that d has.
KeepsIds(d, e) == \A o \in OrderIds : d.orders[o].pm # NoPm => e.orders[o].pm = d.orders[o].pm

DbInv ==
    /\ GoodDb(db) /\ GoodDb(tx) /\ KeepsIds(db, tx)
    /\ GoodClob(clob)
    /\ Behind(db, clob) /\ Behind(tx, clob)

PollerInv ==
    /\ \A o \in poller.todo : db.orders[o].pm # NoPm
    /\ poller.pc = "cancel" =>
           /\ writer = "poller" /\ poller.cur \in poller.todo
           /\ poller.seen <= clob[tx.orders[poller.cur].pm].matched

ManagerInv ==
    /\ manager.pc \in {"refresh", "submit"} => manager.cur \in Tokens
    /\ manager.pc = "submit" => manager.size > 0
    /\ manager.pc = "place" => /\ writer = "manager" /\ manager.row \in SellIds
                               /\ Fresh(tx, manager.row)

CloserOK(c) ==
    /\ closer[c].pc \in {"check", "submit"} => closer[c].cur \in Tokens /\ closer[c].size > 0
    /\ closer[c].pc = "place" => /\ writer = c /\ closer[c].row \in SellIds
                                 /\ Fresh(tx, closer[c].row)

CloserInv == \A c \in Closers : CloserOK(c)

Inv == TypeOK /\ DbInv /\ PollerInv /\ ManagerInv /\ CloserInv
-----------------------------------------------------------------------------
(***************************************************************************)
(* What the poller's handlers return.  Updates says that e differs from d  *)
(* in the row o and in positions, that o keeps its id at the CLOB, and that *)
(* its fill is what it was or n.                                            *)
(***************************************************************************)
Updates(d, e, o, n) ==
    /\ GoodDb(e)
    /\ \A p \in OrderIds : e.orders[p].pm = d.orders[p].pm
    /\ \A p \in OrderIds \ {o} : e.orders[p] = d.orders[p]
    /\ e.orders[o].filled \in {d.orders[o].filled, n}

\* A row of the orders table may be replaced by one of the same id at the CLOB.
LEMMA SetOrderUpdates ==
    ASSUME NEW d, GoodDb(d), NEW o \in OrderIds, NEW row \in OrderRow, NEW n,
           row.pm = d.orders[o].pm, row.status # "ABSENT",
           row.filled \in {d.orders[o].filled, n}
    PROVE  Updates(d, SetOrder(d, o, row), o, n)
  BY DEF Updates, GoodDb, SetOrder, Database

\* A position may be replaced by one that is not both OPEN and empty.
LEMMA SetPositionGood ==
    ASSUME NEW d, GoodDb(d), NEW t \in Tokens, NEW row \in PositionRow,
           row.status = "OPEN" => row.size > 0
    PROVE  /\ GoodDb(SetPosition(d, t, row))
           /\ SetPosition(d, t, row).orders = d.orders
  BY DEF GoodDb, SetPosition, Database

\* A filled BUY opens a position.
LEMMA OpenPositionRow ==
    ASSUME NEW n \in 0 .. Lot, n > 0
    PROVE  OpenPosition(n) \in PositionRow /\ OpenPosition(n).size > 0
  <1>1. Lot \in Nat  BY DbAssumption
  <1>2. NoPosition \in PositionRow  BY <1>1 DEF NoPosition, PositionRow
  <1> QED BY <1>1, <1>2 DEF OpenPosition, PositionRow

\* What a filled or a cancelled SELL leaves of a position is a row of the
\* table, CLOSED or not empty.
LEMMA PositionRows ==
    ASSUME NEW p \in PositionRow, NEW price \in Prices \cup {Entry}, NEW n \in 0 .. Lot
    PROVE  /\ ClosePosition(p, price, n) \in PositionRow
           /\ ClosePosition(p, price, n).status = "CLOSED"
           /\ ReducePosition(p, price, n) \in PositionRow
           /\ ReducePosition(p, price, n).status = "OPEN" => ReducePosition(p, price, n).size > 0
  <1>1. Lot \in Nat /\ Entry \in Int /\ price \in Int  BY DbAssumption
  <1>3. p.partial \in Int /\ p.size \in 0 .. Lot  BY DEF PositionRow
  <1> DEFINE sold     == Lesser(n, p.size)
             realized == p.partial + (price - Entry) * sold
             closed   == [p EXCEPT !.status = "CLOSED", !.pnl = realized]
             emptied  == [p EXCEPT !.partial = realized, !.status = "CLOSED", !.pnl = realized]
             reduced  == [p EXCEPT !.partial = realized, !.size = p.size - sold, !.exit = NoOrder]
  <1>4. sold \in 0 .. p.size  BY <1>1, <1>3 DEF Lesser
  <1>5. ClosePosition(p, price, n) = closed  BY DEF ClosePosition
  <1>6. ReducePosition(p, price, n) = IF p.size = sold THEN emptied ELSE reduced
    BY DEF ReducePosition
  <1> HIDE DEF sold
  <1>7. realized \in Int
    <2>1. (price - Entry) * sold \in Int  BY <1>1, <1>3, <1>4
    <2> QED BY <1>3, <2>1
  <1> HIDE DEF realized
  <1>8. closed \in PositionRow /\ closed.status = "CLOSED"  BY <1>7 DEF PositionRow
  <1>9. emptied \in PositionRow /\ emptied.status = "CLOSED"  BY <1>7 DEF PositionRow
  <1>10. p.size # sold => reduced \in PositionRow /\ reduced.size > 0
    <2>1. p.size # sold => p.size - sold \in 0 .. Lot /\ p.size - sold > 0  BY <1>1, <1>3, <1>4
    <2> QED BY <1>7, <2>1 DEF PositionRow
  <1> HIDE DEF closed, emptied, reduced
  <1> QED BY <1>5, <1>6, <1>8, <1>9, <1>10

\* Nothing written is an update too.
LEMMA NoUpdate ==
    ASSUME NEW d, GoodDb(d), NEW o \in OrderIds, NEW n
    PROVE  Updates(d, d, o, n)
  BY DEF Updates

\* A position may follow the row of its order.
LEMMA SetBothUpdates ==
    ASSUME NEW d, NEW e, NEW o \in OrderIds, NEW n, Updates(d, e, o, n),
           NEW t \in Tokens, NEW row \in PositionRow, row.status = "OPEN" => row.size > 0
    PROVE  Updates(d, SetPosition(e, t, row), o, n)
  <1>1. GoodDb(e)  BY DEF Updates
  <1>2. GoodDb(SetPosition(e, t, row)) /\ SetPosition(e, t, row).orders = e.orders
    BY <1>1, SetPositionGood
  <1> QED BY <1>2 DEF Updates

\* _mark_partial
LEMMA MarkPartialUpdates ==
    ASSUME NEW d, GoodDb(d), NEW o \in OrderIds, NEW n \in 0 .. Lot
    PROVE  Updates(d, MarkPartial(d, o, n), o, n)
  <1> DEFINE row == [d.orders[o] EXCEPT !.status = "PARTIAL", !.filled = n]
  <1>1. d.orders[o] \in OrderRow  BY DEF GoodDb, Database
  <1>2. row \in OrderRow /\ row.pm = d.orders[o].pm /\ row.status # "ABSENT" /\ row.filled = n
    BY <1>1 DEF OrderRow, NonTerminal
  <1> HIDE DEF row
  <1>3. Updates(d, SetOrder(d, o, row), o, n)  BY <1>2, SetOrderUpdates
  <1>4. MarkPartial(d, o, n) = IF n = 0 THEN d ELSE SetOrder(d, o, row)
    BY DEF MarkPartial, row
  <1> QED BY <1>3, <1>4, NoUpdate

\* _mark_filled
LEMMA MarkFilledUpdates ==
    ASSUME NEW d, GoodDb(d), NEW o \in OrderIds, NEW n \in 0 .. Lot, n > 0
    PROVE  Updates(d, MarkFilled(d, o, n), o, n)
  <1> DEFINE r   == d.orders[o]
             row == [r EXCEPT !.status = "FILLED", !.filled = n]
             e   == SetOrder(d, o, row)
  <1>1. r \in OrderRow  BY DEF GoodDb, Database
  <1>2. row \in OrderRow /\ row.pm = r.pm /\ row.status # "ABSENT" /\ row.filled = n
    BY <1>1 DEF OrderRow, Terminal
  <1> HIDE DEF row
  <1>3. Updates(d, e, o, n)  BY <1>2, SetOrderUpdates
  <1>4. MarkFilled(d, o, n) =
            IF o \in Tokens THEN SetPosition(e, o, OpenPosition(n))
            ELSE IF Linked(d, o)
                 THEN SetPosition(e, r.token, ClosePosition(d.positions[r.token], r.price, n))
                 ELSE e
    BY DEF MarkFilled, row
  <1> HIDE DEF e
  <1>5. CASE o \in Tokens
    BY <1>3, <1>4, <1>5, OpenPositionRow, SetBothUpdates
  <1>6. CASE o \notin Tokens /\ Linked(d, o)
    <2>1. r.token \in Tokens /\ r.price \in Prices \cup {Entry}
      BY <1>1, <1>6 DEF Linked, OrderRow
    <2>2. d.positions[r.token] \in PositionRow  BY <2>1 DEF GoodDb, Database
    <2>3. /\ ClosePosition(d.positions[r.token], r.price, n) \in PositionRow
          /\ ClosePosition(d.positions[r.token], r.price, n).status = "CLOSED"
      BY <2>1, <2>2, PositionRows
    <2> QED BY <1>3, <1>4, <1>6, <2>1, <2>3, SetBothUpdates
  <1> QED BY <1>3, <1>4, <1>5, <1>6

\* _mark_partial_cancelled: what it leaves of an OPEN position is not nothing.
LEMMA MarkPartialCancelledUpdates ==
    ASSUME NEW d, GoodDb(d), NEW o \in OrderIds, NEW n \in 0 .. Lot
    PROVE  Updates(d, MarkPartialCancelled(d, o, n), o, n)
  <1> DEFINE r   == d.orders[o]
             row == [r EXCEPT !.status = "CANCELLED", !.filled = IF n > 0 THEN n ELSE r.filled]
             e   == SetOrder(d, o, row)
             t   == r.token
             p   == ReducePosition(d.positions[t], r.price, n)
  <1>1. r \in OrderRow  BY DEF GoodDb, Database
  <1>2. /\ row \in OrderRow /\ row.pm = r.pm /\ row.status # "ABSENT"
        /\ row.filled \in {r.filled, n}
    BY <1>1 DEF OrderRow, Terminal
  <1> HIDE DEF row
  <1>3. Updates(d, e, o, n)  BY <1>2, SetOrderUpdates
  <1>4. MarkPartialCancelled(d, o, n) =
            IF o \in SellIds /\ n > 0 /\ Linked(d, o) THEN SetPosition(e, t, p) ELSE e
    BY DEF MarkPartialCancelled, row
  <1> HIDE DEF e
  <1>5. CASE o \in SellIds /\ n > 0 /\ Linked(d, o)
    <2>1. t \in Tokens /\ r.price \in Prices \cup {Entry}
      BY <1>1, <1>5 DEF Linked, OrderRow
    <2>2. d.positions[t] \in PositionRow  BY <2>1 DEF GoodDb, Database
    <2>3. p \in PositionRow /\ (p.status = "OPEN" => p.size > 0)
      BY <2>1, <2>2, PositionRows
    <2> QED BY <1>3, <1>4, <1>5, <2>1, <2>3, SetBothUpdates
  <1> QED BY <1>3, <1>4, <1>5

\* _mark_cancelled
LEMMA MarkCancelledUpdates ==
    ASSUME NEW d, GoodDb(d), NEW o \in OrderIds, NEW n
    PROVE  Updates(d, MarkCancelled(d, o), o, n)
  <1> DEFINE row == [d.orders[o] EXCEPT !.status = "CANCELLED"]
  <1>1. d.orders[o] \in OrderRow  BY DEF GoodDb, Database
  <1>2. /\ row \in OrderRow /\ row.pm = d.orders[o].pm /\ row.status # "ABSENT"
        /\ row.filled = d.orders[o].filled
    BY <1>1 DEF OrderRow, Terminal
  <1> HIDE DEF row
  <1>3. Updates(d, SetOrder(d, o, row), o, n)  BY <1>2, SetOrderUpdates
  <1> QED BY <1>3 DEF MarkCancelled, row

(***************************************************************************)
(* What submit_exit_order writes, and the reconciliation of a restart.     *)
(***************************************************************************)
\* The new row is fresh, and the rows that have an id at the CLOB stay.
LEMMA InsertExitGood ==
    ASSUME NEW d, GoodDb(d), NEW t \in Tokens, NEW o \in SellIds, d.orders[o].status = "ABSENT",
           NEW n \in 0 .. Lot, n > 0, NEW price \in Prices, NEW policy \in {"ride", "cancel"}
    PROVE  LET e == InsertExit(d, t, o, n, price, policy)
           IN  /\ GoodDb(e) /\ Fresh(e, o)
               /\ \A p \in OrderIds : d.orders[p].pm # NoPm => e.orders[p] = d.orders[p]
               /\ \A p \in OrderIds : e.orders[p].pm # NoPm => e.orders[p] = d.orders[p]
  <1> DEFINE row == [status |-> "PENDING_SUBMIT", token |-> t, pm |-> NoPm, size |-> n,
                     filled |-> 0, price |-> price, policy |-> policy]
             f   == SetOrder(d, o, row)
             q   == [d.positions[t] EXCEPT !.exit = o]
  <1>1. Lot \in Nat /\ o \in OrderIds  BY DbAssumption DEF OrderIds
  <1>2. /\ row \in OrderRow /\ row.status = "PENDING_SUBMIT" /\ row.pm = NoPm
        /\ row.size = n /\ row.filled = 0
    BY <1>1 DEF OrderRow, NonTerminal
  <1> HIDE DEF row
  <1>3. d.orders[o].pm = NoPm  BY <1>1 DEF GoodDb
  <1>4. Updates(d, f, o, 0)  BY <1>1, <1>2, <1>3, SetOrderUpdates
  <1>5. f.orders[o] = row /\ f.positions = d.positions
    BY <1>1 DEF GoodDb, Database, SetOrder
  <1>6. q \in PositionRow /\ (q.status = "OPEN" => q.size > 0)
    BY DEF GoodDb, Database, PositionRow
  <1> HIDE DEF q, f
  <1>7. GoodDb(SetPosition(f, t, q)) /\ SetPosition(f, t, q).orders = f.orders
    BY <1>4, <1>6, SetPositionGood DEF Updates
  <1>8. InsertExit(d, t, o, n, price, policy) = SetPosition(f, t, q)
    BY DEF InsertExit, f, q, row
  <1> QED BY <1>1, <1>2, <1>3, <1>4, <1>5, <1>7, <1>8 DEF Updates, Fresh

\* The answer to a submission: the row gets its id, or it is given up.
LEMMA AnswerGood ==
    ASSUME NEW d, GoodDb(d), NEW o \in SellIds, Fresh(d, o),
           NEW e, e = Refused(d, o) \/ \E m \in PmIds : e = Acked(d, o, m)
    PROVE  /\ GoodDb(e)
           /\ \A p \in OrderIds \ {o} : e.orders[p] = d.orders[p]
           /\ e.orders[o].pm \in PmIds \cup {NoPm} /\ e.orders[o].filled = 0
  <1> DEFINE acked(m) == [d.orders[o] EXCEPT !.status = "SUBMITTED", !.pm = m]
             refused  == [d.orders[o] EXCEPT !.status = "FAILED"]
  <1>1. o \in OrderIds  BY DEF OrderIds
  <1>2. d.orders[o] \in OrderRow  BY <1>1 DEF GoodDb, Database
  <1>3. /\ refused \in OrderRow /\ refused.status = "FAILED" /\ refused.pm = NoPm
        /\ refused.filled = 0
    BY <1>2 DEF OrderRow, Terminal, Fresh
  <1>4. ASSUME NEW m \in PmIds
        PROVE  /\ acked(m) \in OrderRow /\ acked(m).status = "SUBMITTED" /\ acked(m).pm = m
               /\ acked(m).filled = 0
    BY <1>2 DEF OrderRow, NonTerminal, Fresh
  <1>5. e = SetOrder(d, o, refused) \/ \E m \in PmIds : e = SetOrder(d, o, acked(m))
    BY DEF Acked, Refused
  <1> HIDE DEF acked, refused
  <1>6. PICK row \in OrderRow :
           /\ e = SetOrder(d, o, row) /\ row.status # "ABSENT"
           /\ row.pm \in PmIds \cup {NoPm} /\ row.filled = 0
    BY <1>3, <1>4, <1>5
  <1> QED BY <1>1, <1>6 DEF GoodDb, Database, SetOrder

\* The reconciliation touches neither ids nor fills.
LEMMA ReconcileGood ==
    ASSUME NEW d, GoodDb(d)
    PROVE  /\ GoodDb(Reconcile(d))
           /\ \A o \in OrderIds : /\ Reconcile(d).orders[o].pm = d.orders[o].pm
                                  /\ Reconcile(d).orders[o].filled = d.orders[o].filled
  <1> DEFINE row(o) == IF d.orders[o].status = "PENDING_SUBMIT"
                       THEN [d.orders[o] EXCEPT !.status = "FAILED"] ELSE d.orders[o]
  <1>1. ASSUME NEW o \in OrderIds
        PROVE  /\ row(o) \in OrderRow /\ row(o).pm = d.orders[o].pm
               /\ row(o).filled = d.orders[o].filled
               /\ row(o).status = "ABSENT" => d.orders[o].status = "ABSENT"
    BY DEF GoodDb, Database, OrderRow, Terminal
  <1>2. /\ Reconcile(d).orders = [o \in OrderIds |-> row(o)]
        /\ Reconcile(d).positions = d.positions
        /\ Reconcile(d) \in [orders : [OrderIds -> OrderRow], positions : [Tokens -> PositionRow]]
    BY <1>1 DEF Reconcile, GoodDb, Database
  <1> QED BY <1>1, <1>2 DEF GoodDb, Database

-----------------------------------------------------------------------------
(***************************************************************************)
(* The parts of Inv that a step of one component leaves to the others.     *)
(***************************************************************************)
\* No order at the CLOB ever loses a match.
Grows(k, l) ==
    /\ l \in [PmIds -> ClobOrder] /\ GoodClob(l)
    /\ \A m \in PmIds : k[m].matched <= l[m].matched

\* A ledger that is behind stays behind as the CLOB matches on.
LEMMA BehindGrows ==
    ASSUME NEW d, GoodDb(d), NEW k \in [PmIds -> ClobOrder], NEW l, Behind(d, k), Grows(k, l)
    PROVE  Behind(d, l)
  <1> SUFFICES ASSUME NEW o \in OrderIds, d.orders[o].pm # NoPm
               PROVE  d.orders[o].filled <= l[d.orders[o].pm].matched
    BY DEF Behind
  <1>1. d.orders[o] \in OrderRow  BY DEF GoodDb, Database
  <1>2. d.orders[o].pm \in PmIds /\ d.orders[o].filled \in 0 .. Lot  BY <1>1 DEF OrderRow
  <1>3. /\ k[d.orders[o].pm].matched \in 0 .. Lot /\ l[d.orders[o].pm].matched \in 0 .. Lot
        /\ Lot \in Nat
    BY <1>2, DbAssumption DEF Grows, ClobOrder
  <1> QED BY <1>2, <1>3 DEF Behind, Grows

\* A handler that records a fill the CLOB has made leaves the ledger behind.
LEMMA UpdateBehind ==
    ASSUME NEW d, NEW e, NEW o \in OrderIds, NEW n \in 0 .. Lot, NEW k,
           Updates(d, e, o, n), Behind(d, k), d.orders[o].pm # NoPm,
           n <= k[d.orders[o].pm].matched
    PROVE  Behind(e, k)
  BY DEF Updates, Behind

\* A write under the lock.
LEMMA WriteInv ==
    ASSUME Inv, NEW task \in Tasks, NEW e, Write(task, e), GoodDb(e), KeepsIds(tx, e),
           Behind(e, clob'), Grows(clob, clob')
    PROVE  /\ DbInv' /\ writer' \in Tasks \cup {NoTask}
  <1>1. tx' = e /\ db' = db /\ writer' = task  BY DEF Write
  <1>2. Behind(db, clob')  BY BehindGrows DEF Inv, DbInv, TypeOK, DbTypeOK
  <1> QED BY <1>1, <1>2 DEF Inv, DbInv, Grows, KeepsIds

\* A commit.
LEMMA CommitInv ==
    ASSUME Inv, NEW task \in Tasks, Commit(task), UNCHANGED clob
    PROVE  /\ DbInv' /\ writer' \in Tasks \cup {NoTask}
           /\ KeepsIds(db, db') /\ UNCHANGED tx
  BY DEF Inv, TypeOK, DbTypeOK, DbInv, Commit, View, KeepsIds

\* A rollback.
LEMMA RollbackInv ==
    ASSUME Inv, NEW task \in Tasks, Rollback(task), Grows(clob, clob')
    PROVE  /\ DbInv' /\ writer' \in Tasks \cup {NoTask}
           /\ tx' \in {db, tx} /\ UNCHANGED db
  <1>1. tx' \in {db, tx} /\ db' = db  BY DEF Rollback
  <1>2. Behind(db, clob') /\ Behind(tx, clob')  BY BehindGrows DEF Inv, DbInv, TypeOK, DbTypeOK
  <1>3. writer' \in Tasks \cup {NoTask}  BY DEF Rollback, Inv, TypeOK, DbTypeOK
  <1> QED BY <1>1, <1>2, <1>3 DEF Inv, DbInv, Grows, KeepsIds

\* The CLOB moves on, or does not.
LEMMA ClobInv ==
    ASSUME Inv, UNCHANGED dbVars, Grows(clob, clob')
    PROVE  DbInv' /\ writer' \in Tasks \cup {NoTask}
  <1>1. Behind(db, clob') /\ Behind(tx, clob')  BY BehindGrows DEF Inv, DbInv, TypeOK, DbTypeOK
  <1> QED BY <1>1 DEF Inv, TypeOK, DbTypeOK, DbInv, Grows, dbVars

\* A step that leaves the CLOB alone keeps what is known of its orders.
LEMMA ClobStays ==
    ASSUME Inv, UNCHANGED clob
    PROVE  Grows(clob, clob')
  <1>1. \A m \in PmIds : clob[m].matched \in 0 .. Lot /\ Lot \in Nat
    BY DbAssumption DEF Inv, TypeOK, DbTypeOK, ClobOrder
  <1> QED BY <1>1 DEF Grows, Inv, DbInv, TypeOK, DbTypeOK

\* While the poller is the writer, or nobody is, nobody is placing an order.
LEMMA ManagerStays ==
    ASSUME Inv, UNCHANGED managerVars,
           UNCHANGED <<tx, writer>> \/ writer \in {NoTask, "poller"}
    PROVE  ManagerTypeOK' /\ ManagerInv' /\ CloserInv'
  <1>1. NoTask # "manager" /\ "poller" # "manager"
        /\ \A c \in Closers : c # NoTask /\ c # "poller"
    BY DbAssumption DEF Tasks
  <1>2. ManagerTypeOK'  BY DEF Inv, TypeOK, ManagerTypeOK, managerVars
  <1>3. ManagerInv'  BY <1>1 DEF Inv, ManagerInv, managerVars
  <1>4. CloserInv'   BY <1>1 DEF Inv, CloserInv, CloserOK, managerVars
  <1> QED BY <1>2, <1>3, <1>4

\* While another task is the writer the poller awaits no cancellation.
LEMMA PollerStays ==
    ASSUME Inv, UNCHANGED pollerVars, Grows(clob, clob'),
           KeepsIds(db, db'),
           UNCHANGED <<tx, writer>> \/ writer # "poller"
    PROVE  PollerTypeOK' /\ PollerInv'
  <1>1. PollerTypeOK'  BY DEF Inv, TypeOK, PollerTypeOK, pollerVars
  <1>2. ASSUME poller.pc = "cancel"
        PROVE  /\ writer' = "poller" /\ tx' = tx /\ poller.cur \in poller.todo
               /\ poller.seen <= clob'[tx.orders[poller.cur].pm].matched
    <2>1. /\ writer = "poller" /\ poller.cur \in poller.todo
          /\ poller.seen <= clob[tx.orders[poller.cur].pm].matched
          /\ db.orders[poller.cur].pm # NoPm
      BY <1>2 DEF Inv, PollerInv
    <2>2. poller.cur \in OrderIds /\ poller.seen \in 0 .. Lot /\ Lot \in Nat
      BY <2>1, DbAssumption DEF Inv, TypeOK, PollerTypeOK, PollerType
    <2>3. tx.orders[poller.cur].pm \in PmIds
      BY <2>1, <2>2 DEF Inv, DbInv, KeepsIds, GoodDb, Database, OrderRow
    <2>4. /\ clob[tx.orders[poller.cur].pm].matched \in 0 .. Lot
          /\ clob'[tx.orders[poller.cur].pm].matched \in 0 .. Lot
      BY <2>3 DEF Inv, TypeOK, DbTypeOK, Grows, ClobOrder
    <2> QED BY <2>1, <2>2, <2>3, <2>4 DEF Grows
  <1>3. \A o \in poller.todo : db'.orders[o].pm # NoPm
    BY DEF Inv, PollerInv, KeepsIds, TypeOK, PollerTypeOK, PollerType
  <1> QED BY <1>1, <1>2, <1>3 DEF PollerInv, pollerVars

-----------------------------------------------------------------------------
(***************************************************************************)
(* The order poller.                                                       *)
(***************************************************************************)
\* The orders a poll works through have ids, and rows of the right type.
LEMMA TodoNamed ==
    ASSUME Inv, NEW o \in poller.todo
    PROVE  /\ o \in OrderIds
           /\ db.orders[o].pm \in PmIds /\ tx.orders[o].pm = db.orders[o].pm
           /\ tx.orders[o] \in OrderRow
           /\ AtClob(o) \in ClobOrder /\ AtClob(o).matched \in 0 .. Lot
  <1>1. o \in OrderIds /\ db.orders[o].pm # NoPm
    BY DEF Inv, PollerInv, TypeOK, PollerTypeOK, PollerType
  <1>2. db.orders[o] \in OrderRow /\ tx.orders[o] \in OrderRow
    BY <1>1 DEF Inv, DbInv, GoodDb, Database
  <1>3. db.orders[o].pm \in PmIds /\ tx.orders[o].pm = db.orders[o].pm
    BY <1>1, <1>2 DEF Inv, DbInv, KeepsIds, OrderRow
  <1>4. AtClob(o) \in ClobOrder
    BY <1>3 DEF AtClob, Inv, TypeOK, DbTypeOK
  <1> QED BY <1>1, <1>2, <1>3, <1>4 DEF ClobOrder

\* A handler that records what the CLOB has matched.
LEMMA PollerWrites ==
    ASSUME Inv, NEW o \in poller.todo, NEW n \in 0 .. Lot, NEW e, Updates(tx, e, o, n),
           n <= clob'[tx.orders[o].pm].matched, Grows(clob, clob'),
           Write("poller", e), UNCHANGED managerVars
    PROVE  /\ DbInv' /\ writer' = "poller" /\ db' = db /\ tx' = e
           /\ tx'.orders[o].pm = tx.orders[o].pm
           /\ ManagerTypeOK' /\ ManagerInv' /\ CloserInv'
  <1>1. o \in OrderIds /\ tx.orders[o].pm # NoPm
    BY TodoNamed, DbAssumption
  <1>2. Behind(tx, clob')
    BY BehindGrows DEF Inv, DbInv, TypeOK, DbTypeOK
  <1>3. Behind(e, clob')  BY <1>1, <1>2, UpdateBehind
  <1>4. KeepsIds(tx, e) /\ e.orders[o].pm = tx.orders[o].pm /\ GoodDb(e)
    BY <1>1 DEF Updates, KeepsIds
  <1>5. "poller" \in Tasks  BY DEF Tasks
  <1>6. DbInv'  BY <1>3, <1>4, <1>5, WriteInv
  <1>7. writer \in {NoTask, "poller"} /\ writer' = "poller" /\ db' = db /\ tx' = e
    BY DEF Write
  <1>8. ManagerTypeOK' /\ ManagerInv' /\ CloserInv'  BY <1>7, ManagerStays
  <1> QED BY <1>4, <1>6, <1>7, <1>8

\* When an order is done the poll goes on with the others.
LEMMA DoneInv ==
    ASSUME Inv, NEW o \in poller.todo, db' = db, UNCHANGED stale,
           \/ poller.pc # "cancel" /\ poller' = Done(o)
           \/ poller' = [Done(o) EXCEPT !.pc = "poll"]
    PROVE  PollerTypeOK' /\ PollerInv'
  <1>1. /\ poller' \in PollerType /\ poller'.pc # "cancel"
        /\ poller'.todo = poller.todo \ {o}
    <2>1. Lot \in Nat  BY DbAssumption
    <2>2. PollerIdle \in PollerType  BY <2>1 DEF PollerIdle, PollerType
    <2>3. poller.todo \ {o} \in SUBSET OrderIds /\ poller.pc \in {"idle", "poll", "cancel", "sweep"}
      BY DEF Inv, TypeOK, PollerTypeOK, PollerType
    <2>4. Done(o) \in PollerType /\ Done(o).pc = poller.pc /\ Done(o).todo = poller.todo \ {o}
      BY <2>2, <2>3 DEF Done, PollerType
    <2> QED BY <2>4 DEF PollerType
  <1>2. PollerTypeOK'  BY <1>1 DEF PollerTypeOK, Inv, TypeOK
  <1>3. PollerInv'  BY <1>1 DEF PollerInv, Inv
  <1> QED BY <1>2, <1>3

\* Time passing touches no order.
LEMMA AgeInv ==
    ASSUME Inv, NEW o \in OrderIds, Age(o), UNCHANGED managerVars
    PROVE  Inv'
  <1>1. UNCHANGED <<dbVars, clob, vault, poller, phase, managerVars>> /\ stale' = stale \cup {o}
    BY DEF Age
  <1>2. DbInv' /\ writer' \in Tasks \cup {NoTask}  BY <1>1, ClobStays, ClobInv
  <1>3. ManagerTypeOK' /\ ManagerInv' /\ CloserInv'  BY <1>1, ManagerStays DEF dbVars
  <1>4. PollerTypeOK' /\ PollerInv'
    BY <1>1 DEF Inv, TypeOK, PollerTypeOK, PollerInv, dbVars
  <1> QED BY <1>1, <1>2, <1>3, <1>4 DEF Inv, TypeOK, DbTypeOK, DbInv, GoodDb, dbVars

\* The orders a poll starts with have committed ids at the CLOB.
LEMMA PollStartInv ==
    ASSUME Inv, PollStart, UNCHANGED managerVars
    PROVE  Inv'
  <1>1. UNCHANGED <<dbVars, clob, vault, stale, phase, managerVars>>
    BY DEF PollStart
  <1>2. DbInv' /\ writer' \in Tasks \cup {NoTask}  BY <1>1, ClobStays, ClobInv
  <1>3. ManagerTypeOK' /\ ManagerInv' /\ CloserInv'  BY <1>1, ManagerStays DEF dbVars
  <1>4. PollerTypeOK' /\ PollerInv'
    <2>1. Lot \in Nat  BY DbAssumption
    <2>2. PollerIdle \in PollerType  BY <2>1 DEF PollerIdle, PollerType
    <2>3. poller' \in PollerType /\ poller'.pc = "poll" /\ poller'.todo \subseteq LiveRows(db)
      BY ZenonT(60), <2>2 DEF PollStart, OldestOf, PollerType, LiveRows
    <2> QED BY <1>1, <2>3 DEF Inv, TypeOK, PollerTypeOK, PollerInv, LiveRows, dbVars
  <1> QED BY <1>1, <1>2, <1>3, <1>4 DEF Inv, TypeOK, DbTypeOK, DbInv, GoodDb, dbVars

\* A missing answer records no fill, and a given-up order keeps the one it had.
LEMMA PollNoEchoInv ==
    ASSUME Inv, NEW o \in OrderIds, PollNoEcho(o), UNCHANGED managerVars
    PROVE  Inv'
  <1> DEFINE e == IF CancelsWhenStale(o) THEN MarkCancelled(tx, o) ELSE tx
  <1>1. /\ Polls(o) /\ o \in poller.todo /\ poller.pc = "poll"
        /\ Write("poller", e) /\ poller' = Done(o)
        /\ UNCHANGED <<clob, vault, stale, phase>>
    BY DEF PollNoEcho, Polls
  <1>2. Grows(clob, clob')  BY <1>1, ClobStays
  <1>3. Updates(tx, e, o, 0)  BY MarkCancelledUpdates, NoUpdate DEF Inv, DbInv
  <1> HIDE DEF e
  <1>4. 0 \in 0 .. Lot /\ 0 <= clob'[tx.orders[o].pm].matched
    BY <1>1, TodoNamed, DbAssumption DEF AtClob
  <1>5. /\ DbInv' /\ writer' = "poller" /\ db' = db
        /\ ManagerTypeOK' /\ ManagerInv' /\ CloserInv'
    BY <1>1, <1>2, <1>3, <1>4, PollerWrites
  <1>6. PollerTypeOK' /\ PollerInv'  BY <1>1, <1>5, DoneInv
  <1> QED BY <1>1, <1>5, <1>6 DEF Inv, TypeOK, DbTypeOK, DbInv, GoodDb, Tasks

\* A canceled order is recorded with what the CLOB matched of it.
LEMMA PollCanceledInv ==
    ASSUME Inv, NEW o \in OrderIds, PollCanceled(o), UNCHANGED managerVars
    PROVE  Inv'
  <1> DEFINE n == AtClob(o).matched
             e == MarkPartialCancelled(tx, o, n)
  <1>1. /\ o \in poller.todo /\ poller.pc = "poll"
        /\ Write("poller", e) /\ poller' = Done(o)
        /\ UNCHANGED <<clob, vault, stale, phase>>
    BY DEF PollCanceled, Polls
  <1>2. Grows(clob, clob')  BY <1>1, ClobStays
  <1>3. n \in 0 .. Lot /\ n <= clob'[tx.orders[o].pm].matched
    BY <1>1, TodoNamed, DbAssumption DEF AtClob
  <1> HIDE DEF n
  <1>4. Updates(tx, e, o, n)  BY <1>3, MarkPartialCancelledUpdates DEF Inv, DbInv
  <1> HIDE DEF e
  <1>5. /\ DbInv' /\ writer' = "poller" /\ db' = db
        /\ ManagerTypeOK' /\ ManagerInv' /\ CloserInv'
    BY <1>1, <1>2, <1>3, <1>4, PollerWrites
  <1>6. PollerTypeOK' /\ PollerInv'  BY <1>1, <1>5, DoneInv
  <1> QED BY <1>1, <1>5, <1>6 DEF Inv, TypeOK, DbTypeOK, DbInv, GoodDb, Tasks

\* A filled order is recorded with what the CLOB matched of it, and its position is opened or closed.
LEMMA PollFilledInv ==
    ASSUME Inv, NEW o \in OrderIds, PollFilled(o), UNCHANGED managerVars
    PROVE  Inv'
  <1> DEFINE n == AtClob(o).matched
             e == MarkFilled(tx, o, n)
  <1>1. /\ o \in poller.todo /\ poller.pc = "poll" /\ AtClob(o).state = "filled"
        /\ Write("poller", e) /\ poller' = Done(o)
        /\ UNCHANGED <<clob, vault, stale, phase>>
    BY DEF PollFilled, Polls
  <1>2. Grows(clob, clob')  BY <1>1, ClobStays
  <1>3. n \in 0 .. Lot /\ n <= clob'[tx.orders[o].pm].matched /\ n > 0
    BY <1>1, TodoNamed, DbAssumption DEF AtClob, Inv, DbInv, GoodClob
  <1> HIDE DEF n
  <1>4. Updates(tx, e, o, n)  BY <1>3, MarkFilledUpdates DEF Inv, DbInv
  <1> HIDE DEF e
  <1>5. /\ DbInv' /\ writer' = "poller" /\ db' = db
        /\ ManagerTypeOK' /\ ManagerInv' /\ CloserInv'
    BY <1>1, <1>2, <1>3, <1>4, PollerWrites
  <1>6. PollerTypeOK' /\ PollerInv'  BY <1>1, <1>5, DoneInv
  <1> QED BY <1>1, <1>5, <1>6 DEF Inv, TypeOK, DbTypeOK, DbInv, GoodDb, Tasks

\* Progress is recorded as the CLOB reports it, and noted for a cancel that may follow.
LEMMA PollLiveInv ==
    ASSUME Inv, NEW o \in OrderIds, PollLive(o), UNCHANGED managerVars
    PROVE  Inv'
  <1> DEFINE n == AtClob(o).matched
             e == MarkPartial(tx, o, n)
  <1>1. /\ o \in poller.todo /\ poller.pc = "poll"
        /\ Write("poller", e)
        /\ \/ poller' = Done(o)
           \/ poller' = [poller EXCEPT !.pc = "cancel", !.cur = o, !.seen = n]
        /\ UNCHANGED <<clob, vault, stale, phase>>
    BY DEF PollLive, Polls
  <1>2. Grows(clob, clob')  BY <1>1, ClobStays
  <1>3. n \in 0 .. Lot /\ n <= clob'[tx.orders[o].pm].matched
    BY <1>1, TodoNamed, DbAssumption DEF AtClob
  <1> HIDE DEF n
  <1>4. Updates(tx, e, o, n)  BY <1>3, MarkPartialUpdates DEF Inv, DbInv
  <1> HIDE DEF e
  <1>5. /\ DbInv' /\ writer' = "poller" /\ db' = db /\ tx'.orders[o].pm = tx.orders[o].pm
        /\ ManagerTypeOK' /\ ManagerInv' /\ CloserInv'
    BY <1>1, <1>2, <1>3, <1>4, PollerWrites
  <1>6. CASE poller' = Done(o)
    <2>1. PollerTypeOK' /\ PollerInv'  BY <1>1, <1>5, <1>6, DoneInv
    <2> QED BY <1>1, <1>5, <2>1 DEF Inv, TypeOK, DbTypeOK, DbInv, GoodDb, Tasks
  <1>7. CASE poller' = [poller EXCEPT !.pc = "cancel", !.cur = o, !.seen = n]
    <2>1. /\ poller' \in PollerType /\ poller'.todo = poller.todo
          /\ poller'.pc = "cancel" /\ poller'.cur = o /\ poller'.seen = n
      BY <1>3, <1>7 DEF Inv, TypeOK, PollerTypeOK, PollerType
    <2>2. PollerTypeOK'  BY <1>1, <2>1 DEF Inv, TypeOK, PollerTypeOK
    <2>3. PollerInv'  BY <1>1, <1>3, <1>5, <2>1 DEF Inv, PollerInv
    <2> QED BY <1>1, <1>5, <2>2, <2>3 DEF Inv, TypeOK, DbTypeOK, DbInv, GoodDb, Tasks
  <1> QED BY <1>1, <1>6, <1>7

\* A cancellation at the CLOB unmatches nothing.
LEMMA CancelingGrows ==
    ASSUME Inv, NEW o \in poller.todo, Canceling(o)
    PROVE  Grows(clob, clob') /\ clob'[tx.orders[o].pm].matched = clob[tx.orders[o].pm].matched
  <1>1. tx.orders[o].pm \in PmIds /\ clob \in [PmIds -> ClobOrder]
    BY TodoNamed DEF Inv, TypeOK, DbTypeOK
  <1> DEFINE k == [clob[tx.orders[o].pm] EXCEPT !.state = "canceled"]
  <1>2. clob' = [clob EXCEPT ![tx.orders[o].pm] = k]  BY DEF Canceling
  <1>3. k \in ClobOrder /\ k.state = "canceled" /\ k.matched = clob[tx.orders[o].pm].matched
    BY <1>1 DEF ClobOrder
  <1> HIDE DEF k
  <1>4. \A m \in PmIds : clob[m].matched \in 0 .. Lot /\ Lot \in Nat
    BY <1>1, DbAssumption DEF ClobOrder
  <1> QED BY <1>1, <1>2, <1>3, <1>4 DEF Grows, GoodClob, Inv, DbInv

\* A cancel records the fill of the answer before it, which the CLOB can only have exceeded.
LEMMA CancelAckedInv ==
    ASSUME Inv, CancelAcked, UNCHANGED managerVars
    PROVE  Inv'
  <1> DEFINE o == poller.cur
             n == poller.seen
             e == MarkPartialCancelled(tx, o, n)
  <1>1. /\ poller.pc = "cancel" /\ Canceling(o) /\ Write("poller", e)
        /\ poller' = [Done(o) EXCEPT !.pc = "poll"]
        /\ UNCHANGED <<vault, stale, phase>>
    BY DEF CancelAcked
  <1>2. o \in poller.todo /\ n <= clob[tx.orders[o].pm].matched
    BY <1>1 DEF Inv, PollerInv
  <1>3. n \in 0 .. Lot /\ o \in OrderIds
    BY <1>2 DEF Inv, TypeOK, PollerTypeOK, PollerType
  <1> HIDE DEF o, n
  <1>4. Grows(clob, clob') /\ n <= clob'[tx.orders[o].pm].matched
    BY <1>1, <1>2, CancelingGrows
  <1>5. Updates(tx, e, o, n)  BY <1>3, MarkPartialCancelledUpdates DEF Inv, DbInv
  <1> HIDE DEF e
  <1>6. /\ DbInv' /\ writer' = "poller" /\ db' = db
        /\ ManagerTypeOK' /\ ManagerInv' /\ CloserInv'
    BY <1>1, <1>2, <1>3, <1>4, <1>5, PollerWrites
  <1>7. PollerTypeOK' /\ PollerInv'  BY <1>1, <1>2, <1>6, DoneInv
  <1> QED BY <1>1, <1>4, <1>6, <1>7 DEF Inv, TypeOK, DbTypeOK, DbInv, GoodDb, Tasks, Grows

\* A cancel that is not confirmed writes nothing.
LEMMA CancelNotAckedInv ==
    ASSUME Inv, CancelNotAcked, UNCHANGED managerVars
    PROVE  Inv'
  <1> DEFINE o == poller.cur
  <1>1. /\ poller.pc = "cancel" /\ (Canceling(o) \/ UNCHANGED clob)
        /\ poller' = [Done(o) EXCEPT !.pc = "poll"]
        /\ UNCHANGED <<dbVars, vault, stale, phase>>
    BY DEF CancelNotAcked
  <1>2. o \in poller.todo  BY <1>1 DEF Inv, PollerInv
  <1> HIDE DEF o
  <1>3. Grows(clob, clob')  BY <1>1, <1>2, CancelingGrows, ClobStays
  <1>4. DbInv' /\ writer' \in Tasks \cup {NoTask}  BY <1>1, <1>3, ClobInv
  <1>5. ManagerTypeOK' /\ ManagerInv' /\ CloserInv'  BY <1>1, ManagerStays DEF dbVars
  <1>6. PollerTypeOK' /\ PollerInv'  BY <1>1, <1>2, DoneInv DEF dbVars
  <1> QED BY <1>1, <1>3, <1>4, <1>5, <1>6
          DEF Inv, TypeOK, DbTypeOK, DbInv, GoodDb, Grows

\* A poller that has ended its poll holds nothing.
LEMMA IdleInv ==
    ASSUME Inv, UNCHANGED stale,
           \/ poller' = PollerIdle
           \/ poller' = [PollerIdle EXCEPT !.pc = "sweep", !.todo = LiveRows(db)] /\ db' = db
    PROVE  PollerTypeOK' /\ PollerInv'
  <1>1. Lot \in Nat  BY DbAssumption
  <1>2. PollerIdle \in PollerType /\ PollerIdle.pc = "idle" /\ PollerIdle.todo = {}
    BY <1>1 DEF PollerIdle, PollerType
  <1>3. LiveRows(db) \in SUBSET OrderIds /\ \A o \in LiveRows(db) : db.orders[o].pm # NoPm
    BY DEF LiveRows
  <1>4. /\ poller' \in PollerType /\ poller'.pc # "cancel"
        /\ \A o \in poller'.todo : db'.orders[o].pm # NoPm
    BY <1>2, <1>3 DEF PollerType
  <1> QED BY <1>4 DEF Inv, TypeOK, PollerTypeOK, PollerInv

\* The commit of a poll makes its transaction the database.
LEMMA PollCommitInv ==
    ASSUME Inv, PollCommit, UNCHANGED managerVars
    PROVE  Inv'
  <1>1. /\ Commit("poller") /\ poller' = PollerIdle /\ UNCHANGED <<clob, vault, stale, phase>>
    BY DEF PollCommit
  <1>2. DbInv' /\ writer' \in Tasks \cup {NoTask} /\ UNCHANGED tx
    BY <1>1, CommitInv DEF Tasks
  <1>3. ManagerTypeOK' /\ ManagerInv' /\ CloserInv'
    <2>1. UNCHANGED <<tx, writer>> \/ writer \in {NoTask, "poller"}  BY <1>1 DEF Commit
    <2> QED BY <2>1, ManagerStays
  <1>4. PollerTypeOK' /\ PollerInv'  BY <1>1, IdleInv
  <1> QED BY <1>1, <1>2, <1>3, <1>4 DEF Inv, TypeOK, DbTypeOK, DbInv, GoodDb

\* A poll that fails leaves the database as it was.
LEMMA PollAbortInv ==
    ASSUME Inv, PollAbort, UNCHANGED managerVars
    PROVE  Inv'
  <1>1. /\ Rollback("poller") /\ poller' = PollerIdle /\ UNCHANGED <<clob, vault, stale, phase>>
    BY DEF PollAbort
  <1>2. DbInv' /\ writer' \in Tasks \cup {NoTask}
    BY <1>1, RollbackInv, ClobStays DEF Tasks
  <1>3. ManagerTypeOK' /\ ManagerInv' /\ CloserInv'
    <2>1. UNCHANGED <<tx, writer>> \/ writer \in {NoTask, "poller"}  BY <1>1 DEF Rollback
    <2> QED BY <2>1, ManagerStays
  <1>4. PollerTypeOK' /\ PollerInv'  BY <1>1, IdleInv
  <1> QED BY <1>1, <1>2, <1>3, <1>4 DEF Inv, TypeOK, DbTypeOK, DbInv, GoodDb

\* The poller is cut off, and the sweep starts from what is committed.
LEMMA ShutdownStartInv ==
    ASSUME Inv, ShutdownStart, UNCHANGED managerVars
    PROVE  Inv'
  <1>1. /\ Rollback("poller")
        /\ UNCHANGED clob \/ (poller.pc = "cancel" /\ Canceling(poller.cur))
        /\ \/ poller' = PollerIdle
           \/ poller' = [PollerIdle EXCEPT !.pc = "sweep", !.todo = LiveRows(db)]
        /\ phase' \in {"stopping", "stopped"} /\ UNCHANGED <<vault, stale>>
    BY DEF ShutdownStart
  <1>2. Grows(clob, clob')  BY <1>1, ClobStays, CancelingGrows DEF Inv, PollerInv
  <1>3. DbInv' /\ writer' \in Tasks \cup {NoTask} /\ UNCHANGED db
    BY <1>1, <1>2, RollbackInv DEF Tasks
  <1>4. ManagerTypeOK' /\ ManagerInv' /\ CloserInv'
    <2>1. UNCHANGED <<tx, writer>> \/ writer \in {NoTask, "poller"}  BY <1>1 DEF Rollback
    <2> QED BY <2>1, ManagerStays
  <1>5. PollerTypeOK' /\ PollerInv'  BY <1>1, <1>3, IdleInv
  <1> QED BY <1>1, <1>2, <1>3, <1>4, <1>5 DEF Inv, TypeOK, DbTypeOK, DbInv, GoodDb, Grows

\* The sweep records the fill that was known before.
LEMMA SweepAckedInv ==
    ASSUME Inv, NEW o \in OrderIds, SweepAcked(o), UNCHANGED managerVars
    PROVE  Inv'
  <1> DEFINE n == tx.orders[o].filled
             e == MarkPartialCancelled(tx, o, n)
  <1>1. /\ poller.pc = "sweep" /\ o \in poller.todo /\ Canceling(o) /\ Write("poller", e)
        /\ poller' = Done(o) /\ UNCHANGED <<vault, stale, phase>>
    BY DEF SweepAcked
  <1>2. n \in 0 .. Lot /\ n <= clob[tx.orders[o].pm].matched
    BY <1>1, TodoNamed, DbAssumption DEF OrderRow, Inv, DbInv, Behind
  <1> HIDE DEF n
  <1>3. Grows(clob, clob') /\ n <= clob'[tx.orders[o].pm].matched
    BY <1>1, <1>2, CancelingGrows
  <1>4. Updates(tx, e, o, n)  BY <1>2, MarkPartialCancelledUpdates DEF Inv, DbInv
  <1> HIDE DEF e
  <1>5. /\ DbInv' /\ writer' = "poller" /\ db' = db
        /\ ManagerTypeOK' /\ ManagerInv' /\ CloserInv'
    BY <1>1, <1>2, <1>3, <1>4, PollerWrites
  <1>6. PollerTypeOK' /\ PollerInv'  BY <1>1, <1>5, DoneInv
  <1> QED BY <1>1, <1>3, <1>5, <1>6 DEF Inv, TypeOK, DbTypeOK, DbInv, GoodDb, Tasks, Grows

\* A cancel of the sweep that is not confirmed writes nothing.
LEMMA SweepNotAckedInv ==
    ASSUME Inv, NEW o \in OrderIds, SweepNotAcked(o), UNCHANGED managerVars
    PROVE  Inv'
  <1>1. /\ poller.pc = "sweep" /\ o \in poller.todo /\ (Canceling(o) \/ UNCHANGED clob)
        /\ poller' = Done(o) /\ UNCHANGED <<dbVars, vault, stale, phase>>
    BY DEF SweepNotAcked
  <1>2. Grows(clob, clob')  BY <1>1, CancelingGrows, ClobStays
  <1>3. DbInv' /\ writer' \in Tasks \cup {NoTask}  BY <1>1, <1>2, ClobInv
  <1>4. ManagerTypeOK' /\ ManagerInv' /\ CloserInv'  BY <1>1, ManagerStays DEF dbVars
  <1>5. PollerTypeOK' /\ PollerInv'  BY <1>1, DoneInv DEF dbVars
  <1> QED BY <1>1, <1>2, <1>3, <1>4, <1>5
          DEF Inv, TypeOK, DbTypeOK, DbInv, GoodDb, Grows

\* The sweep commits, or is rolled back.
LEMMA SweepEndInv ==
    ASSUME Inv, SweepEnd, UNCHANGED managerVars
    PROVE  Inv'
  <1>1. /\ Commit("poller") \/ Rollback("poller")
        /\ poller' = PollerIdle /\ phase' = "stopped" /\ UNCHANGED <<clob, vault, stale>>
    BY DEF SweepEnd
  <1>2. DbInv' /\ writer' \in Tasks \cup {NoTask}
    BY <1>1, CommitInv, RollbackInv, ClobStays DEF Tasks
  <1>3. ManagerTypeOK' /\ ManagerInv' /\ CloserInv'
    <2>1. UNCHANGED <<tx, writer>> \/ writer \in {NoTask, "poller"}
      BY <1>1 DEF Commit, Rollback
    <2> QED BY <2>1, ManagerStays
  <1>4. PollerTypeOK' /\ PollerInv'  BY <1>1, IdleInv
  <1> QED BY <1>1, <1>2, <1>3, <1>4 DEF Inv, TypeOK, DbTypeOK, DbInv, GoodDb

\* Every step of the poller keeps the invariant.
LEMMA PollerNextInv ==
    ASSUME Inv, PollerNext, UNCHANGED managerVars
    PROVE  Inv'
  <1>1. CASE PollerCycle
    BY <1>1, PollStartInv, PollCommitInv, PollAbortInv, CancelAckedInv, CancelNotAckedInv,
       PollNoEchoInv, PollCanceledInv, PollFilledInv, PollLiveInv DEF PollerCycle
  <1>2. CASE PollerShutdown
    BY <1>2, ShutdownStartInv, SweepEndInv, SweepAckedInv, SweepNotAckedInv DEF PollerShutdown
  <1>3. CASE \E o \in OrderIds : Age(o)  BY <1>3, AgeInv
  <1> QED BY <1>1, <1>2, <1>3 DEF PollerNext

-----------------------------------------------------------------------------
(***************************************************************************)
(* The position manager and the close requests.                            *)
(***************************************************************************)
\* What the other tasks rely on while one of them writes.
LEMMA OthersStay ==
    ASSUME Inv, NEW task \in Tasks, writer \in {NoTask, task}
    PROVE  /\ task # "manager" => (UNCHANGED manager => ManagerInv')
           /\ \A c \in Closers : c # task /\ closer'[c] = closer[c] => CloserOK(c)'
  <1>1. NoTask # "manager" /\ \A c \in Closers : c # NoTask  BY DbAssumption DEF Tasks
  <1>2. task # "manager" => (UNCHANGED manager => ManagerInv')  BY <1>1 DEF Inv, ManagerInv
  <1>3. \A c \in Closers : c # task /\ closer'[c] = closer[c] => CloserOK(c)'
    BY <1>1 DEF Inv, CloserInv, CloserOK
  <1> QED BY <1>2, <1>3

\* submit_exit_order up to its flush.
LEMMA SubmitInv ==
    ASSUME Inv, NEW task \in Tasks, task # "poller", NEW t \in Tokens, NEW o \in SellIds,
           NEW n \in 0 .. Lot, n > 0, NEW policy \in {"ride", "cancel"},
           SubmitExit(task, t, o, n, policy), UNCHANGED <<clob, pollerVars>>
    PROVE  /\ DbInv' /\ PollerTypeOK' /\ PollerInv'
           /\ writer' = task /\ writer \in {NoTask, task} /\ Fresh(tx', o)
  <1>1. PICK price \in Prices : Write(task, InsertExit(tx, t, o, n, price, policy))
    BY DEF SubmitExit, IsNextRow
  <1> DEFINE e == InsertExit(tx, t, o, n, price, policy)
  <1>2. /\ GoodDb(e) /\ Fresh(e, o)
        /\ \A p \in OrderIds : tx.orders[p].pm # NoPm => e.orders[p] = tx.orders[p]
        /\ \A p \in OrderIds : e.orders[p].pm # NoPm => e.orders[p] = tx.orders[p]
    BY InsertExitGood DEF SubmitExit, IsNextRow, Inv, DbInv
  <1>3. Write(task, e)  BY <1>1
  <1> HIDE DEF e
  <1>4. Grows(clob, clob')  BY ClobStays
  <1>5. KeepsIds(tx, e) /\ Behind(e, clob')  BY <1>2 DEF KeepsIds, Behind, Inv, DbInv
  <1>6. DbInv' /\ writer' = task /\ writer \in {NoTask, task} /\ tx' = e /\ db' = db
    BY <1>2, <1>3, <1>4, <1>5, WriteInv DEF Write
  <1>7. PollerTypeOK' /\ PollerInv'
    <2>1. KeepsIds(db, db')  BY <1>6 DEF KeepsIds
    <2>2. writer # "poller"  BY <1>6, DbAssumption DEF Tasks
    <2> QED BY <1>4, <2>1, <2>2, PollerStays
  <1> QED BY <1>2, <1>6, <1>7

\* An order is listed with what its row asks, whether anybody hears of it or not.
LEMMA ListedOrders ==
    ASSUME NEW t \in Tokens \cup {NoToken}, NEW n \in 0 .. Lot, NEW k \in {Listed(t, n), Unheard(t, n)}
    PROVE  k \in ClobOrder /\ k.state = "live" /\ k.matched = 0 /\ k.size = n /\ k.token = t
  <1>1. Lot \in Nat  BY DbAssumption
  <1>2. Listed(t, n) \in ClobOrder  BY <1>1 DEF Listed, ClobOrder
  <1>3. CASE k = Listed(t, n)  BY <1>2, <1>3 DEF Listed
  <1>4. CASE k = Unheard(t, n)  BY <1>2, <1>4 DEF Unheard, Listed, ClobOrder
  <1> QED BY <1>3, <1>4

\* submit_exit_order from the CLOB's answer on.
LEMMA PlaceInv ==
    ASSUME Inv, NEW task \in Tasks, task # "poller", NEW o \in SellIds, writer = task,
           Fresh(tx, o), PlaceOrder(task, o), UNCHANGED pollerVars
    PROVE  /\ DbInv' /\ PollerTypeOK' /\ PollerInv'
           /\ writer' = task /\ Grows(clob, clob')
  <1>1. o \in OrderIds /\ tx.orders[o] \in OrderRow /\ GoodDb(tx) /\ Lot \in Nat
    BY DbAssumption DEF OrderIds, Inv, DbInv, GoodDb, Database
  <1>2. PICK e : /\ e = Refused(tx, o) \/ \E m \in PmIds : e = Acked(tx, o, m)
                 /\ Write(task, e) /\ Grows(clob, clob')
    <2>1. CASE Write(task, Refused(tx, o)) /\ UNCHANGED clob
      BY <2>1, ClobStays
    <2>2. CASE \E m \in SellPms :
                  \E k \in {Listed(tx.orders[o].token, tx.orders[o].size),
                            Unheard(tx.orders[o].token, tx.orders[o].size)} :
                     /\ clob[m].state = "unknown"
                     /\ clob' = [clob EXCEPT ![m] = k]
                     /\ Write(task, Acked(tx, o, m)) \/ Write(task, Refused(tx, o))
      <3>1. PICK m \in SellPms,
                 k \in {Listed(tx.orders[o].token, tx.orders[o].size),
                        Unheard(tx.orders[o].token, tx.orders[o].size)} :
                  /\ clob[m].state = "unknown"
                  /\ clob' = [clob EXCEPT ![m] = k]
                  /\ Write(task, Acked(tx, o, m)) \/ Write(task, Refused(tx, o))
        BY <2>2
      <3>2. m \in PmIds  BY DEF PmIds
      <3>3. k \in ClobOrder /\ k.state = "live" /\ k.matched = 0 /\ k.size > 0
        BY <1>1, ListedOrders DEF OrderRow, Fresh
      <3>4. clob' = [clob EXCEPT ![m] = k]  BY <3>1
      <3>5. /\ clob \in [PmIds -> ClobOrder] /\ clob[m].matched = 0
            /\ \A l \in PmIds : clob[l].matched \in 0 .. Lot
        BY <3>1, <3>2 DEF Inv, TypeOK, DbTypeOK, DbInv, GoodClob, ClobOrder
      <3>6. Grows(clob, clob')
        BY <1>1, <3>2, <3>3, <3>4, <3>5 DEF Grows, GoodClob, Inv, DbInv
      <3> QED BY <3>1, <3>2, <3>6
    <2> QED BY <2>1, <2>2 DEF PlaceOrder
  <1>3. /\ GoodDb(e)
        /\ \A p \in OrderIds \ {o} : e.orders[p] = tx.orders[p]
        /\ e.orders[o].pm \in PmIds \cup {NoPm} /\ e.orders[o].filled = 0
    BY <1>1, <1>2, AnswerGood
  <1>4. KeepsIds(tx, e)  BY <1>1, <1>3 DEF KeepsIds, Fresh
  <1>5. Behind(tx, clob')
    BY <1>2, BehindGrows DEF Inv, DbInv, TypeOK, DbTypeOK
  <1>6. Behind(e, clob')
    <2>1. \A l \in PmIds : clob'[l].matched \in 0 .. Lot  BY <1>2 DEF Grows, ClobOrder
    <2> QED BY <1>1, <1>3, <1>5, <2>1 DEF Behind
  <1>7. DbInv' /\ writer' = task /\ db' = db
    BY <1>2, <1>3, <1>4, <1>6, WriteInv DEF Write
  <1>8. PollerTypeOK' /\ PollerInv'
    <2>1. KeepsIds(db, db')  BY <1>7 DEF KeepsIds
    <2> QED BY <1>2, <2>1, PollerStays
  <1> QED BY <1>2, <1>7, <1>8

\* A step of the manager that only reads.
LEMMA ManagerReads ==
    ASSUME Inv, UNCHANGED <<dbVars, clob, vault, phase, closer, pollerVars>>,
           manager' \in ManagerType, ManagerInv'
    PROVE  Inv'
  <1>1. DbTypeOK' /\ DbInv' /\ PollerTypeOK' /\ PollerInv'
    BY DEF Inv, TypeOK, DbTypeOK, DbInv, Behind, KeepsIds, GoodDb, PollerTypeOK, PollerInv,
           dbVars, pollerVars
  <1>2. ManagerTypeOK' /\ CloserInv'
    BY DEF Inv, TypeOK, ManagerTypeOK, CloserInv, CloserOK, dbVars
  <1> QED BY <1>1, <1>2 DEF Inv, TypeOK

\* Between two positions the manager holds nothing.
LEMMA NextPositionGood ==
    ASSUME Inv
    PROVE  NextPosition \in ManagerType /\ NextPosition.pc = "scan"
  <1> DEFINE scanning == [manager EXCEPT !.pc = "scan", !.cur = NoToken]
             emptied  == [scanning EXCEPT !.size = 0]
  <1>1. 0 \in 0 .. Lot /\ manager \in ManagerType
    BY DbAssumption DEF Inv, TypeOK, ManagerTypeOK
  <1>2. scanning \in ManagerType /\ scanning.pc = "scan"  BY <1>1 DEF ManagerType
  <1>3. NextPosition = [emptied EXCEPT !.row = NoOrder]
    BY <1>1 DEF NextPosition, ManagerType
  <1> HIDE DEF scanning
  <1>4. emptied \in ManagerType /\ emptied.pc = "scan"  BY <1>1, <1>2 DEF ManagerType
  <1> HIDE DEF emptied
  <1> QED BY <1>3, <1>4 DEF ManagerType

\* The idle manager is well typed.
LEMMA ManagerIdleGood == ManagerIdle \in ManagerType /\ ManagerIdle.pc = "idle"
  <1>1. Lot \in Nat  BY DbAssumption
  <1> QED BY <1>1 DEF ManagerIdle, ManagerType

\* A cycle of the manager starts with positions of the table.
LEMMA CycleStartInv ==
    ASSUME Inv, CycleStart, UNCHANGED pollerVars
    PROVE  Inv'
  <1> DEFINE exits == [t \in Tokens |-> db.positions[t].exit]
  <1>1. exits \in [Tokens -> SellIds \cup {NoOrder}]
    BY DEF Inv, DbInv, GoodDb, Database, PositionRow
  <1> HIDE DEF exits
  <1>2. manager' = [ManagerIdle EXCEPT !.pc = "scan", !.todo = OpenPositions(db), !.exits = exits]
    BY DEF CycleStart, exits
  <1>3. manager' \in ManagerType /\ manager'.pc = "scan"
    BY <1>1, <1>2, ManagerIdleGood DEF ManagerType, OpenPositions
  <1> QED BY <1>3, ManagerReads DEF CycleStart, ManagerInv

\* A position is passed over, or taken up.
LEMMA CheckExitInv ==
    ASSUME Inv, NEW t \in Tokens, CheckExit(t), UNCHANGED pollerVars
    PROVE  Inv'
  <1>1. manager \in ManagerType  BY DEF Inv, TypeOK, ManagerTypeOK
  <1>2. /\ manager' \in ManagerType /\ manager'.pc \in {"scan", "refresh"}
        /\ manager'.pc = "refresh" => manager'.cur \in Tokens
    BY <1>1 DEF CheckExit, ManagerType
  <1> QED BY <1>2, ManagerReads DEF CheckExit, ManagerInv

\* Only a position that is OPEN, and so holds a share, goes on to be sold.
LEMMA RefreshInv ==
    ASSUME Inv, Refresh, UNCHANGED pollerVars
    PROVE  Inv'
  <1> DEFINE p == View("manager").positions[manager.cur]
  <1>1. manager \in ManagerType /\ manager.cur \in Tokens
    BY DEF Inv, TypeOK, ManagerTypeOK, ManagerInv, Refresh
  <1>2. p \in PositionRow /\ (p.status = "OPEN" => p.size > 0)
    BY <1>1 DEF View, Inv, DbInv, GoodDb, Database
  <1> HIDE DEF p
  <1>3. manager' = IF p.status = "OPEN" THEN [manager EXCEPT !.pc = "submit", !.size = p.size]
                   ELSE NextPosition
    BY DEF Refresh, p
  <1>4. CASE p.status = "OPEN"
    <2>1. /\ manager' \in ManagerType /\ manager'.pc = "submit" /\ manager'.cur \in Tokens
          /\ manager'.size > 0
      BY <1>1, <1>2, <1>3, <1>4 DEF ManagerType, PositionRow
    <2> QED BY <2>1, ManagerReads DEF Refresh, ManagerInv
  <1>5. CASE p.status # "OPEN"
    BY <1>3, <1>5, NextPositionGood, ManagerReads DEF Refresh, ManagerInv
  <1> QED BY <1>4, <1>5

\* The manager leaves a position alone.
LEMMA HoldInv ==
    ASSUME Inv, Hold, UNCHANGED pollerVars
    PROVE  Inv'
  BY NextPositionGood, ManagerReads DEF Hold, ManagerInv

\* A cycle that finds the database busy has written nothing.
LEMMA CycleAbortInv ==
    ASSUME Inv, CycleAbort, UNCHANGED pollerVars
    PROVE  Inv'
  BY ManagerIdleGood, ManagerReads DEF CycleAbort, ManagerInv

\* While the manager is the writer, or nobody is, no request is placing an order.
LEMMA ClosersStay ==
    ASSUME Inv, UNCHANGED closer, writer \in {NoTask, "manager"}
    PROVE  CloserInv'
  <1>1. "manager" \in Tasks /\ "manager" \notin Closers  BY DbAssumption DEF Tasks
  <1> QED BY <1>1, OthersStay DEF CloserInv

\* The manager inserts a SELL of positive size, and holds the write lock from then on.
LEMMA ExitInv ==
    ASSUME Inv, NEW o \in SellIds, Exit(o), UNCHANGED pollerVars
    PROVE  Inv'
  <1>1. /\ manager \in ManagerType /\ manager.cur \in Tokens
        /\ manager.size \in 0 .. Lot /\ manager.size > 0
    BY DEF Exit, Inv, TypeOK, ManagerTypeOK, ManagerInv, ManagerType
  <1>2. PICK policy \in {"ride", "cancel"} :
           SubmitExit("manager", manager.cur, o, manager.size, policy)
    BY DEF Exit
  <1>3. UNCHANGED <<clob, vault, phase, closer>>  BY DEF Exit
  <1>4. "manager" \in Tasks  BY DEF Tasks
  <1>5. /\ DbInv' /\ PollerTypeOK' /\ PollerInv'
        /\ writer' = "manager" /\ writer \in {NoTask, "manager"} /\ Fresh(tx', o)
    BY <1>1, <1>2, <1>3, <1>4, SubmitInv
  <1>6. manager' \in ManagerType /\ manager'.pc = "place" /\ manager'.row = o
    BY <1>1 DEF Exit, ManagerType
  <1>7. ManagerTypeOK' /\ ManagerInv'
    BY <1>3, <1>5, <1>6 DEF ManagerTypeOK, ManagerInv, Inv, TypeOK
  <1>8. CloserInv'  BY <1>3, <1>5, ClosersStay
  <1> QED BY <1>3, <1>4, <1>5, <1>7, <1>8 DEF Inv, TypeOK, DbTypeOK, DbInv, GoodDb

\* The CLOB's answer to the manager reaches the row it inserted.
LEMMA ManagerPlaceInv ==
    ASSUME Inv, Place, UNCHANGED pollerVars
    PROVE  Inv'
  <1>1. /\ writer = "manager" /\ manager.row \in SellIds /\ Fresh(tx, manager.row)
        /\ PlaceOrder("manager", manager.row) /\ manager' = NextPosition
        /\ UNCHANGED <<vault, phase, closer>>
    BY DEF Place, Inv, ManagerInv
  <1>2. "manager" \in Tasks  BY DEF Tasks
  <1>3. DbInv' /\ PollerTypeOK' /\ PollerInv' /\ writer' = "manager" /\ Grows(clob, clob')
    BY <1>1, <1>2, PlaceInv
  <1>4. ManagerTypeOK' /\ ManagerInv'
    BY <1>1, NextPositionGood DEF ManagerTypeOK, ManagerInv, Inv, TypeOK
  <1>5. CloserInv'  BY <1>1, ClosersStay
  <1> QED BY <1>1, <1>2, <1>3, <1>4, <1>5 DEF Inv, TypeOK, DbTypeOK, DbInv, GoodDb, Grows

\* A task other than the poller commits.
LEMMA TaskCommitInv ==
    ASSUME Inv, NEW task \in Tasks, task # "poller", Commit(task),
           UNCHANGED <<clob, vault, phase, pollerVars>>
    PROVE  DbTypeOK' /\ DbInv' /\ PollerTypeOK' /\ PollerInv' /\ UNCHANGED tx
  <1>1. /\ DbInv' /\ writer' \in Tasks \cup {NoTask} /\ KeepsIds(db, db') /\ UNCHANGED tx
    BY CommitInv
  <1>2. UNCHANGED <<tx, writer>> \/ writer # "poller"  BY DEF Commit
  <1>3. PollerTypeOK' /\ PollerInv'  BY <1>1, <1>2, ClobStays, PollerStays
  <1> QED BY <1>1, <1>3 DEF Inv, TypeOK, DbTypeOK, DbInv, GoodDb

\* The manager's cycle is committed.
LEMMA CycleCommitInv ==
    ASSUME Inv, CycleCommit, UNCHANGED pollerVars
    PROVE  Inv'
  <1>1. Commit("manager") /\ manager' = ManagerIdle /\ UNCHANGED <<clob, vault, phase, closer>>
    BY DEF CycleCommit
  <1>2. DbTypeOK' /\ DbInv' /\ PollerTypeOK' /\ PollerInv' /\ UNCHANGED tx
    BY <1>1, TaskCommitInv DEF Tasks
  <1>3. ManagerTypeOK' /\ ManagerInv'
    BY <1>1, ManagerIdleGood DEF ManagerTypeOK, ManagerInv, Inv, TypeOK
  <1>4. CloserInv'
    <2>1. CASE writer = "manager"  BY <1>1, <2>1, ClosersStay
    <2>2. CASE writer # "manager"
      BY <1>1, <1>2, <2>2 DEF Commit, Inv, CloserInv, CloserOK
    <2> QED BY <2>1, <2>2
  <1> QED BY <1>2, <1>3, <1>4 DEF Inv, TypeOK

\* Every step of the manager's cycle keeps the invariant.
LEMMA ManagerCycleInv ==
    ASSUME Inv, ManagerCycle, UNCHANGED pollerVars
    PROVE  Inv'
  BY CycleStartInv, CheckExitInv, RefreshInv, HoldInv, ExitInv, ManagerPlaceInv, CycleCommitInv,
     CycleAbortInv DEF ManagerCycle

\* A step of a request that only reads.
LEMMA CloserReads ==
    ASSUME Inv, NEW c \in Closers, NEW r \in CloserType, closer' = [closer EXCEPT ![c] = r],
           r.pc # "place", r.pc \in {"check", "submit"} => r.cur \in Tokens /\ r.size > 0,
           UNCHANGED <<dbVars, clob, vault, phase, manager, pollerVars>>
    PROVE  Inv'
  <1>1. DbTypeOK' /\ DbInv' /\ PollerTypeOK' /\ PollerInv' /\ ManagerInv'
    BY DEF Inv, TypeOK, DbTypeOK, DbInv, Behind, KeepsIds, GoodDb, PollerTypeOK, PollerInv,
           ManagerInv, dbVars, pollerVars
  <1>2. ManagerTypeOK' /\ closer'[c] = r  BY DEF Inv, TypeOK, ManagerTypeOK
  <1>3. CloserInv'
    BY <1>2 DEF Inv, TypeOK, ManagerTypeOK, CloserInv, CloserOK, dbVars
  <1> QED BY <1>1, <1>2, <1>3 DEF Inv, TypeOK

\* A request that is over holds nothing.
LEMMA CloserIdleGood ==
    [CloserIdle EXCEPT !.pc = "done"] \in CloserType /\ CloserIdle \in CloserType
  <1>1. 0 \in 0 .. Lot  BY DbAssumption
  <1> QED BY <1>1 DEF CloserIdle, CloserType

\* A request that ends holds nothing.
LEMMA CloserDoneInv ==
    ASSUME Inv, NEW c \in Closers, CloserDone(c),
           UNCHANGED <<dbVars, clob, vault, phase, manager, pollerVars>>
    PROVE  Inv'
  <1> DEFINE r == [CloserIdle EXCEPT !.pc = "done"]
  <1>1. r \in CloserType /\ r.pc = "done"  BY CloserIdleGood DEF CloserIdle
  <1>2. closer' = [closer EXCEPT ![c] = r]  BY DEF CloserDone
  <1> HIDE DEF r
  <1> QED BY <1>1, <1>2, CloserReads

\* A request goes on only with a position that is OPEN.
LEMMA CloseReadInv ==
    ASSUME Inv, NEW c \in Closers, NEW t \in Tokens, CloseRead(c, t), UNCHANGED pollerVars
    PROVE  Inv'
  <1> DEFINE p == db.positions[t]
             q == [CloserIdle EXCEPT !.pc = "check", !.cur = t]
             r == [q EXCEPT !.exit = p.exit, !.size = p.size]
  <1>1. p \in PositionRow /\ (p.status = "OPEN" => p.size > 0)
    BY DEF Inv, DbInv, GoodDb, Database
  <1>2. q \in CloserType /\ q.pc = "check" /\ q.cur = t  BY CloserIdleGood DEF CloserType
  <1>3. CASE p.status = "OPEN"
    <2>1. closer' = [closer EXCEPT ![c] = r]  BY <1>3 DEF CloseRead, CloserIdle
    <2> HIDE DEF q
    <2>2. r \in CloserType /\ r.pc = "check" /\ r.cur = t /\ r.size > 0
      BY <1>1, <1>2, <1>3 DEF CloserType, PositionRow
    <2> HIDE DEF r
    <2> QED BY <2>1, <2>2, CloserReads DEF CloseRead
  <1>4. CASE p.status # "OPEN"  BY <1>4, CloserDoneInv DEF CloseRead
  <1> QED BY <1>3, <1>4

\* A request looks up the exit its position links to.
LEMMA CloseCheckInv ==
    ASSUME Inv, NEW c \in Closers, CloseCheck(c), UNCHANGED pollerVars
    PROVE  Inv'
  <1>1. /\ closer[c] \in CloserType /\ closer[c].cur \in Tokens /\ closer[c].size > 0
        /\ UNCHANGED <<dbVars, clob, vault, phase, manager>>
    BY DEF CloseCheck, CloserAt, Inv, TypeOK, ManagerTypeOK, CloserInv, CloserOK
  <1>2. CASE CloserDone(c)  BY <1>1, <1>2, CloserDoneInv
  <1>3. CASE closer' = [closer EXCEPT ![c].pc = "submit"]
    <2> DEFINE r == [closer[c] EXCEPT !.pc = "submit"]
    <2>1. closer' = [closer EXCEPT ![c] = r]  BY <1>3
    <2>2. r \in CloserType /\ r.pc = "submit" /\ r.cur \in Tokens /\ r.size > 0
      BY <1>1 DEF CloserType
    <2> HIDE DEF r
    <2> QED BY <1>1, <2>1, <2>2, CloserReads
  <1> QED BY <1>2, <1>3 DEF CloseCheck

\* A request gives up before it writes.
LEMMA CloseGiveUpInv ==
    ASSUME Inv, NEW c \in Closers, CloseGiveUp(c), UNCHANGED pollerVars
    PROVE  Inv'
  BY CloserDoneInv DEF CloseGiveUp

\* While request c is the writer, or nobody is, no other task is placing an order.
LEMMA WhileCloserWrites ==
    ASSUME Inv, NEW c \in Closers, NEW r \in CloserType, closer' = [closer EXCEPT ![c] = r],
           UNCHANGED manager, writer \in {NoTask, c}
    PROVE  /\ c \in Tasks /\ c # "poller" /\ closer'[c] = r
           /\ ManagerTypeOK' /\ ManagerInv'
           /\ \A b \in Closers \ {c} : CloserOK(b)'
  <1>1. c \in Tasks /\ c # "poller" /\ c # "manager"  BY DbAssumption DEF Tasks
  <1>2. closer'[c] = r /\ \A b \in Closers \ {c} : closer'[b] = closer[b]
    BY DEF Inv, TypeOK, ManagerTypeOK
  <1>3. ManagerTypeOK'  BY DEF Inv, TypeOK, ManagerTypeOK
  <1> QED BY <1>1, <1>2, <1>3, OthersStay

\* A request inserts a SELL of positive size, and holds the write lock from then on.
LEMMA CloseSubmitInv ==
    ASSUME Inv, NEW c \in Closers, NEW o \in SellIds, CloseSubmit(c, o), UNCHANGED pollerVars
    PROVE  Inv'
  <1> DEFINE r == [closer[c] EXCEPT !.pc = "place", !.row = o]
  <1>1. /\ closer[c] \in CloserType /\ closer[c].cur \in Tokens
        /\ closer[c].size \in 0 .. Lot /\ closer[c].size > 0
    BY DEF CloseSubmit, CloserAt, Inv, TypeOK, ManagerTypeOK, CloserInv, CloserOK, CloserType
  <1>2. /\ SubmitExit(c, closer[c].cur, o, closer[c].size, "ride")
        /\ closer' = [closer EXCEPT ![c] = r]
        /\ UNCHANGED <<clob, vault, phase, manager>>
    BY DEF CloseSubmit, Inv, TypeOK, ManagerTypeOK
  <1>3. r \in CloserType /\ r.pc = "place" /\ r.row = o  BY <1>1 DEF CloserType
  <1> HIDE DEF r
  <1>4. c \in Tasks /\ c # "poller"  BY DbAssumption DEF Tasks
  <1>5. /\ DbInv' /\ PollerTypeOK' /\ PollerInv'
        /\ writer' = c /\ writer \in {NoTask, c} /\ Fresh(tx', o)
    BY <1>1, <1>2, <1>4, SubmitInv
  <1>6. /\ closer'[c] = r /\ ManagerTypeOK' /\ ManagerInv'
        /\ \A b \in Closers \ {c} : CloserOK(b)'
    BY <1>2, <1>3, <1>5, WhileCloserWrites
  <1>7. CloserInv'  BY <1>3, <1>5, <1>6 DEF CloserInv, CloserOK
  <1> QED BY <1>2, <1>4, <1>5, <1>6, <1>7 DEF Inv, TypeOK, DbTypeOK, DbInv, GoodDb

\* The CLOB's answer to a request reaches the row it inserted.
LEMMA ClosePlaceInv ==
    ASSUME Inv, NEW c \in Closers, ClosePlace(c), UNCHANGED pollerVars
    PROVE  Inv'
  <1> DEFINE r == [closer[c] EXCEPT !.pc = "commit"]
  <1>1. /\ closer[c] \in CloserType /\ closer[c].row \in SellIds
        /\ writer = c /\ Fresh(tx, closer[c].row)
    BY DEF ClosePlace, CloserAt, Inv, TypeOK, ManagerTypeOK, CloserInv, CloserOK
  <1>2. /\ PlaceOrder(c, closer[c].row)
        /\ closer' = [closer EXCEPT ![c] = r]
        /\ UNCHANGED <<vault, phase, manager>>
    BY DEF ClosePlace
  <1>3. r \in CloserType /\ r.pc = "commit"  BY <1>1 DEF CloserType
  <1> HIDE DEF r
  <1>4. /\ closer'[c] = r /\ ManagerTypeOK' /\ ManagerInv' /\ c \in Tasks /\ c # "poller"
        /\ \A b \in Closers \ {c} : CloserOK(b)'
    BY <1>1, <1>2, <1>3, WhileCloserWrites
  <1>5. DbInv' /\ PollerTypeOK' /\ PollerInv' /\ writer' = c /\ Grows(clob, clob')
    BY <1>1, <1>2, <1>4, PlaceInv
  <1>6. CloserInv'  BY <1>3, <1>4 DEF CloserInv, CloserOK
  <1> QED BY <1>2, <1>4, <1>5, <1>6 DEF Inv, TypeOK, DbTypeOK, DbInv, GoodDb, Grows

\* A request is committed.
LEMMA CloseCommitInv ==
    ASSUME Inv, NEW c \in Closers, CloseCommit(c), UNCHANGED pollerVars
    PROVE  Inv'
  <1> DEFINE r == [CloserIdle EXCEPT !.pc = "done"]
  <1>1. /\ Commit(c) /\ closer' = [closer EXCEPT ![c] = r]
        /\ UNCHANGED <<clob, vault, phase, manager>>
    BY DEF CloseCommit, CloserDone
  <1>2. r \in CloserType /\ r.pc = "done"  BY CloserIdleGood DEF CloserIdle
  <1> HIDE DEF r
  <1>3. c \in Tasks /\ c # "poller"  BY DbAssumption DEF Tasks
  <1>4. DbTypeOK' /\ DbInv' /\ PollerTypeOK' /\ PollerInv' /\ UNCHANGED tx
    BY <1>1, <1>3, TaskCommitInv
  <1>5. CASE writer \in {NoTask, c}
    <2>1. /\ closer'[c] = r /\ ManagerTypeOK' /\ ManagerInv'
          /\ \A b \in Closers \ {c} : CloserOK(b)'
      BY <1>1, <1>2, <1>5, WhileCloserWrites
    <2>2. CloserInv'  BY <1>2, <2>1 DEF CloserInv, CloserOK
    <2> QED BY <1>4, <2>1, <2>2 DEF Inv, TypeOK
  <1>6. CASE writer \notin {NoTask, c}
    <2>1. writer' = writer  BY <1>1, <1>6 DEF Commit
    <2>2. ManagerTypeOK' /\ ManagerInv' /\ closer'[c] = r
      BY <1>1, <1>2, <1>4, <2>1 DEF Inv, TypeOK, ManagerTypeOK, ManagerInv
    <2>3. CloserInv'
      BY <1>1, <1>2, <1>4, <2>1, <2>2 DEF Inv, TypeOK, ManagerTypeOK, CloserInv, CloserOK
    <2> QED BY <1>4, <2>2, <2>3 DEF Inv, TypeOK
  <1> QED BY <1>5, <1>6

\* Every step of a request keeps the invariant.
LEMMA CloserNextInv ==
    ASSUME Inv, NEW c \in Closers, CloserNext(c), UNCHANGED pollerVars
    PROVE  Inv'
  BY CloseReadInv, CloseCheckInv, CloseSubmitInv, CloseGiveUpInv, ClosePlaceInv, CloseCommitInv
     DEF CloserNext

-----------------------------------------------------------------------------
(***************************************************************************)
(* The CLOB, the vault, a restart, and the beginning.                      *)
(***************************************************************************)
\* A step of the CLOB or of the vault.
LEMMA OutsideInv ==
    ASSUME Inv, Grows(clob, clob'), vault' \in BOOLEAN,
           UNCHANGED <<dbVars, phase, pollerVars, managerVars>>
    PROVE  Inv'
  <1>1. DbInv' /\ writer' \in Tasks \cup {NoTask}  BY ClobInv
  <1>2. ManagerTypeOK' /\ ManagerInv' /\ CloserInv'  BY ManagerStays DEF dbVars
  <1>3. PollerTypeOK' /\ PollerInv'
    <2>1. KeepsIds(db, db') /\ UNCHANGED <<tx, writer>>  BY DEF KeepsIds, dbVars
    <2> QED BY <2>1, PollerStays
  <1> QED BY <1>1, <1>2, <1>3 DEF Inv, TypeOK, DbTypeOK, DbInv, GoodDb, Grows

\* A match leaves a live order short of its size.
LEMMA MatchInv ==
    ASSUME Inv, NEW m \in PmIds, Match(m), UNCHANGED <<pollerVars, managerVars>>
    PROVE  Inv'
  <1> DEFINE k == clob[m]
             n == k.matched + 1
             s == IF n = k.size THEN "filled" ELSE "live"
             l == [k EXCEPT !.matched = n, !.state = s]
  <1>1. /\ clob \in [PmIds -> ClobOrder] /\ k \in ClobOrder /\ Lot \in Nat
        /\ k.matched < k.size
    BY DbAssumption DEF Match, Inv, TypeOK, DbTypeOK, DbInv, GoodClob
  <1>2. clob' = [clob EXCEPT ![m] = l] /\ UNCHANGED <<dbVars, vault, phase>>
    BY <1>1 DEF Match
  <1>3. /\ k.matched \in 0 .. Lot /\ n \in 0 .. Lot /\ n > 0 /\ k.matched <= n
        /\ s \in {"live", "filled"} /\ (s = "live" => n < k.size)
    BY <1>1 DEF ClobOrder
  <1> HIDE DEF n, s
  <1>4. /\ l \in ClobOrder /\ l.matched = n /\ l.size = k.size /\ l.state = s
    BY <1>1, <1>3 DEF ClobOrder
  <1> HIDE DEF l
  <1>5. \A q \in PmIds : clob[q].matched \in 0 .. Lot  BY <1>1 DEF ClobOrder
  <1>6. Grows(clob, clob')
    BY <1>1, <1>2, <1>3, <1>4, <1>5 DEF Grows, GoodClob, Inv, DbInv
  <1> QED BY <1>2, <1>6, OutsideInv DEF Inv, TypeOK, DbTypeOK

\* An order the CLOB cancels by itself keeps what was matched.
LEMMA DelistInv ==
    ASSUME Inv, NEW m \in PmIds, Delist(m), UNCHANGED <<pollerVars, managerVars>>
    PROVE  Inv'
  <1> DEFINE l == [clob[m] EXCEPT !.state = "canceled"]
  <1>1. /\ clob \in [PmIds -> ClobOrder] /\ clob[m] \in ClobOrder /\ Lot \in Nat
    BY DbAssumption DEF Inv, TypeOK, DbTypeOK
  <1>2. clob' = [clob EXCEPT ![m] = l] /\ UNCHANGED <<dbVars, vault, phase>>  BY DEF Delist
  <1>3. l \in ClobOrder /\ l.matched = clob[m].matched /\ l.state = "canceled"
    BY <1>1 DEF ClobOrder
  <1> HIDE DEF l
  <1>4. \A q \in PmIds : clob[q].matched \in 0 .. Lot  BY <1>1 DEF ClobOrder
  <1>5. Grows(clob, clob')  BY <1>1, <1>2, <1>3, <1>4 DEF Grows, GoodClob, Inv, DbInv
  <1> QED BY <1>2, <1>5, OutsideInv DEF Inv, TypeOK, DbTypeOK

\* A restart trades nothing: it only leaves orders behind that nobody knows of.
SameTrades(k, l) ==
    /\ l \in [PmIds -> ClobOrder]
    /\ \A m \in PmIds : /\ l[m].state = k[m].state /\ l[m].size = k[m].size
                        /\ l[m].matched = k[m].matched /\ l[m].token = k[m].token
                        /\ k[m].stray => l[m].stray

LEMMA RestartTrades ==
    ASSUME Inv, Restart
    PROVE  SameTrades(clob, clob') /\ \A m \in PmIds : clob'[m].stray \/ m \notin CutOff
  <1>1. clob \in [PmIds -> ClobOrder]  BY DEF Inv, TypeOK, DbTypeOK
  <1>2. ASSUME NEW m \in PmIds
        PROVE  LET l == [clob[m] EXCEPT !.stray = TRUE] IN
               /\ l \in ClobOrder /\ l.state = clob[m].state /\ l.size = clob[m].size
               /\ l.matched = clob[m].matched /\ l.token = clob[m].token /\ l.stray
    <2>1. clob[m] \in ClobOrder  BY <1>1
    <2> QED BY <2>1 DEF ClobOrder
  <1>3. \A m \in PmIds : clob'[m] = IF m \in CutOff THEN [clob[m] EXCEPT !.stray = TRUE] ELSE clob[m]
    BY DEF Restart
  <1>4. clob' = [m \in PmIds |-> clob'[m]]  BY DEF Restart
  <1>5. clob' \in [PmIds -> ClobOrder]  BY <1>1, <1>2, <1>3, <1>4
  <1> QED BY <1>2, <1>3, <1>5 DEF SameTrades

\* After a restart no task holds anything, and both views are the reconciled ledger.
LEMMA RestartInv ==
    ASSUME Inv, Restart
    PROVE  Inv'
  <1>1. /\ db' = Reconcile(db) /\ tx' = db' /\ writer' = NoTask /\ vault' = FALSE
        /\ phase' = "running" /\ poller' = PollerIdle /\ manager' = ManagerIdle
        /\ UNCHANGED stale
    BY DEF Restart
  <1>2. /\ GoodDb(Reconcile(db))
        /\ \A o \in OrderIds : /\ Reconcile(db).orders[o].pm = db.orders[o].pm
                               /\ Reconcile(db).orders[o].filled = db.orders[o].filled
    BY ReconcileGood DEF Inv, DbInv
  <1>3. DbInv' /\ clob' \in [PmIds -> ClobOrder]
    <2>1. SameTrades(clob, clob')  BY RestartTrades
    <2>2. GoodClob(clob')  BY <2>1 DEF SameTrades, GoodClob, Inv, DbInv
    <2>3. \A o \in OrderIds : db.orders[o].pm # NoPm => db.orders[o].pm \in PmIds
      BY DEF Inv, DbInv, GoodDb, Database, OrderRow
    <2>4. Behind(db', clob')  BY <1>1, <1>2, <2>1, <2>3 DEF SameTrades, Behind, Inv, DbInv
    <2> QED BY <1>1, <1>2, <2>1, <2>2, <2>4 DEF DbInv, KeepsIds, SameTrades
  <1>4. DbTypeOK'  BY <1>1, <1>2, <1>3 DEF Inv, TypeOK, DbTypeOK, GoodDb
  <1>5. PollerTypeOK' /\ PollerInv'  BY <1>1, IdleInv
  <1>6. \A c \in Closers : closer'[c] \in CloserType /\ closer'[c].pc \in {"idle", "done"}
    <2>1. CloserIdle.pc = "idle" /\ [CloserIdle EXCEPT !.pc = "done"].pc = "done"
      BY DEF CloserIdle
    <2> QED BY <2>1, CloserIdleGood DEF Restart
  <1>7. ManagerTypeOK' /\ ManagerInv' /\ CloserInv'
    <2>1. closer' \in [Closers -> CloserType]  BY <1>6 DEF Restart
    <2> QED BY <1>1, <1>6, <2>1, ManagerIdleGood DEF ManagerTypeOK, ManagerInv, CloserInv, CloserOK
  <1> QED BY <1>3, <1>4, <1>5, <1>7 DEF Inv, TypeOK

\* The desk starts with a ledger of fresh BUYs and no task at work.
LEMMA InitInv ==
    ASSUME Init
    PROVE  Inv
  <1>1. /\ Lot \in Nat \ {0} /\ NoTask \notin Tasks /\ NoPm \notin PmIds
        /\ Tokens \cap SellIds = {}
    BY DbAssumption
  <1>2. NoRow \in OrderRow /\ NoRow.pm = NoPm /\ NoRow.status = "ABSENT"
    BY <1>1 DEF NoRow, OrderRow
  <1>3. ASSUME NEW t \in Tokens
        PROVE  /\ EntryRow(t) \in OrderRow /\ EntryRow(t).status = "SUBMITTED"
               /\ EntryRow(t).filled = 0
    <2> DEFINE q == [NoRow EXCEPT !.status = "SUBMITTED", !.token = t]
    <2>1. t \in PmIds /\ Lot \in 0 .. Lot  BY <1>1 DEF PmIds
    <2>2. q \in OrderRow /\ q.status = "SUBMITTED" /\ q.filled = 0
      BY <1>2 DEF OrderRow, NonTerminal, NoRow
    <2>3. EntryRow(t) = [q EXCEPT !.pm = t, !.size = Lot]  BY DEF EntryRow, NoRow
    <2> HIDE DEF q
    <2> QED BY <2>1, <2>2, <2>3 DEF OrderRow
  <1>4. NoPosition \in PositionRow /\ NoPosition.status = "ABSENT"
    BY <1>1 DEF NoPosition, PositionRow
  <1>5. GoodDb(db) /\ (\A o \in OrderIds : db.orders[o].pm # NoPm => db.orders[o].filled = 0)
    BY <1>2, <1>3, <1>4 DEF Init, DbInit, GoodDb, Database
  <1>6. /\ clob \in [PmIds -> ClobOrder] /\ GoodClob(clob)
        /\ \A m \in PmIds : clob[m].matched = 0
    BY <1>1 DEF Init, DbInit, ClobOrder, GoodClob, Listed, NotListed
  <1>7. Behind(db, clob)
    <2>1. \A o \in OrderIds : db.orders[o].pm \in PmIds \cup {NoPm}
      BY <1>5 DEF GoodDb, Database, OrderRow
    <2> QED BY <1>5, <1>6, <2>1 DEF Behind
  <1>8. DbInv  BY <1>5, <1>6, <1>7 DEF Init, DbInit, DbInv, KeepsIds
  <1>9. DbTypeOK  BY <1>5, <1>6 DEF Init, DbInit, DbTypeOK, GoodDb
  <1>10. PollerTypeOK /\ PollerInv
    BY <1>1 DEF Init, PollerInit, PollerTypeOK, PollerInv, PollerIdle, PollerType
  <1>11. ManagerTypeOK /\ ManagerInv /\ CloserInv
    BY ManagerIdleGood, CloserIdleGood
       DEF Init, ManagerInit, ManagerTypeOK, ManagerInv, CloserInv, CloserOK, CloserIdle
  <1> QED BY <1>8, <1>9, <1>10, <1>11 DEF Inv, TypeOK

\* Every step keeps the invariant.
LEMMA NextInv ==
    ASSUME Inv, Next
    PROVE  Inv'
  <1>1. CASE PollerNext /\ UNCHANGED managerVars  BY <1>1, PollerNextInv
  <1>2. CASE ManagerNext /\ UNCHANGED pollerVars
    BY <1>2, ManagerCycleInv, CloserNextInv DEF ManagerNext
  <1>3. CASE (Exchange \/ Lock \/ Unlock) /\ UNCHANGED <<pollerVars, managerVars>>
    <2>1. CASE Exchange  BY <1>3, <2>1, MatchInv, DelistInv DEF Exchange
    <2>2. CASE Lock \/ Unlock
      <3>1. UNCHANGED <<dbVars, clob, phase>> /\ vault' \in BOOLEAN  BY <2>2 DEF Lock, Unlock
      <3> QED BY <1>3, <3>1, ClobStays, OutsideInv
    <2> QED BY <1>3, <2>1, <2>2
  <1>4. CASE Restart  BY <1>4, RestartInv
  <1> QED BY <1>1, <1>2, <1>3, <1>4 DEF Next

\* A step that changes nothing keeps the invariant.
LEMMA StutterInv ==
    ASSUME Inv, UNCHANGED vars
    PROVE  Inv'
  <1>1. UNCHANGED <<dbVars, clob, vault, phase, pollerVars, managerVars>>
    BY DEF vars, dbVars, pollerVars, managerVars
  <1> QED BY <1>1, ClobStays, OutsideInv DEF Inv, TypeOK, DbTypeOK

-----------------------------------------------------------------------------
\* In every reachable state of the order poller, the position manager, the close
\* requests and the CLOB, whatever the faults, the inductive invariant holds.
THEOREM Invariance == Spec => []Inv
  <1>1. Init => Inv  BY InitInv
  <1>2. Inv /\ [Next]_vars => Inv'  BY NextInv, StutterInv
  <1> QED BY <1>1, <1>2, PTL DEF Spec

\* The rows of orders and positions, the orders at the CLOB and what the tasks
\* keep across their awaits never leave their types: in particular no fill, size
\* or remaining position is negative or larger than the entry order (the size
\* arithmetic of _mark_partial_cancelled, trading.py:567-592).
THEOREM TypeCorrect == Spec => []TypeOK
  <1>1. Inv => TypeOK  BY DEF Inv
  <1> QED BY <1>1, Invariance, PTL

\* No row of orders ever records more than the CLOB matched under its id, with
\* answers that are old when they are recorded, rolled back polls, crashes and
\* a sweep at shutdown (trading.py:388-436, 538-553, 650-662).
THEOREM NeverAhead == Spec => []LedgerNeverAhead
  <1>1. Inv => LedgerNeverAhead  BY DEF Inv, DbInv, Behind, LedgerNeverAhead
  <1> QED BY <1>1, Invariance, PTL

-----------------------------------------------------------------------------
(* No share vanishes: the inductive invariant *)

\* the SELLs that are in the table
Rows(d) == {o \in SellIds : d.orders[o].status # "ABSENT"}

\* an order that a poll may ask for
Alive(d, o) == d.orders[o].status \in {"SUBMITTED", "PARTIAL"} /\ d.orders[o].pm # NoPm

\* Every BUY is its token's, every SELL that exists is some token's.
RowsOK(d) ==
    /\ \A t \in Tokens : /\ d.orders[t].token = t
                         /\ d.orders[t].status \notin {"ABSENT", "PENDING_SUBMIT"}
    /\ \A o \in Rows(d) : d.orders[o].token \in Tokens
    /\ IsFiniteSet(Rows(d))

\* An id is that of an order the CLOB lists in the row's size.
NamesOK(d, k) ==
    \A o \in Rows(d) :
        d.orders[o].pm # NoPm => /\ k[d.orders[o].pm].size = d.orders[o].size
                                 /\ k[d.orders[o].pm].state # "unknown"

\* A position exists from the fill of its BUY on, and only such a position has
\* SELLs, one of which it may link to.
PositionsOK(d) ==
    /\ \A t \in Tokens : d.positions[t].status # "ABSENT" => d.orders[t].status \in Terminal
    /\ \A o \in Rows(d) : d.positions[d.orders[o].token].status # "ABSENT"
    /\ \A t \in Tokens : d.positions[t].exit # NoOrder =>
           d.positions[t].exit \in Rows(d) /\ d.orders[d.positions[t].exit].token = t

\* The SELL that will close a position is for all of it or more.
Covers(d) ==
    \A t \in Tokens :
        LET p == d.positions[t] IN
        p.status = "OPEN" /\ InFlight(d, p.exit) => d.orders[p.exit].size >= p.size

Held(p) == IF p.status = "OPEN" THEN p.size ELSE 0

\* NoShareVanishes, of any database
Accounted(d) ==
    \A t \in Tokens :
        d.positions[t].status # "ABSENT" =>
            Sold(d, t) + Held(d.positions[t]) >= d.orders[t].filled

Sound(d, k) == RowsOK(d) /\ NamesOK(d, k) /\ PositionsOK(d) /\ Covers(d) /\ Accounted(d)

\* From d to e positions only lose shares.
Shrinks(d, e) ==
    \A t \in Tokens :
        d.positions[t].status # "ABSENT" =>
            /\ e.positions[t].status # "ABSENT"
            /\ e.positions[t].status = "OPEN" => /\ d.positions[t].status = "OPEN"
                                                 /\ e.positions[t].size <= d.positions[t].size

SameHoldings(d, e) ==
    \A t \in Tokens : /\ e.positions[t].status = d.positions[t].status
                      /\ e.positions[t].size = d.positions[t].size

KeepsAlive(d, e) == \A o \in OrderIds : Alive(d, o) => Alive(e, o)

LedgersInv ==
    /\ Sound(db, clob) /\ Sound(tx, clob)
    /\ Shrinks(db, tx)
    /\ writer = NoTask => tx = db
    /\ writer # "poller" => SameHoldings(db, tx) /\ KeepsAlive(db, tx)

\* The CLOB calls an order filled when all of it is matched.
WholeInv == \A m \in PmIds : clob[m].state = "filled" => clob[m].matched = clob[m].size

TodoInv == \A o \in poller.todo : Alive(db, o) /\ Alive(tx, o)

\* A row that is PENDING_SUBMIT is never committed.
Placing(o) ==
    \/ manager.pc = "place" /\ manager.row = o
    \/ \E c \in Closers : closer[c].pc = "place" /\ closer[c].row = o
PendingInv ==
    \A o \in SellIds : /\ db.orders[o].status # "PENDING_SUBMIT"
                       /\ tx.orders[o].status = "PENDING_SUBMIT" => Placing(o)

\* What a task is about to sell of a position is all that is left, or more.
Offers(t, n) ==
    /\ db.positions[t].status # "ABSENT"
    /\ db.positions[t].status = "OPEN" => n >= db.positions[t].size
OffersInv ==
    /\ manager.pc = "submit" => Offers(manager.cur, manager.size)
    /\ \A c \in Closers :
           closer[c].pc \in {"check", "submit"} => Offers(closer[c].cur, closer[c].size)

\* The fill a cancel will record is the one on record.
CancelInv ==
    /\ poller.pc = "cancel" => poller.seen = tx.orders[poller.cur].filled
    /\ writer = "poller" => poller.pc # "idle"

SharesInv == LedgersInv /\ WholeInv /\ TodoInv /\ PendingInv /\ OffersInv /\ CancelInv

-----------------------------------------------------------------------------
(* Sums over the SELLs of a token *)

\* A token has finitely many finished SELLs, and a sum over them is a number.
LEMMA SoldInt ==
    ASSUME NEW d, GoodDb(d), IsFiniteSet(Rows(d)), NEW t
    PROVE  /\ Finished(d, t) \subseteq Rows(d) /\ IsFiniteSet(Finished(d, t))
           /\ Sold(d, t) \in Int
  <1> DEFINE f == [o \in SellIds |-> d.orders[o].filled]
  <1>1. Finished(d, t) \subseteq Rows(d)  BY DEF Finished, Rows, Terminal
  <1>2. IsFiniteSet(Finished(d, t))  BY <1>1, FS_Subset
  <1>3. \A o \in Finished(d, t) : f[o] \in Int
    <2> SUFFICES ASSUME NEW o \in Finished(d, t)  PROVE  f[o] \in Int
      OBVIOUS
    <2>1. o \in SellIds /\ o \in OrderIds  BY DEF Finished, OrderIds
    <2>2. d.orders[o] \in OrderRow /\ Lot \in Nat  BY <2>1, DbAssumption DEF GoodDb, Database
    <2> QED BY <2>1, <2>2 DEF OrderRow
  <1> HIDE DEF f
  <1>4. SumFunctionOnSet(f, Finished(d, t)) \in Int  BY <1>2, <1>3, SumTake
  <1> QED BY <1>1, <1>2, <1>4 DEF Sold, f

\* As long as the same SELLs are finished, with the same fills, as much is sold.
LEMMA SoldSame ==
    ASSUME NEW d, NEW e, NEW t, IsFiniteSet(Finished(d, t)), Finished(e, t) = Finished(d, t),
           \A o \in Finished(d, t) : e.orders[o].filled = d.orders[o].filled
    PROVE  Sold(e, t) = Sold(d, t)
  <1> DEFINE f == [o \in SellIds |-> d.orders[o].filled]
             g == [o \in SellIds |-> e.orders[o].filled]
  <1>1. \A o \in Finished(d, t) : f[o] = g[o]  BY DEF Finished
  <1> HIDE DEF f, g
  <1>2. SumFunctionOnSet(f, Finished(d, t)) = SumFunctionOnSet(g, Finished(d, t))
    BY <1>1, SumAgree
  <1> QED BY <1>2 DEF Sold, f, g

\* When one more SELL is finished, its fill is sold.
LEMMA SoldMore ==
    ASSUME NEW d, GoodDb(d), NEW e, GoodDb(e), NEW t, IsFiniteSet(Finished(d, t)),
           NEW o \in SellIds, o \notin Finished(d, t), Finished(e, t) = Finished(d, t) \cup {o},
           \A q \in Finished(d, t) : e.orders[q].filled = d.orders[q].filled
    PROVE  Sold(e, t) = e.orders[o].filled + Sold(d, t)
  <1> DEFINE g == [q \in SellIds |-> e.orders[q].filled]
             F == Finished(d, t)
  <1>1. \A q \in F \cup {o} : g[q] \in Int
    <2> SUFFICES ASSUME NEW q \in F \cup {o}  PROVE  g[q] \in Int
      OBVIOUS
    <2>1. q \in SellIds /\ q \in OrderIds  BY DEF Finished, OrderIds
    <2>2. e.orders[q] \in OrderRow /\ Lot \in Nat  BY <2>1, DbAssumption DEF GoodDb, Database
    <2> QED BY <2>1, <2>2 DEF OrderRow
  <1>2. g[o] = e.orders[o].filled /\ Sold(e, t) = SumFunctionOnSet(g, F \cup {o})  BY DEF Sold
  <1> DEFINE f == [q \in SellIds |-> d.orders[q].filled]
  <1>3. \A q \in F : f[q] = g[q]  BY DEF Finished
  <1>4. Sold(d, t) = SumFunctionOnSet(f, F)  BY DEF Sold
  <1> HIDE DEF f, g, F
  <1>5. SumFunctionOnSet(g, F \cup {o}) = g[o] + SumFunctionOnSet(g, F)
    BY <1>1, SumAdd DEF F
  <1>6. SumFunctionOnSet(f, F) = SumFunctionOnSet(g, F)  BY <1>3, SumAgree DEF F
  <1> QED BY <1>2, <1>4, <1>5, <1>6

-----------------------------------------------------------------------------
(***************************************************************************)
(* What the poller writes of one order: Marks says what becomes of its row  *)
(* and of its position, n being the fill an answer of the CLOB reported.    *)
(***************************************************************************)
RowMarked(d, e, o, n) ==
    LET r == d.orders[o]
        s == e.orders[o]
    IN  /\ \A x \in OrderIds \ {o} : e.orders[x] = d.orders[x]
        /\ s.token = r.token /\ s.pm = r.pm /\ s.size = r.size /\ s.price = r.price
        /\ s.policy = r.policy
        /\ s.filled \in {r.filled, n} /\ s.filled >= r.filled

PositionMarked(d, e, o, n) ==
    LET r == d.orders[o]
        s == e.orders[o]
        p == d.positions[r.token]
        q == e.positions[r.token]
    IN  /\ \A u \in Tokens \ {r.token} : e.positions[u] = d.positions[u]
        /\ \/ q = p /\ (s.status = r.status \/ s.status = "PARTIAL")
           \/ q = p /\ s.status \in {"FILLED", "CANCELLED"} /\ o \in SellIds /\ ~Linked(d, o)
           \/ q = p /\ s.status = "CANCELLED" /\ (o \in Tokens \/ s.filled = r.filled)
           \/ /\ o \in Tokens /\ s.status = "FILLED" /\ s.filled = n /\ n > 0
              /\ e.positions[o] = OpenPosition(n)
           \/ /\ o \in SellIds /\ Linked(d, o) /\ n > 0 /\ s.filled = n
              /\ \/ s.status = "FILLED" /\ q = ClosePosition(p, r.price, n)
                 \/ s.status = "CANCELLED" /\ q = ReducePosition(p, r.price, n)

Marks(d, e, o, n) == GoodDb(e) /\ RowMarked(d, e, o, n) /\ PositionMarked(d, e, o, n)

\* Replacing a row.
LEMMA SetOrderRow ==
    ASSUME NEW d, GoodDb(d), NEW o \in OrderIds, NEW row
    PROVE  /\ SetOrder(d, o, row).orders[o] = row
           /\ \A x \in OrderIds \ {o} : SetOrder(d, o, row).orders[x] = d.orders[x]
           /\ SetOrder(d, o, row).positions = d.positions
  BY DEF SetOrder, GoodDb, Database

\* Replacing a position.
LEMMA SetPositionRow ==
    ASSUME NEW d, GoodDb(d), NEW t \in Tokens, NEW row
    PROVE  /\ SetPosition(d, t, row).positions[t] = row
           /\ \A u \in Tokens \ {t} : SetPosition(d, t, row).positions[u] = d.positions[u]
           /\ SetPosition(d, t, row).orders = d.orders
  BY DEF SetPosition, GoodDb, Database

\* _mark_partial
LEMMA MarkPartialMarks ==
    ASSUME NEW d, GoodDb(d), NEW o \in OrderIds, NEW n \in 0 .. Lot, n >= d.orders[o].filled
    PROVE  Marks(d, MarkPartial(d, o, n), o, n)
  <1> DEFINE r   == d.orders[o]
             row == [r EXCEPT !.status = "PARTIAL", !.filled = n]
             e   == MarkPartial(d, o, n)
  <1>1. r \in OrderRow /\ r.filled \in 0 .. Lot /\ Lot \in Nat
    BY DbAssumption DEF GoodDb, Database, OrderRow
  <1>2. /\ row.status = "PARTIAL" /\ row.filled = n /\ row.token = r.token /\ row.pm = r.pm
        /\ row.size = r.size /\ row.price = r.price /\ row.policy = r.policy
    BY <1>1 DEF OrderRow
  <1>3. e = IF n = 0 THEN d ELSE SetOrder(d, o, row)  BY DEF MarkPartial
  <1>4. GoodDb(e)  BY MarkPartialUpdates DEF Updates
  <1> HIDE DEF row, e
  <1>5. CASE n = 0
    <2>1. e = d  BY <1>3, <1>5
    <2>2. RowMarked(d, d, o, n)  BY <1>1 DEF RowMarked
    <2>3. PositionMarked(d, d, o, n)  BY DEF PositionMarked
    <2> QED BY <1>4, <2>1, <2>2, <2>3 DEF Marks, e
  <1>6. CASE n # 0
    <2>1. /\ e.orders[o] = row /\ e.positions = d.positions
          /\ \A x \in OrderIds \ {o} : e.orders[x] = d.orders[x]
      BY <1>3, <1>6, SetOrderRow
    <2>2. RowMarked(d, e, o, n)  BY <1>1, <1>2, <2>1 DEF RowMarked
    <2>3. PositionMarked(d, e, o, n)  BY <1>2, <2>1 DEF PositionMarked
    <2> QED BY <1>4, <2>2, <2>3 DEF Marks, e
  <1> QED BY <1>5, <1>6 DEF e

\* _mark_cancelled
LEMMA MarkCancelledMarks ==
    ASSUME NEW d, GoodDb(d), NEW o \in OrderIds, NEW n
    PROVE  Marks(d, MarkCancelled(d, o), o, n)
  <1> DEFINE r   == d.orders[o]
             row == [r EXCEPT !.status = "CANCELLED"]
             e   == MarkCancelled(d, o)
  <1>1. r \in OrderRow /\ r.filled \in 0 .. Lot /\ Lot \in Nat
    BY DbAssumption DEF GoodDb, Database, OrderRow
  <1>2. /\ row.status = "CANCELLED" /\ row.filled = r.filled /\ row.token = r.token
        /\ row.pm = r.pm /\ row.size = r.size /\ row.price = r.price /\ row.policy = r.policy
    BY <1>1 DEF OrderRow
  <1>3. e = SetOrder(d, o, row)  BY DEF MarkCancelled
  <1>4. GoodDb(e)  BY MarkCancelledUpdates DEF Updates
  <1> HIDE DEF row, e
  <1>5. /\ e.orders[o] = row /\ e.positions = d.positions
        /\ \A x \in OrderIds \ {o} : e.orders[x] = d.orders[x]
    BY <1>3, SetOrderRow
  <1>6. RowMarked(d, e, o, n)  BY <1>1, <1>2, <1>5 DEF RowMarked
  <1>7. PositionMarked(d, e, o, n)  BY <1>1, <1>2, <1>5 DEF PositionMarked
  <1> QED BY <1>4, <1>6, <1>7 DEF Marks, e

\* _mark_filled
LEMMA MarkFilledMarks ==
    ASSUME NEW d, GoodDb(d), RowsOK(d), NEW o \in OrderIds, NEW n \in 0 .. Lot, n > 0,
           n >= d.orders[o].filled
    PROVE  Marks(d, MarkFilled(d, o, n), o, n)
  <1> DEFINE r   == d.orders[o]
             row == [r EXCEPT !.status = "FILLED", !.filled = n]
             f   == SetOrder(d, o, row)
             e   == MarkFilled(d, o, n)
  <1>1. r \in OrderRow /\ r.filled \in 0 .. Lot /\ Lot \in Nat
    BY DbAssumption DEF GoodDb, Database, OrderRow
  <1>2. /\ row \in OrderRow /\ row.status = "FILLED" /\ row.filled = n /\ row.token = r.token
        /\ row.pm = r.pm /\ row.size = r.size /\ row.price = r.price /\ row.policy = r.policy
    BY <1>1 DEF OrderRow, Terminal
  <1>3. e = IF o \in Tokens THEN SetPosition(f, o, OpenPosition(n))
            ELSE IF Linked(d, o)
                 THEN SetPosition(f, r.token, ClosePosition(d.positions[r.token], r.price, n))
                 ELSE f
    BY DEF MarkFilled
  <1>4. GoodDb(e)  BY MarkFilledUpdates DEF Updates
  <1> HIDE DEF row
  <1>5. /\ f.orders[o] = row /\ f.positions = d.positions
        /\ \A x \in OrderIds \ {o} : f.orders[x] = d.orders[x]
    BY SetOrderRow
  <1>6. GoodDb(f)  BY <1>2, SetOrderUpdates DEF Updates
  <1> HIDE DEF e, f
  <1>10. e.orders = f.orders => RowMarked(d, e, o, n)
    BY <1>1, <1>2, <1>5 DEF RowMarked
  <1>7. CASE o \in Tokens
    <2>1. /\ e.positions[o] = OpenPosition(n) /\ e.orders = f.orders
          /\ \A u \in Tokens \ {o} : e.positions[u] = d.positions[u]
      BY <1>3, <1>5, <1>6, <1>7, SetPositionRow
    <2>2. r.token = o  BY <1>7 DEF RowsOK
    <2>3. PositionMarked(d, e, o, n)
      BY <1>2, <1>5, <1>7, <2>1, <2>2 DEF PositionMarked
    <2> QED BY <1>4, <1>10, <2>1, <2>3 DEF Marks, e
  <1>8. CASE o \notin Tokens /\ Linked(d, o)
    <2>1. r.token \in Tokens /\ o \in SellIds  BY Zenon, <1>8 DEF Linked, OrderIds
    <2>2. /\ e.positions[r.token] = ClosePosition(d.positions[r.token], r.price, n)
          /\ e.orders = f.orders
          /\ \A u \in Tokens \ {r.token} : e.positions[u] = d.positions[u]
      BY <1>3, <1>5, <1>6, <1>8, <2>1, SetPositionRow
    <2>3. PositionMarked(d, e, o, n)
      BY <1>2, <1>5, <1>8, <2>1, <2>2 DEF PositionMarked
    <2> QED BY <1>4, <1>10, <2>2, <2>3 DEF Marks, e
  <1>9. CASE o \notin Tokens /\ ~Linked(d, o)
    <2>1. o \in SellIds /\ e = f  BY <1>3, <1>9 DEF OrderIds
    <2>2. PositionMarked(d, e, o, n)  BY <1>2, <1>5, <1>9, <2>1 DEF PositionMarked
    <2> QED BY <1>4, <1>10, <2>1, <2>2 DEF Marks, e
  <1> QED BY <1>7, <1>8, <1>9 DEF e

\* _mark_partial_cancelled, with no fill reported only for an order that has none
LEMMA MarkPartialCancelledMarks ==
    ASSUME NEW d, GoodDb(d), NEW o \in OrderIds, NEW n \in 0 .. Lot, n >= d.orders[o].filled
    PROVE  /\ Marks(d, MarkPartialCancelled(d, o, n), o, n)
           /\ MarkPartialCancelled(d, o, n).orders[o].status = "CANCELLED"
  <1> DEFINE r   == d.orders[o]
             row == [r EXCEPT !.status = "CANCELLED", !.filled = IF n > 0 THEN n ELSE r.filled]
             f   == SetOrder(d, o, row)
             e   == MarkPartialCancelled(d, o, n)
  <1>1. r \in OrderRow /\ r.filled \in 0 .. Lot /\ Lot \in Nat
    BY DbAssumption DEF GoodDb, Database, OrderRow
  <1>9. n = 0 => r.filled = 0  BY <1>1
  <1>11. (IF n > 0 THEN n ELSE r.filled) = n  BY <1>1, <1>9
  <1>2. /\ row \in OrderRow /\ row.status = "CANCELLED" /\ row.filled = n /\ row.token = r.token
        /\ row.pm = r.pm /\ row.size = r.size /\ row.price = r.price /\ row.policy = r.policy
    BY <1>1, <1>11 DEF OrderRow, Terminal
  <1>3. e = IF o \in SellIds /\ n > 0 /\ Linked(d, o)
            THEN SetPosition(f, r.token, ReducePosition(d.positions[r.token], r.price, n))
            ELSE f
    BY DEF MarkPartialCancelled
  <1>4. GoodDb(e)  BY MarkPartialCancelledUpdates DEF Updates
  <1> HIDE DEF row
  <1>5. /\ f.orders[o] = row /\ f.positions = d.positions
        /\ \A x \in OrderIds \ {o} : f.orders[x] = d.orders[x]
    BY SetOrderRow
  <1>6. GoodDb(f)  BY <1>2, SetOrderUpdates DEF Updates
  <1> HIDE DEF e, f
  <1>10. e.orders = f.orders => RowMarked(d, e, o, n)
    BY <1>1, <1>2, <1>5 DEF RowMarked
  <1>7. CASE o \in SellIds /\ n > 0 /\ Linked(d, o)
    <2>1. r.token \in Tokens  BY Zenon, <1>7 DEF Linked
    <2>2. /\ e.positions[r.token] = ReducePosition(d.positions[r.token], r.price, n)
          /\ e.orders = f.orders
          /\ \A u \in Tokens \ {r.token} : e.positions[u] = d.positions[u]
      BY <1>3, <1>5, <1>6, <1>7, <2>1, SetPositionRow
    <2>3. PositionMarked(d, e, o, n)
      BY <1>2, <1>5, <1>7, <2>1, <2>2 DEF PositionMarked
    <2> QED BY <1>2, <1>4, <1>5, <1>10, <2>2, <2>3 DEF Marks, e
  <1>8. CASE ~(o \in SellIds /\ n > 0 /\ Linked(d, o))
    <2>1. e = f /\ (o \in Tokens \/ ~Linked(d, o) \/ n = 0)  BY <1>1, <1>3, <1>8 DEF OrderIds
    <2>2. PositionMarked(d, e, o, n)
      BY <1>2, <1>5, <1>9, <2>1 DEF PositionMarked, OrderIds
    <2> QED BY <1>2, <1>4, <1>5, <1>10, <2>1, <2>2 DEF Marks, e
  <1> QED BY <1>7, <1>8 DEF e

\* What a fill makes of a position, and what a cancel with a partial fill does.
LEMMA SellOff ==
    ASSUME NEW p \in PositionRow, NEW price, NEW n \in 0 .. Lot
    PROVE  LET sold == Lesser(n, p.size)
               c    == ClosePosition(p, price, n)
               q    == ReducePosition(p, price, n)
               gain == p.partial + (price - Entry) * sold
           IN  /\ c.status = "CLOSED" /\ c.exit = p.exit /\ c.size = p.size /\ c.pnl = gain
               /\ p.size = sold => q.status = "CLOSED" /\ q.exit = p.exit /\ q.size = p.size
                                   /\ q.pnl = gain
               /\ p.size # sold => /\ q.status = p.status /\ q.exit = NoOrder
                                   /\ q.size = p.size - sold /\ q.partial = gain
                                   /\ q.pnl = p.pnl
  BY DEF ClosePosition, ReducePosition, PositionRow

\* The lesser of two sizes.
LEMMA LesserType ==
    ASSUME NEW m \in Nat, NEW n \in Nat
    PROVE  Lesser(m, n) \in Nat /\ Lesser(m, n) <= m /\ Lesser(m, n) <= n
           /\ (Lesser(m, n) = m \/ Lesser(m, n) = n)
  BY DEF Lesser

\* When one row changes, what it filled is sold if it is finished then.
LEMMA OneRowSold ==
    ASSUME NEW d, GoodDb(d), IsFiniteSet(Rows(d)), NEW e, GoodDb(e), NEW o \in OrderIds,
           \A x \in OrderIds \ {o} : e.orders[x] = d.orders[x],
           d.orders[o].status \notin Terminal, NEW t
    PROVE  IF o \in SellIds /\ e.orders[o].token = t /\ e.orders[o].status \in Terminal
           THEN Sold(e, t) = e.orders[o].filled + Sold(d, t)
           ELSE Sold(e, t) = Sold(d, t)
  <1> DEFINE F == Finished(d, t)
             G == Finished(e, t)
  <1>1. IsFiniteSet(F)  BY SoldInt
  <1>3. o \notin F  BY DEF Finished
  <1>4. \A x \in SellIds \ {o} : /\ x \in F <=> x \in G
                                 /\ e.orders[x].filled = d.orders[x].filled
    BY DEF Finished, OrderIds
  <1>5. F \subseteq SellIds /\ G \subseteq SellIds  BY DEF Finished
  <1>6. CASE o \in SellIds /\ e.orders[o].token = t /\ e.orders[o].status \in Terminal
    <2>1. o \in G  BY <1>6 DEF Finished
    <2>2. G = F \cup {o}  BY <1>3, <1>4, <1>5, <2>1
    <2>3. \A x \in F : e.orders[x].filled = d.orders[x].filled  BY <1>3, <1>4, <1>5
    <2> QED BY <1>1, <1>3, <1>6, <2>2, <2>3, SoldMore
  <1>7. CASE ~(o \in SellIds /\ e.orders[o].token = t /\ e.orders[o].status \in Terminal)
    <2>1. o \notin G  BY <1>7 DEF Finished
    <2>2. G = F
      <3> HIDE DEF F, G
      <3>1. \A x \in SellIds : x \in F <=> x \in G  BY <1>3, <1>4, <2>1
      <3> QED BY <1>5, <3>1
    <2>3. \A x \in F : e.orders[x].filled = d.orders[x].filled  BY <1>3, <1>4, <1>5
    <2> QED BY <1>1, <1>7, <2>2, <2>3, SoldSame
  <1> QED BY <1>6, <1>7

\* What the poller writes of an order that is alive keeps a sound database sound.
LEMMA MarksSound ==
    ASSUME NEW d, GoodDb(d), NEW k, Sound(d, k), NEW o \in OrderIds, Alive(d, o),
           NEW n \in 0 .. Lot, NEW e, Marks(d, e, o, n),
           o \in SellIds /\ e.orders[o].status = "FILLED" => n >= d.orders[o].size
    PROVE  /\ Sound(e, k) /\ Shrinks(d, e)
           /\ \A x \in OrderIds \ {o} : Alive(d, x) => Alive(e, x)
  <1> DEFINE r == d.orders[o]
             s == e.orders[o]
             t == r.token
             p == d.positions[t]
             q == e.positions[t]
  <1>1. /\ GoodDb(e) /\ r \in OrderRow /\ s \in OrderRow /\ Lot \in Nat
        /\ Tokens \cap SellIds = {} /\ NoOrder \notin OrderIds
        /\ \A x \in OrderIds \ {o} : e.orders[x] = d.orders[x]
        /\ s.token = t /\ s.pm = r.pm /\ s.size = r.size
        /\ \A u \in Tokens \ {t} : e.positions[u] = d.positions[u]
    BY DbAssumption DEF Marks, RowMarked, PositionMarked, GoodDb, Database
  <1>2. r.status \in {"SUBMITTED", "PARTIAL"} /\ s.status \notin {"ABSENT", "PENDING_SUBMIT"}
    BY DEF Alive, Marks, PositionMarked
  <1>3. t \in Tokens /\ (o \in Tokens => t = o) /\ (o \in SellIds => o \in Rows(d))
    BY <1>2 DEF Sound, RowsOK, Rows, OrderIds
  <1>4. p \in PositionRow /\ q \in PositionRow  BY <1>1, <1>3 DEF GoodDb, Database
  <1>5. /\ o \in Tokens => p.status = "ABSENT"
        /\ o \in SellIds => p.status # "ABSENT"
    BY <1>2, <1>3 DEF Sound, PositionsOK, Terminal
  <1>6. Rows(e) = Rows(d) /\ \A x \in Rows(d) : x \in OrderIds /\ e.orders[x].token = d.orders[x].token
    BY <1>1, <1>2 DEF Rows, OrderIds
  \* what becomes of the position
  <1>7. \/ q = p /\ (o \in Tokens => s.status # "FILLED")
        \/ o \in Tokens /\ s.status = "FILLED" /\ q = OpenPosition(n) /\ s.filled = n
        \/ /\ o \in SellIds /\ p.exit = o /\ s.status \in Terminal /\ s.filled = n
           /\ \/ q = ClosePosition(p, r.price, n) /\ n >= r.size
              \/ q = ReducePosition(p, r.price, n)
    BY <1>1, <1>2, <1>3 DEF Marks, PositionMarked, Linked, Terminal
  <1>8. /\ n \in Nat /\ p.size \in Nat /\ Lesser(n, p.size) \in Nat
        /\ Lesser(n, p.size) <= n /\ Lesser(n, p.size) <= p.size
    <2>1. p.size \in 0 .. Lot  BY <1>4 DEF PositionRow
    <2>2. n \in Nat /\ p.size \in Nat  BY <1>1, <2>1
    <2> QED BY <2>2, LesserType
  <1>9. /\ OpenPosition(n).status = "OPEN" /\ OpenPosition(n).size = n
        /\ OpenPosition(n).exit = NoOrder
    BY Zenon DEF OpenPosition, NoPosition
  \* a position that was there is not lost, and only loses shares
  <1>10. p.status # "ABSENT" =>
            /\ q.status # "ABSENT"
            /\ q.status = "OPEN" => p.status = "OPEN" /\ q.size <= p.size
    BY <1>4, <1>5, <1>7, <1>8, SellOff
  <1>11. Shrinks(d, e)
    <2>1. ASSUME NEW u \in Tokens, u # t, d.positions[u].status # "ABSENT"
          PROVE  e.positions[u] = d.positions[u] /\ d.positions[u].size <= d.positions[u].size
      <3>1. d.positions[u] \in PositionRow  BY DEF GoodDb, Database
      <3>2. d.positions[u].size \in Nat  BY <1>1, <3>1 DEF PositionRow
      <3> QED BY <1>1, <2>1, <3>2
    <2> QED BY <1>10, <2>1 DEF Shrinks
  <1>12. RowsOK(e)
    <2>1. \A u \in Tokens : u \in OrderIds /\ e.orders[u].token = u
                            /\ e.orders[u].status \notin {"ABSENT", "PENDING_SUBMIT"}
      BY <1>1, <1>2 DEF Sound, RowsOK, OrderIds
    <2> QED BY <1>6, <2>1 DEF Sound, RowsOK
  <1>13. NamesOK(e, k)  BY <1>1, <1>6 DEF Sound, NamesOK
  <1>14. q.exit \in {p.exit, NoOrder} /\ (q.exit # p.exit => q.exit = NoOrder)
    BY <1>4, <1>7, <1>9, SellOff
  <1>15. PositionsOK(e)
    <2>1. \A u \in Tokens : e.positions[u].status # "ABSENT" => e.orders[u].status \in Terminal
      <3>1. \A u \in Tokens \ {t} : u # o /\ u \in OrderIds  BY <1>3 DEF OrderIds
      <3>2. o \in SellIds => o # t /\ t \in OrderIds  BY Zenon, <1>1, <1>3 DEF OrderIds
      <3>3. q.status # "ABSENT" => e.orders[t].status \in Terminal
        BY <1>1, <1>3, <1>5, <1>7, <3>2 DEF Sound, PositionsOK, OrderIds, Terminal
      <3> QED BY <1>1, <3>1, <3>3 DEF Sound, PositionsOK
    <2>2. \A x \in Rows(e) : e.positions[e.orders[x].token].status # "ABSENT"
      BY <1>6, <1>11 DEF Sound, PositionsOK, Shrinks, RowsOK
    <2>3. \A u \in Tokens : e.positions[u].exit # NoOrder =>
              e.positions[u].exit \in Rows(e) /\ e.orders[e.positions[u].exit].token = u
      <3> SUFFICES ASSUME NEW u \in Tokens, e.positions[u].exit # NoOrder
                   PROVE  e.positions[u].exit \in Rows(e) /\ e.orders[e.positions[u].exit].token = u
        OBVIOUS
      <3>1. e.positions[u].exit = d.positions[u].exit  BY <1>1, <1>14
      <3>2. d.positions[u].exit \in Rows(d) /\ d.orders[d.positions[u].exit].token = u
        BY <3>1 DEF Sound, PositionsOK
      <3> QED BY <1>6, <3>1, <3>2
    <2> QED BY <2>1, <2>2, <2>3 DEF PositionsOK
  <1>16. Covers(e)
    <2> SUFFICES ASSUME NEW u \in Tokens, e.positions[u].status = "OPEN",
                        InFlight(e, e.positions[u].exit)
                 PROVE  e.orders[e.positions[u].exit].size >= e.positions[u].size
      BY DEF Covers
    <2> DEFINE x == e.positions[u].exit
    <2>1. x # NoOrder /\ e.orders[x].status \in NonTerminal  BY DEF InFlight
    <2>2. x \in Rows(d) /\ d.orders[x].token = u /\ x \in OrderIds
      BY <1>6, <1>15, <2>1 DEF PositionsOK
    <2>3. d.orders[x].status \in NonTerminal /\ e.orders[x].size = d.orders[x].size
      BY <1>1, <1>2, <2>1, <2>2 DEF NonTerminal
    <2>4. e.positions[u] = d.positions[u]
      <3>1. CASE u # t  BY Zenon, <1>1, <3>1
      <3>2. CASE u = t
        <4>1. q.exit # NoOrder  BY Zenon, <2>1, <3>2
        <4>2. o \in SellIds /\ p.exit = o /\ s.status \in Terminal => (q.status = "OPEN" => x = o)
          BY <1>14, <3>2, <4>1
        <4>3. ~(s.status \in Terminal /\ x = o)  BY <2>1 DEF Terminal, NonTerminal
        <4> QED BY Zenon, <1>7, <1>9, <3>2, <4>1, <4>2, <4>3
      <3> QED BY <3>1, <3>2
    <2>5. InFlight(d, d.positions[u].exit)  BY <2>1, <2>3, <2>4 DEF InFlight
    <2> QED BY <2>3, <2>4, <2>5 DEF Sound, Covers
  <1>17. Accounted(e)
    <2> SUFFICES ASSUME NEW u \in Tokens, e.positions[u].status # "ABSENT"
                 PROVE  Sold(e, u) + Held(e.positions[u]) >= e.orders[u].filled
      BY DEF Accounted
    <2>1. Sold(d, u) \in Int /\ Sold(e, u) \in Int
      BY <1>1, <1>12, SoldInt DEF Sound, RowsOK
    <2>2. u \in OrderIds /\ d.orders[u] \in OrderRow /\ d.orders[u].filled \in Nat
          /\ d.positions[u] \in PositionRow /\ d.positions[u].size \in Nat
          /\ s.filled \in Nat
      BY <1>1 DEF OrderIds, GoodDb, Database, OrderRow, PositionRow
    <2>3. IF o \in SellIds /\ t = u /\ s.status \in Terminal
          THEN Sold(e, u) = s.filled + Sold(d, u)
          ELSE Sold(e, u) = Sold(d, u)
      BY <1>1, <1>2, OneRowSold DEF Sound, RowsOK, Terminal
    <2>4. u # o => e.orders[u] = d.orders[u]  BY <1>1, <2>2
    <2>5. CASE u # t
      <3>1. e.positions[u] = d.positions[u] /\ u # o  BY <1>1, <1>3, <2>5
      <3> QED BY <2>1, <2>3, <2>4, <2>5, <3>1 DEF Sound, Accounted
    <2>6. CASE u = t /\ o \in SellIds
      <3>1. p.status # "ABSENT" /\ u # o  BY <1>1, <1>5, <2>6
      <3>2. Sold(d, u) + Held(p) >= d.orders[u].filled  BY <2>6, <3>1 DEF Sound, Accounted
      <3>3. CASE q = p
        <4>1. Held(p) \in Nat  BY <2>2, <2>6 DEF Held
        <4> QED BY <2>1, <2>2, <2>3, <2>4, <2>6, <3>1, <3>2, <3>3, <4>1
      <3>4. CASE q # p
        <4>1. /\ p.exit = o /\ s.status \in Terminal /\ s.filled = n
              /\ \/ q = ClosePosition(p, r.price, n) /\ n >= r.size
                 \/ q = ReducePosition(p, r.price, n)
          BY <1>1, <1>7, <2>6, <3>4
        <4>2. Sold(e, u) = n + Sold(d, u)  BY <2>3, <2>6, <4>1
        <4>3. p.status = "OPEN" => r.size >= p.size
          <5>1. InFlight(d, p.exit)  BY <1>1, <1>2, <4>1 DEF InFlight, NonTerminal
          <5> QED BY <1>3, <4>1, <5>1 DEF Sound, Covers
        <4>4. r.size \in Nat  BY <1>1 DEF OrderRow
        <4>5. n + Held(q) >= Held(p) /\ Held(p) \in Nat /\ Held(q) \in Nat
          <5>1. CASE q = ClosePosition(p, r.price, n) /\ n >= r.size
            <6>1. q.status = "CLOSED"  BY <1>4, <5>1, SellOff
            <6> QED BY <1>8, <4>3, <4>4, <5>1, <6>1 DEF Held
          <5>2. CASE q = ReducePosition(p, r.price, n)
            <6>1. p.size = Lesser(n, p.size) => q.status = "CLOSED"  BY <1>4, <5>2, SellOff
            <6>2. p.size # Lesser(n, p.size) =>
                      q.status = p.status /\ q.size = p.size - Lesser(n, p.size)
              BY <1>4, <5>2, SellOff
            <6> QED BY <1>8, <6>1, <6>2 DEF Held
          <5> QED BY <4>1, <5>1, <5>2
        <4> HIDE DEF q, p
        <4> QED BY <1>8, <2>1, <2>2, <2>4, <2>6, <3>1, <3>2, <4>2, <4>5 DEF q
      <3> QED BY <3>3, <3>4
    <2>7. CASE u = t /\ o \in Tokens
      <3>1. p.status = "ABSENT" /\ u = o /\ o \notin SellIds  BY <1>1, <1>3, <1>5, <2>7
      <3>2. s.filled = n /\ Held(e.positions[u]) = n
        BY <1>5, <1>7, <1>9, <2>7, <3>1 DEF Held
      <3>3. Finished(d, u) = {}
        <4>1. \A x \in Finished(d, u) : x \in Rows(d) /\ d.orders[x].token = u
          BY SoldInt DEF Sound, RowsOK, Finished
        <4> QED BY <2>7, <3>1, <4>1 DEF Sound, PositionsOK
      <3>4. Sold(d, u) = 0  BY <3>3, SumEmpty DEF Sold
      <3> QED BY <1>8, <2>3, <3>1, <3>2, <3>4
    <2> QED BY <2>5, <2>6, <2>7 DEF OrderIds
  <1>18. \A x \in OrderIds \ {o} : Alive(d, x) => Alive(e, x)  BY <1>1 DEF Alive
  <1> QED BY <1>11, <1>12, <1>13, <1>15, <1>16, <1>17, <1>18 DEF Sound

-----------------------------------------------------------------------------
(* What a task writes that submits an exit *)

\* The row and the link that submit_exit_order inserts.
LEMMA InsertExitRows ==
    ASSUME NEW d, GoodDb(d), NEW t \in Tokens, NEW o \in SellIds, NEW n, NEW price, NEW policy
    PROVE  LET e == InsertExit(d, t, o, n, price, policy)
               r == e.orders[o]
               p == d.positions[t]
               q == e.positions[t]
           IN  /\ r.status = "PENDING_SUBMIT" /\ r.token = t /\ r.pm = NoPm /\ r.size = n
               /\ r.filled = 0 /\ r.price = price
               /\ \A x \in OrderIds \ {o} : e.orders[x] = d.orders[x]
               /\ q.exit = o /\ q.status = p.status /\ q.size = p.size
               /\ q.partial = p.partial /\ q.pnl = p.pnl
               /\ \A u \in Tokens \ {t} : e.positions[u] = d.positions[u]
  <1> DEFINE row == [status |-> "PENDING_SUBMIT", token |-> t, pm |-> NoPm, size |-> n,
                     filled |-> 0, price |-> price, policy |-> policy]
             f   == SetOrder(d, o, row)
             q   == [d.positions[t] EXCEPT !.exit = o]
             e   == InsertExit(d, t, o, n, price, policy)
  <1>1. o \in OrderIds /\ d.positions[t] \in PositionRow
    BY DEF OrderIds, GoodDb, Database
  <1>2. /\ row.status = "PENDING_SUBMIT" /\ row.token = t /\ row.pm = NoPm /\ row.size = n
        /\ row.filled = 0 /\ row.price = price
    OBVIOUS
  <1>3. /\ q.exit = o /\ q.status = d.positions[t].status /\ q.size = d.positions[t].size
        /\ q.partial = d.positions[t].partial /\ q.pnl = d.positions[t].pnl
    BY <1>1 DEF PositionRow
  <1>4. /\ e.orders = f.orders
        /\ e.positions[t] = q /\ \A u \in Tokens \ {t} : e.positions[u] = d.positions[u]
    BY DEF InsertExit, SetOrder, SetPosition, GoodDb, Database
  <1> HIDE DEF row, q, e
  <1>5. /\ f.orders[o] = row
        /\ \A x \in OrderIds \ {o} : f.orders[x] = d.orders[x]
    BY <1>1, SetOrderRow
  <1> QED BY <1>2, <1>3, <1>4, <1>5 DEF e

\* A new row for what is left of a position, or more, keeps a database sound.
LEMMA InsertSound ==
    ASSUME NEW d, GoodDb(d), NEW k, Sound(d, k), NEW t \in Tokens, NEW o \in SellIds,
           d.orders[o].status = "ABSENT", NEW n \in 0 .. Lot, n > 0, NEW price \in Prices,
           NEW policy \in {"ride", "cancel"}, d.positions[t].status # "ABSENT",
           d.positions[t].status = "OPEN" => n >= d.positions[t].size,
           NEW e, e = InsertExit(d, t, o, n, price, policy)
    PROVE  /\ GoodDb(e) /\ Sound(e, k) /\ SameHoldings(d, e)
           /\ KeepsAlive(d, e)
  <1>1. GoodDb(e)  BY InsertExitGood
  <1>2. /\ e.orders[o].status = "PENDING_SUBMIT" /\ e.orders[o].token = t
        /\ e.orders[o].pm = NoPm /\ e.orders[o].size = n
        /\ \A x \in OrderIds \ {o} : e.orders[x] = d.orders[x]
        /\ e.positions[t].exit = o /\ e.positions[t].status = d.positions[t].status
        /\ e.positions[t].size = d.positions[t].size
        /\ \A u \in Tokens \ {t} : e.positions[u] = d.positions[u]
    BY InsertExitRows
  <1>3. /\ Tokens \cap SellIds = {} /\ o \in OrderIds /\ NoOrder \notin OrderIds
    BY DbAssumption DEF OrderIds
  <1>4. SameHoldings(d, e)  BY <1>2 DEF SameHoldings
  <1>5. KeepsAlive(d, e)  BY <1>2 DEF KeepsAlive, Alive
  <1>6. Rows(e) = Rows(d) \cup {o} /\ o \notin Rows(d)
    BY <1>2 DEF Rows, OrderIds
  <1>7. \A x \in Rows(d) : x \in OrderIds /\ e.orders[x] = d.orders[x]
    BY <1>2, <1>6 DEF Rows, OrderIds
  <1>8. \A u \in Tokens : u \in OrderIds /\ e.orders[u] = d.orders[u]
    BY <1>2, <1>3 DEF OrderIds
  <1>9. RowsOK(e)
    <2>1. IsFiniteSet(Rows(e))  BY <1>6, FS_AddElement DEF Sound, RowsOK
    <2> QED BY <1>2, <1>6, <1>7, <1>8, <2>1 DEF Sound, RowsOK
  <1>10. NamesOK(e, k)  BY <1>2, <1>6, <1>7 DEF Sound, NamesOK
  <1>11. PositionsOK(e)
    <2>1. \A u \in Tokens : e.positions[u].status # "ABSENT" => e.orders[u].status \in Terminal
      BY <1>2, <1>8 DEF Sound, PositionsOK
    <2>2. \A x \in Rows(e) : e.positions[e.orders[x].token].status # "ABSENT"
      BY <1>2, <1>6, <1>7 DEF Sound, PositionsOK, RowsOK
    <2>3. \A u \in Tokens : e.positions[u].exit # NoOrder =>
              e.positions[u].exit \in Rows(e) /\ e.orders[e.positions[u].exit].token = u
      BY <1>2, <1>6, <1>7 DEF Sound, PositionsOK
    <2> QED BY <2>1, <2>2, <2>3 DEF PositionsOK
  <1>12. Covers(e)
    <2> SUFFICES ASSUME NEW u \in Tokens, e.positions[u].status = "OPEN",
                        InFlight(e, e.positions[u].exit)
                 PROVE  e.orders[e.positions[u].exit].size >= e.positions[u].size
      BY DEF Covers
    <2>1. CASE u = t  BY <1>2, <2>1
    <2>2. CASE u # t
      <3>1. e.positions[u] = d.positions[u]  BY <1>2, <2>2
      <3>2. d.positions[u].exit \in Rows(d)  BY <3>1 DEF InFlight, Sound, PositionsOK
      <3> QED BY <1>7, <3>1, <3>2 DEF InFlight, Sound, Covers
    <2> QED BY <2>1, <2>2
  <1>13. Accounted(e)
    <2> SUFFICES ASSUME NEW u \in Tokens, e.positions[u].status # "ABSENT"
                 PROVE  Sold(e, u) + Held(e.positions[u]) >= e.orders[u].filled
      BY DEF Accounted
    <2>1. Sold(e, u) = Sold(d, u)
      BY <1>1, <1>2, <1>3, OneRowSold DEF Sound, RowsOK, Terminal
    <2>2. Held(e.positions[u]) = Held(d.positions[u]) /\ d.positions[u].status # "ABSENT"
      BY <1>4 DEF SameHoldings, Held
    <2> QED BY <1>8, <2>1, <2>2 DEF Sound, Accounted
  <1> QED BY <1>1, <1>4, <1>5, <1>9, <1>10, <1>11, <1>12, <1>13 DEF Sound

\* An answer to a submission changes the row's status and its id.
AnswerOf(d, e, o) ==
    LET r == d.orders[o]
        s == e.orders[o]
    IN  /\ s.token = r.token /\ s.size = r.size /\ s.price = r.price /\ s.filled = r.filled
        /\ s.policy = r.policy
        /\ s.status \in {"SUBMITTED", "FAILED"}
        /\ s.status = "FAILED" => s.pm = r.pm
        /\ \A x \in OrderIds \ {o} : e.orders[x] = d.orders[x]
        /\ e.positions = d.positions

LEMMA AnswerRows ==
    ASSUME NEW d, GoodDb(d), NEW o \in OrderIds, NEW m
    PROVE  /\ AnswerOf(d, Acked(d, o, m), o) /\ Acked(d, o, m).orders[o].pm = m
           /\ Acked(d, o, m).orders[o].status = "SUBMITTED"
           /\ AnswerOf(d, Refused(d, o), o) /\ Refused(d, o).orders[o].pm = d.orders[o].pm
           /\ Refused(d, o).orders[o].status = "FAILED"
  <1> DEFINE a == [d.orders[o] EXCEPT !.status = "SUBMITTED", !.pm = m]
             b == [d.orders[o] EXCEPT !.status = "FAILED"]
             r == d.orders[o]
  <1>1. r \in OrderRow  BY DEF GoodDb, Database
  <1>2. /\ a.status = "SUBMITTED" /\ a.pm = m /\ a.token = r.token /\ a.size = r.size
        /\ a.price = r.price /\ a.filled = r.filled /\ a.policy = r.policy
    BY <1>1 DEF OrderRow
  <1>3. /\ b.status = "FAILED" /\ b.pm = r.pm /\ b.token = r.token /\ b.size = r.size
        /\ b.price = r.price /\ b.filled = r.filled /\ b.policy = r.policy
    BY <1>1 DEF OrderRow
  <1>4. Acked(d, o, m) = SetOrder(d, o, a) /\ Refused(d, o) = SetOrder(d, o, b)
    BY DEF Acked, Refused
  <1> HIDE DEF a, b
  <1>5. /\ SetOrder(d, o, a).orders[o] = a /\ SetOrder(d, o, a).positions = d.positions
        /\ \A x \in OrderIds \ {o} : SetOrder(d, o, a).orders[x] = d.orders[x]
    BY SetOrderRow
  <1>6. /\ SetOrder(d, o, b).orders[o] = b /\ SetOrder(d, o, b).positions = d.positions
        /\ \A x \in OrderIds \ {o} : SetOrder(d, o, b).orders[x] = d.orders[x]
    BY SetOrderRow
  <1> QED BY <1>2, <1>3, <1>4, <1>5, <1>6 DEF AnswerOf

\* An answer keeps a database sound if the id is that of the order as it is listed.
LEMMA AnswerSound ==
    ASSUME NEW d, GoodDb(d), NEW k, Sound(d, k), NEW o \in Rows(d), Fresh(d, o),
           NEW e, GoodDb(e), AnswerOf(d, e, o),
           e.orders[o].status = "SUBMITTED" =>
               k[e.orders[o].pm].size = e.orders[o].size /\ k[e.orders[o].pm].state # "unknown"
    PROVE  /\ Sound(e, k) /\ SameHoldings(d, e)
           /\ KeepsAlive(d, e)
  <1>1. /\ o \in SellIds /\ o \in OrderIds /\ Tokens \cap SellIds = {} /\ Lot \in Nat
        /\ d.orders[o].status = "PENDING_SUBMIT" /\ d.orders[o].pm = NoPm
        /\ e.orders[o].filled = 0
    BY DbAssumption DEF Rows, OrderIds, Fresh, AnswerOf
  <1>2. /\ \A x \in OrderIds \ {o} : e.orders[x] = d.orders[x]
        /\ e.positions = d.positions
        /\ e.orders[o].token = d.orders[o].token /\ e.orders[o].size = d.orders[o].size
        /\ e.orders[o].status \in {"SUBMITTED", "FAILED"}
    BY DEF AnswerOf
  <1>3. Rows(e) = Rows(d) /\ \A x \in Rows(d) : x \in OrderIds
    BY <1>1, <1>2 DEF Rows, OrderIds
  <1>4. \A u \in Tokens : u \in OrderIds /\ e.orders[u] = d.orders[u]
    BY <1>1, <1>2 DEF OrderIds
  <1>5. RowsOK(e)  BY <1>2, <1>3, <1>4 DEF Sound, RowsOK
  <1>6. NamesOK(e, k)  BY <1>1, <1>2, <1>3 DEF Sound, NamesOK, AnswerOf
  <1>7. PositionsOK(e)  BY <1>2, <1>3, <1>4 DEF Sound, PositionsOK
  <1>8. Covers(e)
    <2> SUFFICES ASSUME NEW u \in Tokens, e.positions[u].status = "OPEN",
                        InFlight(e, e.positions[u].exit)
                 PROVE  e.orders[e.positions[u].exit].size >= e.positions[u].size
      BY DEF Covers
    <2> DEFINE x == e.positions[u].exit
    <2>1. x \in OrderIds  BY <1>3, <1>7 DEF InFlight, PositionsOK
    <2>2. d.orders[x].status \in NonTerminal /\ e.orders[x].size = d.orders[x].size
      BY <1>1, <1>2, <2>1 DEF InFlight, NonTerminal
    <2>3. InFlight(d, d.positions[u].exit)  BY <1>2, <2>2 DEF InFlight
    <2> QED BY <1>2, <2>2, <2>3 DEF Sound, Covers
  <1>9. Accounted(e)
    <2> SUFFICES ASSUME NEW u \in Tokens, e.positions[u].status # "ABSENT"
                 PROVE  Sold(e, u) + Held(e.positions[u]) >= e.orders[u].filled
      BY DEF Accounted
    <2>1. Sold(d, u) \in Int  BY SoldInt DEF Sound, RowsOK
    <2>2. Sold(e, u) = 0 + Sold(d, u) \/ Sold(e, u) = Sold(d, u)
      BY <1>1, <1>2, OneRowSold DEF Sound, RowsOK, Terminal
    <2>3. Sold(e, u) = Sold(d, u)  BY <2>1, <2>2
    <2> QED BY <1>2, <1>4, <2>3 DEF Sound, Accounted
  <1>10. SameHoldings(d, e)  BY <1>2 DEF SameHoldings
  <1>11. KeepsAlive(d, e)  BY <1>1, <1>2 DEF KeepsAlive, Alive
  <1> QED BY <1>5, <1>6, <1>7, <1>8, <1>9, <1>10, <1>11 DEF Sound

-----------------------------------------------------------------------------
(***************************************************************************)
(* The steps by what they do to the ledgers: a mark of the poller, a write  *)
(* of a task that submits an exit, a commit, a rollback, or nothing.        *)
(***************************************************************************)
\* The CLOB keeps the orders it lists, in their sizes.
Lists(k, l) ==
    \A m \in PmIds : k[m].state # "unknown" => l[m].state # "unknown" /\ l[m].size = k[m].size

Whole(k) == \A m \in PmIds : k[m].state = "filled" => k[m].matched = k[m].size

\* A sound database stays sound as the CLOB goes on.
LEMMA ListsSound ==
    ASSUME NEW d, GoodDb(d), NEW k, NEW l, Sound(d, k), Lists(k, l)
    PROVE  Sound(d, l)
  <1>1. \A o \in Rows(d) : o \in OrderIds /\ d.orders[o] \in OrderRow
    BY DEF Rows, OrderIds, GoodDb, Database
  <1>2. \A o \in Rows(d) : d.orders[o].pm \in PmIds \cup {NoPm}  BY <1>1 DEF OrderRow
  <1>3. NamesOK(d, l)  BY <1>2 DEF Sound, NamesOK, Lists
  <1> QED BY <1>3 DEF Sound

\* Losing shares twice is losing shares.
LEMMA ShrinksTwice ==
    ASSUME NEW d, NEW e, NEW f, GoodDb(d), GoodDb(e), GoodDb(f), Shrinks(d, e), Shrinks(e, f)
    PROVE  Shrinks(d, f)
  <1> SUFFICES ASSUME NEW t \in Tokens, d.positions[t].status # "ABSENT"
               PROVE  /\ f.positions[t].status # "ABSENT"
                      /\ f.positions[t].status = "OPEN" =>
                             /\ d.positions[t].status = "OPEN"
                             /\ f.positions[t].size <= d.positions[t].size
    BY DEF Shrinks
  <1>1. /\ d.positions[t] \in PositionRow /\ e.positions[t] \in PositionRow
        /\ f.positions[t] \in PositionRow /\ Lot \in Nat
    BY DbAssumption DEF GoodDb, Database
  <1>2. /\ d.positions[t].size \in Nat /\ e.positions[t].size \in Nat
        /\ f.positions[t].size \in Nat
    BY <1>1 DEF PositionRow
  <1> QED BY <1>2 DEF Shrinks

\* Having the same holdings is losing nothing.
LEMMA SameShrinks ==
    ASSUME NEW d, NEW e, GoodDb(d), SameHoldings(d, e)
    PROVE  Shrinks(d, e)
  <1> SUFFICES ASSUME NEW t \in Tokens
               PROVE  d.positions[t].size <= d.positions[t].size
    BY DEF Shrinks, SameHoldings
  <1>1. d.positions[t] \in PositionRow /\ Lot \in Nat  BY DbAssumption DEF GoodDb, Database
  <1>2. d.positions[t].size \in Nat  BY <1>1 DEF PositionRow
  <1> QED BY <1>2

\* Who is placing an order holds the write lock.
LEMMA PlacingWriter ==
    ASSUME Inv, NEW o, Placing(o)
    PROVE  \/ manager.pc = "place" /\ manager.row = o /\ writer = "manager"
           \/ \E c \in Closers : closer[c].pc = "place" /\ closer[c].row = o /\ writer = c
  BY DEF Placing, Inv, ManagerInv, CloserInv, CloserOK

\* The names of the tasks differ.
LEMMA TaskNames ==
    /\ NoTask # "poller" /\ NoTask # "manager" /\ "poller" # "manager"
    /\ \A c \in Closers : c # NoTask /\ c # "poller" /\ c # "manager"
  BY DbAssumption DEF Tasks

\* The poller marks an order of its poll.
LEMMA PollerMarks ==
    ASSUME Inv, SharesInv, NEW o \in poller.todo, NEW n \in 0 .. Lot, NEW e,
           Marks(tx, e, o, n), Write("poller", e),
           o \in SellIds /\ e.orders[o].status = "FILLED" => n >= tx.orders[o].size,
           Lists(clob, clob'), Whole(clob'), UNCHANGED managerVars,
           poller'.todo \subseteq poller.todo, o \in poller'.todo => Alive(e, o),
           poller'.pc = "cancel" => poller'.seen = e.orders[poller'.cur].filled,
           poller'.pc # "idle"
    PROVE  SharesInv'
  <1>1. o \in OrderIds /\ Alive(db, o) /\ Alive(tx, o) /\ poller.todo \subseteq OrderIds
    BY TodoNamed DEF SharesInv, TodoInv
  <1>2. /\ GoodDb(db) /\ GoodDb(tx) /\ GoodDb(e)
        /\ tx' = e /\ db' = db /\ writer' = "poller" /\ writer \in {NoTask, "poller"}
    BY DEF Inv, DbInv, Marks, Write
  <1>3. Sound(db, clob) /\ Sound(tx, clob) /\ Shrinks(db, tx)  BY DEF SharesInv, LedgersInv
  <1>4. /\ Sound(e, clob) /\ Shrinks(tx, e)
        /\ \A x \in OrderIds \ {o} : Alive(tx, x) => Alive(e, x)
    BY <1>1, <1>2, <1>3, MarksSound
  <1>5. LedgersInv'
    <2>1. Sound(db, clob') /\ Sound(e, clob')  BY <1>2, <1>3, <1>4, ListsSound
    <2>2. Shrinks(db, e)  BY <1>2, <1>3, <1>4, ShrinksTwice
    <2> QED BY <1>2, <2>1, <2>2, TaskNames DEF LedgersInv
  <1>6. TodoInv'  BY <1>1, <1>2, <1>4 DEF SharesInv, TodoInv
  <1>7. PendingInv'
    <2>1. \A x \in SellIds : e.orders[x].status = "PENDING_SUBMIT" =>
                                 tx.orders[x].status = "PENDING_SUBMIT"
      BY <1>1 DEF Marks, RowMarked, PositionMarked, Alive, OrderIds
    <2>2. \A x \in SellIds : Placing(x)' <=> Placing(x)  BY DEF Placing, managerVars
    <2> QED BY <1>2, <2>1, <2>2 DEF SharesInv, PendingInv
  <1>8. OffersInv'  BY <1>2 DEF SharesInv, OffersInv, Offers, managerVars
  <1>9. WholeInv'  BY DEF Whole, WholeInv
  <1>10. CancelInv'  BY <1>2 DEF CancelInv
  <1> QED BY <1>5, <1>6, <1>7, <1>8, <1>9, <1>10 DEF SharesInv

\* A task that submits an exit writes its transaction.
LEMMA TaskWrites ==
    ASSUME Inv, SharesInv, NEW task, task # "poller", task # NoTask, NEW e, Write(task, e),
           GoodDb(e), Sound(e, clob'), SameHoldings(tx, e), Lists(clob, clob'), Whole(clob'),
           KeepsAlive(tx, e), UNCHANGED pollerVars
    PROVE  LedgersInv' /\ TodoInv' /\ WholeInv' /\ CancelInv'
  <1>1. /\ GoodDb(db) /\ GoodDb(tx) /\ poller.todo \subseteq OrderIds
        /\ tx' = e /\ db' = db /\ writer' = task /\ writer \in {NoTask, task}
    BY DEF Inv, DbInv, TypeOK, PollerTypeOK, PollerType, Write
  <1>2. SameHoldings(db, tx)  BY <1>1, TaskNames DEF SharesInv, LedgersInv
  <1>3. SameHoldings(db, e) /\ KeepsAlive(db, e)
    BY <1>1, <1>2, TaskNames DEF SameHoldings, SharesInv, LedgersInv, KeepsAlive
  <1>4. Shrinks(db, e)  BY <1>1, <1>3, SameShrinks
  <1>5. Sound(db, clob')  BY <1>1, ListsSound DEF SharesInv, LedgersInv
  <1>6. LedgersInv'  BY <1>1, <1>3, <1>4, <1>5 DEF LedgersInv
  <1>7. TodoInv'  BY <1>1 DEF SharesInv, TodoInv, pollerVars, KeepsAlive
  <1>8. CancelInv'  BY <1>1, TaskNames DEF CancelInv, Inv, PollerInv, pollerVars
  <1> QED BY <1>6, <1>7, <1>8 DEF Whole, WholeInv

\* A commit by a task that is not placing an order.
LEMMA Commits ==
    ASSUME Inv, SharesInv, NEW task \in Tasks, Commit(task), UNCHANGED clob,
           writer = task => \A o \in SellIds : ~Placing(o)
    PROVE  /\ LedgersInv' /\ WholeInv'
           /\ \A o \in poller.todo : Alive(db', o) /\ Alive(tx', o)
           /\ \A o \in SellIds : db'.orders[o].status # "PENDING_SUBMIT"
           /\ UNCHANGED tx
           /\ \A t \in Tokens, n \in 0 .. Lot : Offers(t, n) => Offers(t, n)'
  <1>1. GoodDb(db) /\ GoodDb(tx) /\ tx' = tx /\ WholeInv'
    BY DEF Inv, DbInv, Commit, SharesInv, WholeInv
  <1>2. CASE writer = task
    <2>1. db' = tx /\ writer' = NoTask  BY <1>2 DEF Commit, View
    <2>2. SameHoldings(tx, tx) /\ Shrinks(tx, tx) /\ KeepsAlive(tx, tx)
      BY <1>1, SameShrinks DEF SameHoldings, KeepsAlive
    <2>3. LedgersInv'  BY <1>1, <2>1, <2>2 DEF SharesInv, LedgersInv
    <2>4. ASSUME NEW t \in Tokens, NEW n \in 0 .. Lot, Offers(t, n)  PROVE  Offers(t, n)'
      <3>1. db.positions[t] \in PositionRow /\ tx.positions[t] \in PositionRow /\ Lot \in Nat
        BY <1>1, DbAssumption DEF GoodDb, Database
      <3>2. db.positions[t].size \in Nat /\ tx.positions[t].size \in Nat /\ n \in Nat
        BY <3>1 DEF PositionRow
      <3> QED BY <2>1, <2>4, <3>2 DEF Offers, SharesInv, LedgersInv, Shrinks
    <2> QED BY <1>1, <1>2, <2>1, <2>3, <2>4 DEF SharesInv, TodoInv, PendingInv
  <1>3. CASE writer # task
    <2>1. db' = db /\ writer' = writer  BY <1>3 DEF Commit, View
    <2>2. LedgersInv'  BY <1>1, <2>1 DEF SharesInv, LedgersInv
    <2> QED BY <1>1, <2>1, <2>2 DEF SharesInv, TodoInv, PendingInv, Offers
  <1> QED BY <1>2, <1>3

\* A rollback of the poller's transaction.
LEMMA Rollbacks ==
    ASSUME Inv, SharesInv, Rollback("poller"), Lists(clob, clob'), Whole(clob'),
           UNCHANGED managerVars
    PROVE  LedgersInv' /\ WholeInv' /\ PendingInv' /\ OffersInv' /\ UNCHANGED db
           /\ tx' \in {db, tx}
  <1>1. GoodDb(db) /\ GoodDb(tx) /\ db' = db /\ tx' \in {db, tx}
    BY DEF Inv, DbInv, Rollback
  <1>2. Sound(db, clob') /\ Sound(tx, clob')
    BY <1>1, ListsSound DEF SharesInv, LedgersInv
  <1>3. SameHoldings(db, db) /\ Shrinks(db, db) /\ KeepsAlive(db, db)
    BY <1>1, SameShrinks DEF SameHoldings, KeepsAlive
  <1>4. \/ tx' = db /\ writer' = NoTask
        \/ tx' = tx /\ writer' = writer
    BY DEF Rollback
  <1>5. LedgersInv'  BY <1>1, <1>2, <1>3, <1>4 DEF SharesInv, LedgersInv
  <1>6. \A x \in SellIds : Placing(x)' <=> Placing(x)  BY DEF Placing, managerVars
  <1>7. PendingInv'  BY <1>1, <1>6 DEF SharesInv, PendingInv
  <1>8. OffersInv'  BY <1>1 DEF SharesInv, OffersInv, Offers, managerVars
  <1> QED BY <1>1, <1>5, <1>7, <1>8 DEF Whole, WholeInv

\* A step that leaves the ledgers alone.
LEMMA Reads ==
    ASSUME Inv, SharesInv, UNCHANGED dbVars, Lists(clob, clob'), Whole(clob')
    PROVE  LedgersInv' /\ WholeInv'
  <1>1. db' = db /\ tx' = tx /\ writer' = writer /\ GoodDb(db) /\ GoodDb(tx)
    BY DEF dbVars, Inv, DbInv
  <1>2. Sound(db, clob') /\ Sound(tx, clob')
    BY <1>1, ListsSound DEF SharesInv, LedgersInv
  <1> QED BY <1>1, <1>2 DEF SharesInv, LedgersInv, Whole, WholeInv

\* What the tasks keep is worth what it was as long as they and the database stay.
LEMMA TasksStay ==
    ASSUME SharesInv, UNCHANGED <<db, managerVars>>, UNCHANGED tx
    PROVE  PendingInv' /\ OffersInv'
  <1>1. \A x \in SellIds : Placing(x)' <=> Placing(x)  BY DEF Placing, managerVars
  <1> QED BY <1>1 DEF SharesInv, PendingInv, OffersInv, Offers, managerVars

\* An untouched CLOB lists what it did.
LEMMA ClobSame ==
    ASSUME Inv, SharesInv, UNCHANGED clob
    PROVE  Lists(clob, clob') /\ Whole(clob')
  BY DEF Lists, Whole, SharesInv, WholeInv

-----------------------------------------------------------------------------
(* The order poller *)

\* A cancellation at the CLOB keeps the orders it lists.
LEMMA CancelingLists ==
    ASSUME Inv, SharesInv, NEW o \in poller.todo, Canceling(o) \/ UNCHANGED clob
    PROVE  Lists(clob, clob') /\ Whole(clob')
  <1>1. CASE UNCHANGED clob  BY <1>1, ClobSame
  <1>2. CASE Canceling(o)
    <2> DEFINE m == tx.orders[o].pm
               k == [clob[m] EXCEPT !.state = "canceled"]
    <2>1. m \in PmIds /\ clob[m] \in ClobOrder /\ clob \in [PmIds -> ClobOrder]
      BY TodoNamed DEF AtClob, Inv, TypeOK, DbTypeOK
    <2>2. k.state = "canceled" /\ k.size = clob[m].size  BY <2>1 DEF ClobOrder
    <2>3. clob' = [clob EXCEPT ![m] = k]  BY <1>2 DEF Canceling
    <2> HIDE DEF k, m
    <2>4. clob'[m] = k /\ \A q \in PmIds \ {m} : clob'[q] = clob[q]  BY <2>1, <2>3
    <2> QED BY <2>2, <2>4 DEF Lists, Whole, SharesInv, WholeInv
  <1> QED BY <1>1, <1>2

\* An order of a poll: what is known of it.
LEMMA TodoKnown ==
    ASSUME Inv, SharesInv, NEW o \in poller.todo
    PROVE  /\ GoodDb(tx) /\ RowsOK(tx) /\ o \in OrderIds
           /\ AtClob(o).matched \in 0 .. Lot /\ AtClob(o).matched >= tx.orders[o].filled
           /\ tx.orders[o].filled \in 0 .. Lot /\ Lot \in Nat
           /\ AtClob(o).state = "filled" =>
                  /\ AtClob(o).matched > 0
                  /\ o \in SellIds => AtClob(o).matched >= tx.orders[o].size
  <1>1. /\ o \in OrderIds /\ tx.orders[o].pm \in PmIds /\ tx.orders[o] \in OrderRow
        /\ AtClob(o) \in ClobOrder /\ AtClob(o).matched \in 0 .. Lot /\ Lot \in Nat
    BY TodoNamed, DbAssumption
  <1>2. tx.orders[o].pm # NoPm  BY <1>1, DbAssumption
  <1>3. tx.orders[o].filled \in 0 .. Lot /\ tx.orders[o].size \in 0 .. Lot
    BY <1>1 DEF OrderRow
  <1>4. tx.orders[o].filled <= AtClob(o).matched
    BY <1>1, <1>2 DEF Inv, DbInv, Behind, AtClob
  <1>5. ASSUME AtClob(o).state = "filled"
        PROVE  /\ AtClob(o).matched > 0
               /\ o \in SellIds => AtClob(o).matched >= tx.orders[o].size
    <2>1. AtClob(o).matched > 0 /\ AtClob(o).matched = AtClob(o).size
      BY <1>1, <1>5 DEF AtClob, Inv, DbInv, GoodClob, SharesInv, WholeInv
    <2>2. ASSUME o \in SellIds  PROVE  AtClob(o).size = tx.orders[o].size
      <3>1. o \in Rows(tx)  BY <2>2 DEF Rows, SharesInv, TodoInv, Alive
      <3> QED BY <1>2, <3>1 DEF SharesInv, LedgersInv, Sound, NamesOK, AtClob
    <2> QED BY <1>1, <1>3, <2>1, <2>2
  <1> QED BY <1>1, <1>3, <1>4, <1>5 DEF Inv, DbInv, SharesInv, LedgersInv, Sound

\* When an order is done, the poll goes on without it.
LEMMA DoneTodo ==
    ASSUME NEW o, poller' = Done(o) \/ poller' = [Done(o) EXCEPT !.pc = "poll"]
    PROVE  /\ poller'.todo = poller.todo \ {o}
           /\ poller'.pc \in {poller.pc, "poll"}
  BY DEF Done, PollerIdle

\* A poll's answers keep the invariant, whichever they are.
LEMMA AnswersShares ==
    ASSUME Inv, SharesInv, NEW o \in OrderIds, UNCHANGED managerVars,
           PollNoEcho(o) \/ PollCanceled(o) \/ PollFilled(o)
    PROVE  SharesInv'
  <1> DEFINE n == AtClob(o).matched
  <1>1. /\ o \in poller.todo /\ poller.pc = "poll" /\ poller' = Done(o)
        /\ UNCHANGED clob
    BY DEF PollNoEcho, PollCanceled, PollFilled, Polls
  <1>2. /\ GoodDb(tx) /\ RowsOK(tx) /\ n \in 0 .. Lot /\ n >= tx.orders[o].filled
        /\ AtClob(o).state = "filled" => n > 0 /\ (o \in SellIds => n >= tx.orders[o].size)
    BY <1>1, TodoKnown
  <1>3. /\ Lists(clob, clob') /\ Whole(clob')
        /\ poller'.todo \subseteq poller.todo /\ o \notin poller'.todo /\ poller'.pc = "poll"
    BY <1>1, ClobSame, DoneTodo
  <1>4. PICK e : /\ Write("poller", e) /\ Marks(tx, e, o, n)
                 /\ e.orders[o].status = "FILLED" => AtClob(o).state = "filled" \/ e = tx
    <2> HIDE DEF n
    <2>1. CASE PollNoEcho(o)
      <3>1. Marks(tx, tx, o, n)
        BY <1>1, <1>2, TodoKnown DEF Marks, RowMarked, PositionMarked
      <3>2. Marks(tx, MarkCancelled(tx, o), o, n)  BY <1>2, MarkCancelledMarks
      <3>3. MarkCancelled(tx, o).orders[o].status = "CANCELLED"
        <4>1. tx.orders[o] \in OrderRow  BY <1>2 DEF GoodDb, Database
        <4> QED BY <1>2, <4>1, SetOrderRow DEF MarkCancelled, OrderRow
      <3> QED BY <2>1, <3>1, <3>2, <3>3 DEF PollNoEcho
    <2>2. CASE PollCanceled(o)
      <3> DEFINE e == MarkPartialCancelled(tx, o, n)
      <3>1. Write("poller", e)  BY <2>2 DEF PollCanceled, n
      <3>2. Marks(tx, e, o, n)  BY <1>2, MarkPartialCancelledMarks
      <3>3. e.orders[o].status # "FILLED"  BY <1>2, MarkPartialCancelledMarks
      <3> QED BY <3>1, <3>2, <3>3
    <2>3. CASE PollFilled(o)
      <3>1. AtClob(o).state = "filled" /\ Write("poller", MarkFilled(tx, o, n))
        BY <2>3 DEF PollFilled, n
      <3>2. Marks(tx, MarkFilled(tx, o, n), o, n)  BY <1>2, <3>1, MarkFilledMarks
      <3> QED BY <3>1, <3>2
    <2> QED BY <2>1, <2>2, <2>3
  <1>5. o \in SellIds /\ e.orders[o].status = "FILLED" => n >= tx.orders[o].size
    BY <1>1, <1>2, <1>4 DEF SharesInv, TodoInv, Alive
  <1> HIDE DEF n
  <1> QED BY <1>1, <1>2, <1>3, <1>4, <1>5, PollerMarks

\* Progress is recorded, and remembered for the cancel that may follow.
LEMMA PollLiveShares ==
    ASSUME Inv, SharesInv, NEW o \in OrderIds, PollLive(o), UNCHANGED managerVars
    PROVE  SharesInv'
  <1> DEFINE n == AtClob(o).matched
             e == MarkPartial(tx, o, n)
  <1>1. /\ o \in poller.todo /\ poller.pc = "poll" /\ Write("poller", e)
        /\ \/ poller' = Done(o)
           \/ poller' = [poller EXCEPT !.pc = "cancel", !.cur = o, !.seen = n]
        /\ UNCHANGED clob
    BY DEF PollLive, Polls
  <1>2. /\ GoodDb(tx) /\ n \in 0 .. Lot /\ n >= tx.orders[o].filled
        /\ tx.orders[o].filled \in 0 .. Lot /\ Lot \in Nat
    BY <1>1, TodoKnown
  <1>3. Lists(clob, clob') /\ Whole(clob')  BY <1>1, ClobSame
  <1>4. Marks(tx, e, o, n)  BY <1>2, MarkPartialMarks
  <1>5. Alive(tx, o)  BY <1>1 DEF SharesInv, TodoInv
  <1>6. Alive(e, o) /\ e.orders[o].filled = n /\ e.orders[o].status # "FILLED"
    <2> DEFINE row == [tx.orders[o] EXCEPT !.status = "PARTIAL", !.filled = n]
    <2>1. tx.orders[o] \in OrderRow  BY <1>2 DEF GoodDb, Database
    <2>2. row.status = "PARTIAL" /\ row.filled = n /\ row.pm = tx.orders[o].pm
      BY <2>1 DEF OrderRow
    <2> HIDE DEF row
    <2>3. SetOrder(tx, o, row).orders[o] = row  BY <1>2, SetOrderRow
    <2>4. e = IF n = 0 THEN tx ELSE SetOrder(tx, o, row)  BY DEF MarkPartial, row
    <2>5. n = 0 => tx.orders[o].filled = n  BY <1>2
    <2> HIDE DEF e, n
    <2> QED BY <1>5, <2>2, <2>3, <2>4, <2>5 DEF Alive
  <1> HIDE DEF e, n
  <1>7. /\ poller'.todo \subseteq poller.todo
        /\ poller'.pc = "cancel" => poller'.cur = o /\ poller'.seen = n
        /\ poller'.pc # "idle"
    <2>1. poller \in PollerType  BY DEF Inv, TypeOK, PollerTypeOK
    <2> QED BY <1>1, <2>1, DoneTodo DEF PollerType
  <1> QED BY <1>1, <1>2, <1>3, <1>4, <1>6, <1>7, PollerMarks

\* A cancel that is confirmed, of the poll or of the sweep, records the fill on record.
LEMMA CancelShares ==
    ASSUME Inv, SharesInv, NEW o \in poller.todo, Canceling(o), UNCHANGED managerVars,
           Write("poller", MarkPartialCancelled(tx, o, tx.orders[o].filled)),
           poller'.todo = poller.todo \ {o}, poller'.pc \in {"poll", "sweep"}
    PROVE  SharesInv'
  <1> DEFINE n == tx.orders[o].filled
             e == MarkPartialCancelled(tx, o, n)
  <1>1. GoodDb(tx) /\ n \in 0 .. Lot /\ n >= n /\ o \in OrderIds  BY TodoKnown
  <1>2. Marks(tx, e, o, n)  BY <1>1, MarkPartialCancelledMarks
  <1>3. Lists(clob, clob') /\ Whole(clob')  BY CancelingLists
  <1>4. e.orders[o].status # "FILLED"  BY <1>1, MarkPartialCancelledMarks
  <1>5. Write("poller", e)  OBVIOUS
  <1>6. poller'.todo \subseteq poller.todo /\ o \notin poller'.todo  OBVIOUS
  <1> HIDE DEF e, n
  <1> QED BY <1>1, <1>2, <1>3, <1>4, <1>5, <1>6, PollerMarks

\* The poller's steps that mark nothing.
LEMMA PollerRests ==
    ASSUME Inv, SharesInv, UNCHANGED managerVars,
           \/ PollStart \/ PollCommit \/ PollAbort \/ CancelNotAcked \/ ShutdownStart \/ SweepEnd
           \/ \E o \in OrderIds : Age(o) \/ SweepNotAcked(o)
    PROVE  SharesInv'
  <1>0. LiveRows(db) \subseteq OrderIds /\ \A o \in LiveRows(db) : Alive(db, o)
    BY DEF LiveRows, Alive
  <1>1. ASSUME NEW o \in OrderIds, Age(o)  PROVE  SharesInv'
    <2>1. UNCHANGED <<dbVars, clob, poller>>  BY <1>1 DEF Age
    <2>2. LedgersInv' /\ WholeInv'  BY <2>1, Reads, ClobSame
    <2>3. PendingInv' /\ OffersInv'  BY <2>1, TasksStay DEF dbVars
    <2> QED BY <2>1, <2>2, <2>3 DEF SharesInv, TodoInv, CancelInv, dbVars
  <1>2. CASE PollStart
    <2>1. UNCHANGED <<dbVars, clob>> /\ poller.pc = "idle"  BY <1>2 DEF PollStart
    <2>2. poller'.pc = "poll" /\ poller'.todo \subseteq LiveRows(db)
      BY <1>2 DEF PollStart, OldestOf, PollerIdle
    <2>3. LedgersInv' /\ WholeInv'  BY <2>1, Reads, ClobSame
    <2>4. PendingInv' /\ OffersInv'  BY <2>1, TasksStay DEF dbVars
    <2>5. writer # "poller"  BY <2>1 DEF SharesInv, CancelInv
    <2>6. \A o \in poller'.todo : Alive(db, o) /\ Alive(tx, o)
      BY <1>0, <2>2, <2>5 DEF SharesInv, LedgersInv, KeepsAlive
    <2>7. TodoInv'  BY <2>1, <2>6 DEF TodoInv, dbVars
    <2> QED BY <2>2, <2>3, <2>4, <2>7 DEF SharesInv, CancelInv
  <1>3. ASSUME Commit("poller"), UNCHANGED clob, poller' = PollerIdle  PROVE  SharesInv'
    <2>1. writer = "poller" => \A o \in SellIds : ~Placing(o)  BY PlacingWriter, TaskNames
    <2>2. "poller" \in Tasks  BY DEF Tasks
    <2>3. /\ LedgersInv' /\ WholeInv' /\ UNCHANGED tx
          /\ \A o \in SellIds : db'.orders[o].status # "PENDING_SUBMIT"
          /\ \A t \in Tokens, n \in 0 .. Lot : Offers(t, n) => Offers(t, n)'
      BY <1>3, <2>1, <2>2, Commits
    <2>4. PendingInv'
      <3>1. \A x \in SellIds : Placing(x)' <=> Placing(x)  BY DEF Placing, managerVars
      <3> QED BY <2>3, <3>1 DEF SharesInv, PendingInv
    <2>5. OffersInv'
      <3>1. /\ manager.pc = "submit" => manager.cur \in Tokens /\ manager.size \in 0 .. Lot
            /\ \A c \in Closers : closer[c].pc \in {"check", "submit"} =>
                   closer[c].cur \in Tokens /\ closer[c].size \in 0 .. Lot
        BY DEF Inv, TypeOK, ManagerTypeOK, ManagerType, CloserType, ManagerInv, CloserInv, CloserOK
      <3>2. manager' = manager /\ closer' = closer  BY DEF managerVars
      <3>3. \A t \in Tokens, n \in 0 .. Lot : Offers(t, n) =>
                /\ db'.positions[t].status # "ABSENT"
                /\ db'.positions[t].status = "OPEN" => n >= db'.positions[t].size
        BY <2>3 DEF Offers
      <3> QED BY <3>1, <3>2, <3>3 DEF SharesInv, OffersInv, Offers
    <2>6. poller'.todo = {} /\ poller'.pc = "idle" /\ writer' # "poller"
      BY <1>3, TaskNames DEF PollerIdle, Commit
    <2> QED BY <2>3, <2>4, <2>5, <2>6 DEF SharesInv, TodoInv, CancelInv
  <1>4. ASSUME Rollback("poller"), Lists(clob, clob'), Whole(clob'),
               poller'.pc # "cancel", poller'.todo \subseteq LiveRows(db)
        PROVE  SharesInv'
    <2>1. LedgersInv' /\ WholeInv' /\ PendingInv' /\ OffersInv' /\ db' = db
      BY <1>4, Rollbacks
    <2>2. writer' # "poller"  BY <1>4, TaskNames DEF Rollback
    <2>3. TodoInv'  BY <1>0, <1>4, <2>1, <2>2 DEF LedgersInv, TodoInv, KeepsAlive
    <2> QED BY <1>4, <2>1, <2>2, <2>3 DEF SharesInv, CancelInv
  <1>5. ASSUME NEW o \in poller.todo, UNCHANGED dbVars, Canceling(o) \/ UNCHANGED clob,
               poller'.todo = poller.todo \ {o}, poller'.pc \in {"poll", "sweep"}
        PROVE  SharesInv'
    <2>1. Lists(clob, clob') /\ Whole(clob')  BY <1>5, CancelingLists
    <2>2. LedgersInv' /\ WholeInv'  BY <1>5, <2>1, Reads
    <2>3. PendingInv' /\ OffersInv'  BY <1>5, TasksStay DEF dbVars
    <2> QED BY <1>5, <2>2, <2>3 DEF SharesInv, TodoInv, CancelInv, dbVars
  <1>6. PollerIdle.pc = "idle" /\ PollerIdle.todo = {}  BY DEF PollerIdle
  <1>7. CASE PollCommit  BY <1>3, <1>7 DEF PollCommit
  <1>8. CASE PollAbort  BY <1>4, <1>6, <1>8, ClobSame DEF PollAbort
  <1>9. CASE CancelNotAcked
    BY <1>5, <1>9, DoneTodo DEF CancelNotAcked, Inv, PollerInv
  <1>10. ASSUME NEW o \in OrderIds, SweepNotAcked(o)  PROVE  SharesInv'
    BY <1>5, <1>10, DoneTodo DEF SweepNotAcked
  <1>11. CASE ShutdownStart
    <2>1. Rollback("poller")  BY <1>11 DEF ShutdownStart
    <2>2. Lists(clob, clob') /\ Whole(clob')
      BY <1>11, ClobSame, CancelingLists DEF ShutdownStart, Inv, PollerInv
    <2>3. poller'.pc # "cancel" /\ poller'.todo \subseteq LiveRows(db)
      <3>1. \/ poller' = [PollerIdle EXCEPT !.pc = "sweep", !.todo = LiveRows(db)]
            \/ poller' = PollerIdle
        BY <1>11 DEF ShutdownStart
      <3> QED BY <1>6, <3>1 DEF PollerIdle
    <2> QED BY <1>4, <2>1, <2>2, <2>3
  <1>12. CASE SweepEnd
    <2>1. CASE Commit("poller")  BY <1>3, <1>12, <2>1 DEF SweepEnd
    <2>2. CASE Rollback("poller")  BY <1>4, <1>6, <1>12, <2>2, ClobSame DEF SweepEnd
    <2> QED BY <1>12, <2>1, <2>2 DEF SweepEnd
  <1> QED BY <1>1, <1>2, <1>7, <1>8, <1>9, <1>10, <1>11, <1>12

\* Every step of the poller keeps the invariant.
LEMMA PollerShares ==
    ASSUME Inv, SharesInv, PollerNext, UNCHANGED managerVars
    PROVE  SharesInv'
  <1>1. CASE CancelAcked
    <2>1. /\ poller.pc = "cancel" /\ poller.cur \in poller.todo
          /\ poller.seen = tx.orders[poller.cur].filled
      BY <1>1 DEF CancelAcked, Inv, PollerInv, SharesInv, CancelInv
    <2>2. /\ Canceling(poller.cur)
          /\ Write("poller", MarkPartialCancelled(tx, poller.cur, poller.seen))
          /\ poller' = [Done(poller.cur) EXCEPT !.pc = "poll"]
      BY <1>1 DEF CancelAcked
    <2>3. poller'.pc = "poll" /\ poller'.todo = poller.todo \ {poller.cur}
      BY <2>2, DoneTodo DEF Done, PollerIdle
    <2> QED BY <2>1, <2>2, <2>3, CancelShares
  <1>2. ASSUME NEW o \in OrderIds, SweepAcked(o)  PROVE  SharesInv'
    BY <1>2, DoneTodo, CancelShares DEF SweepAcked
  <1> QED BY <1>1, <1>2, PollerRests, AnswersShares, PollLiveShares
          DEF PollerNext, PollerCycle, PollerShutdown

-----------------------------------------------------------------------------
(* The tasks that submit exits *)

\* An exit for what is offered is inserted.
LEMMA SubmitShares ==
    ASSUME Inv, SharesInv, NEW task \in Tasks \ {"poller"}, NEW t \in Tokens, NEW o \in SellIds,
           NEW n \in 0 .. Lot, n > 0, NEW policy \in {"ride", "cancel"}, Offers(t, n),
           SubmitExit(task, t, o, n, policy), UNCHANGED <<clob, pollerVars>>
    PROVE  /\ LedgersInv' /\ TodoInv' /\ WholeInv' /\ CancelInv'
           /\ UNCHANGED db /\ writer \in {NoTask, task}
           /\ \A x \in SellIds \ {o} : tx'.orders[x] = tx.orders[x]
  <1>1. /\ task # "poller" /\ task # NoTask /\ GoodDb(db) /\ GoodDb(tx)
        /\ tx.orders[o].status = "ABSENT"
    BY DbAssumption DEF Inv, DbInv, SubmitExit, IsNextRow
  <1>2. PICK price \in Prices : Write(task, InsertExit(tx, t, o, n, price, policy))
    BY DEF SubmitExit
  <1> DEFINE e == InsertExit(tx, t, o, n, price, policy)
  <1>3. db' = db /\ tx' = e /\ writer \in {NoTask, task}  BY <1>2 DEF Write
  <1>4. SameHoldings(db, tx)  BY <1>1, <1>3, TaskNames DEF SharesInv, LedgersInv
  <1>5. /\ tx.positions[t].status # "ABSENT"
        /\ tx.positions[t].status = "OPEN" => n >= tx.positions[t].size
    BY <1>4 DEF SameHoldings, Offers
  <1>6. GoodDb(e) /\ Sound(e, clob) /\ SameHoldings(tx, e) /\ KeepsAlive(tx, e)
    BY <1>1, <1>5, InsertSound DEF SharesInv, LedgersInv
  <1>7. \A x \in SellIds \ {o} : e.orders[x] = tx.orders[x]
    BY <1>1, InsertExitRows DEF OrderIds
  <1>8. Write(task, e)  BY <1>2
  <1> HIDE DEF e
  <1>9. LedgersInv' /\ TodoInv' /\ WholeInv' /\ CancelInv'
    BY <1>1, <1>6, <1>8, ClobSame, TaskWrites
  <1> QED BY <1>3, <1>7, <1>9

\* The CLOB's answer reaches the row that was inserted.
LEMMA PlaceShares ==
    ASSUME Inv, SharesInv, NEW task \in Tasks \ {"poller"}, NEW o \in SellIds, Fresh(tx, o),
           PlaceOrder(task, o), UNCHANGED pollerVars
    PROVE  /\ LedgersInv' /\ TodoInv' /\ WholeInv' /\ CancelInv'
           /\ UNCHANGED db /\ writer \in {NoTask, task}
           /\ \A x \in SellIds \ {o} : tx'.orders[x] = tx.orders[x]
           /\ tx'.orders[o].status # "PENDING_SUBMIT"
  <1>1. /\ task # "poller" /\ task # NoTask /\ GoodDb(tx) /\ o \in OrderIds /\ o \in Rows(tx)
        /\ clob \in [PmIds -> ClobOrder]
    BY DbAssumption DEF Inv, DbInv, TypeOK, DbTypeOK, OrderIds, Rows, Fresh
  <1>2. ASSUME NEW e, Write(task, e), GoodDb(e), AnswerOf(tx, e, o),
               Lists(clob, clob'), Whole(clob'),
               e.orders[o].status = "SUBMITTED" =>
                   /\ clob'[e.orders[o].pm].size = e.orders[o].size
                   /\ clob'[e.orders[o].pm].state # "unknown"
        PROVE  /\ LedgersInv' /\ TodoInv' /\ WholeInv' /\ CancelInv'
               /\ UNCHANGED db /\ writer \in {NoTask, task}
               /\ \A x \in SellIds \ {o} : tx'.orders[x] = tx.orders[x]
               /\ tx'.orders[o].status # "PENDING_SUBMIT"
    <2>1. Sound(tx, clob')  BY <1>1, <1>2, ListsSound DEF SharesInv, LedgersInv
    <2>2. Sound(e, clob') /\ SameHoldings(tx, e) /\ KeepsAlive(tx, e)
      BY <1>1, <1>2, <2>1, AnswerSound
    <2>3. LedgersInv' /\ TodoInv' /\ WholeInv' /\ CancelInv'
      BY <1>1, <1>2, <2>2, TaskWrites
    <2>4. db' = db /\ tx' = e /\ writer \in {NoTask, task}  BY <1>2 DEF Write
    <2> QED BY <1>2, <2>3, <2>4 DEF AnswerOf, OrderIds
  <1>3. /\ GoodDb(Refused(tx, o)) /\ AnswerOf(tx, Refused(tx, o), o)
        /\ Refused(tx, o).orders[o].status = "FAILED"
    BY <1>1, AnswerGood, AnswerRows
  <1>4. CASE Write(task, Refused(tx, o)) /\ UNCHANGED clob
    BY <1>2, <1>3, <1>4, ClobSame
  <1>5. ASSUME NEW m \in SellPms, clob[m].state = "unknown",
               NEW listed \in {Listed(tx.orders[o].token, tx.orders[o].size),
                               Unheard(tx.orders[o].token, tx.orders[o].size)},
               clob' = [clob EXCEPT ![m] = listed],
               Write(task, Acked(tx, o, m)) \/ Write(task, Refused(tx, o))
        PROVE  /\ LedgersInv' /\ TodoInv' /\ WholeInv' /\ CancelInv'
               /\ UNCHANGED db /\ writer \in {NoTask, task}
               /\ \A x \in SellIds \ {o} : tx'.orders[x] = tx.orders[x]
               /\ tx'.orders[o].status # "PENDING_SUBMIT"
    <2>1. m \in PmIds  BY DEF PmIds
    <2>2. listed.state = "live" /\ listed.size = tx.orders[o].size
      <3>1. tx.orders[o] \in OrderRow  BY <1>1 DEF GoodDb, Database
      <3> QED BY <1>5, <3>1, ListedOrders DEF OrderRow
    <2>3. clob'[m] = listed /\ \A q \in PmIds \ {m} : clob'[q] = clob[q]
      BY <1>1, <1>5, <2>1
    <2>4. Lists(clob, clob') /\ Whole(clob')
      BY <1>5, <2>2, <2>3 DEF Lists, Whole, SharesInv, WholeInv
    <2>5. /\ GoodDb(Acked(tx, o, m)) /\ AnswerOf(tx, Acked(tx, o, m), o)
          /\ Acked(tx, o, m).orders[o].pm = m
      BY <1>1, <2>1, AnswerGood, AnswerRows
    <2>6. Acked(tx, o, m).orders[o].size = tx.orders[o].size  BY <2>5 DEF AnswerOf
    <2>7. CASE Write(task, Acked(tx, o, m))
      BY <1>2, <2>2, <2>3, <2>4, <2>5, <2>6, <2>7
    <2>8. CASE Write(task, Refused(tx, o))  BY <1>2, <1>3, <2>4, <2>8
    <2> QED BY <1>5, <2>7, <2>8
  <1> QED BY <1>4, <1>5 DEF PlaceOrder

\* While a task that is not placing an order may write, no row is PENDING_SUBMIT.
LEMMA NonePending ==
    ASSUME Inv, SharesInv, NEW task, writer \in {NoTask, task}, NEW x \in SellIds,
           tx.orders[x].status = "PENDING_SUBMIT"
    PROVE  \/ task = "manager" /\ manager.pc = "place" /\ manager.row = x
           \/ \E c \in Closers : task = c /\ closer[c].pc = "place" /\ closer[c].row = x
  BY PlacingWriter, TaskNames DEF SharesInv, PendingInv

\* The manager reads.
LEMMA ManagerReading ==
    ASSUME Inv, SharesInv, NEW r, manager' = r,
           manager.pc # "place", r.pc = "submit" => Offers(r.cur, r.size),
           UNCHANGED <<dbVars, clob, pollerVars, closer>>
    PROVE  SharesInv'
  <1>1. UNCHANGED <<db, tx, writer, poller>>  BY DEF dbVars, pollerVars
  <1>2. LedgersInv' /\ WholeInv'  BY Reads, ClobSame
  <1>3. PendingInv'
    <2>1. \A x : Placing(x) => Placing(x)'  BY DEF Placing
    <2> QED BY <1>1, <2>1 DEF SharesInv, PendingInv
  <1>4. OffersInv'  BY <1>1 DEF SharesInv, OffersInv, Offers
  <1> QED BY <1>1, <1>2, <1>3, <1>4 DEF SharesInv, TodoInv, CancelInv

\* A request reads.
LEMMA CloserReading ==
    ASSUME Inv, SharesInv, NEW c \in Closers, NEW r, closer' = [closer EXCEPT ![c] = r],
           closer[c].pc # "place", r.pc \in {"check", "submit"} => Offers(r.cur, r.size),
           UNCHANGED <<dbVars, clob, pollerVars, manager>>
    PROVE  SharesInv'
  <1>1. UNCHANGED <<db, tx, writer, poller>>  BY DEF dbVars, pollerVars
  <1>2. closer'[c] = r /\ \A b \in Closers \ {c} : closer'[b] = closer[b]
    BY DEF Inv, TypeOK, ManagerTypeOK
  <1>3. LedgersInv' /\ WholeInv'  BY Reads, ClobSame
  <1>4. PendingInv'
    <2>1. \A x : Placing(x) => Placing(x)'  BY <1>2 DEF Placing
    <2> QED BY <1>1, <2>1 DEF SharesInv, PendingInv
  <1>5. OffersInv'  BY <1>1, <1>2 DEF SharesInv, OffersInv, Offers
  <1> QED BY <1>1, <1>3, <1>4, <1>5 DEF SharesInv, TodoInv, CancelInv

\* Every step of the position manager keeps the invariant.
LEMMA ManagerShares ==
    ASSUME Inv, SharesInv, ManagerCycle, UNCHANGED <<pollerVars, closer>>
    PROVE  SharesInv'
  <1>0. /\ manager \in ManagerType /\ GoodDb(db) /\ GoodDb(tx) /\ Lot \in Nat
        /\ "manager" \in Tasks \ {"poller"}
    BY TaskNames, DbAssumption DEF Inv, TypeOK, ManagerTypeOK, DbInv, Tasks
  <1>1. CASE CycleStart \/ Hold \/ CycleAbort \/ \E t \in Tokens : CheckExit(t)
    <2>1. /\ manager.pc # "place" /\ UNCHANGED <<dbVars, clob>>
          /\ manager'.pc # "submit"
      <3>1. CASE CycleStart  BY <3>1 DEF CycleStart, ManagerIdle
      <3>2. CASE Hold  BY <1>0, <3>2 DEF Hold, NextPosition, ManagerType
      <3>3. CASE CycleAbort  BY <3>3 DEF CycleAbort, ManagerIdle
      <3>4. ASSUME NEW t \in Tokens, CheckExit(t)
            PROVE  /\ manager.pc # "place" /\ UNCHANGED <<dbVars, clob>>
                   /\ manager'.pc # "submit"
        BY <1>0, <3>4 DEF CheckExit, ManagerType
      <3> QED BY <1>1, <3>1, <3>2, <3>3, <3>4
    <2>2. \E r : manager' = r /\ r.pc # "submit"  BY <2>1
    <2> QED BY <2>1, <2>2, ManagerReading
  <1>2. CASE Refresh
    <2> DEFINE p == View("manager").positions[manager.cur]
    <2>1. /\ manager.pc = "refresh" /\ UNCHANGED <<dbVars, clob>>
          /\ manager' = IF p.status = "OPEN"
                        THEN [manager EXCEPT !.pc = "submit", !.size = p.size]
                        ELSE NextPosition
      BY <1>2 DEF Refresh
    <2>2. manager.cur \in Tokens  BY <2>1 DEF Inv, ManagerInv
    <2>3. /\ db.positions[manager.cur].status = p.status
          /\ db.positions[manager.cur].size = p.size
      BY <2>2, TaskNames DEF View, SharesInv, LedgersInv, SameHoldings
    <2>4. p \in PositionRow  BY <1>0, <2>2 DEF View, GoodDb, Database
    <2>5. p.size \in Nat  BY <1>0, <2>4 DEF PositionRow
    <2> HIDE DEF p
    <2>6. p.status = "OPEN" => Offers(manager.cur, p.size)  BY <2>3, <2>5 DEF Offers
    <2>7. manager'.pc = "submit" => /\ p.status = "OPEN"
                                    /\ manager'.cur = manager.cur /\ manager'.size = p.size
      <3>1. CASE p.status = "OPEN"
        BY <1>0, <2>1, <3>1 DEF ManagerType
      <3>2. CASE p.status # "OPEN"
        BY <1>0, <2>1, <3>2 DEF NextPosition, ManagerType
      <3> QED BY <3>1, <3>2
    <2>8. \E r : manager' = r  OBVIOUS
    <2>9. PICK r : manager' = r  BY <2>8
    <2>10. r.pc = "submit" => Offers(r.cur, r.size)  BY <2>6, <2>7, <2>9
    <2> QED BY <2>1, <2>9, <2>10, ManagerReading
  <1>3. ASSUME NEW o \in SellIds, Exit(o)  PROVE  SharesInv'
    <2>1. PICK policy \in {"ride", "cancel"} :
              SubmitExit("manager", manager.cur, o, manager.size, policy)
      BY <1>3 DEF Exit
    <2>2. /\ manager.pc = "submit" /\ UNCHANGED <<clob, closer>>
          /\ manager'.pc = "place" /\ manager'.row = o
      BY <1>0, <1>3 DEF Exit, ManagerType
    <2>3. /\ manager.cur \in Tokens /\ manager.size \in 0 .. Lot /\ manager.size > 0
          /\ Offers(manager.cur, manager.size)
      BY <1>0, <2>2 DEF Inv, ManagerInv, ManagerType, SharesInv, OffersInv
    <2>4. /\ LedgersInv' /\ TodoInv' /\ WholeInv' /\ CancelInv'
          /\ db' = db /\ writer \in {NoTask, "manager"}
          /\ \A x \in SellIds \ {o} : tx'.orders[x] = tx.orders[x]
      BY <1>0, <2>1, <2>2, <2>3, SubmitShares
    <2>5. PendingInv'
      <3>1. \A x \in SellIds : tx.orders[x].status # "PENDING_SUBMIT"
        BY <2>2, <2>4, NonePending, TaskNames
      <3>2. \A x \in SellIds : tx'.orders[x].status = "PENDING_SUBMIT" => x = o
        BY <2>4, <3>1
      <3> QED BY <2>2, <2>4, <3>2 DEF SharesInv, PendingInv, Placing
    <2>6. OffersInv'  BY <2>2, <2>4 DEF SharesInv, OffersInv, Offers
    <2> QED BY <2>4, <2>5, <2>6 DEF SharesInv
  <1>4. CASE Place
    <2> DEFINE o == manager.row
    <2>1. /\ manager.pc = "place" /\ PlaceOrder("manager", o) /\ UNCHANGED closer
          /\ manager'.pc = "scan" /\ writer = "manager" /\ o \in SellIds /\ Fresh(tx, o)
      BY <1>0, <1>4 DEF Place, NextPosition, ManagerType, Inv, ManagerInv
    <2> HIDE DEF o
    <2>2. /\ LedgersInv' /\ TodoInv' /\ WholeInv' /\ CancelInv' /\ db' = db
          /\ \A x \in SellIds \ {o} : tx'.orders[x] = tx.orders[x]
          /\ tx'.orders[o].status # "PENDING_SUBMIT"
      BY <1>0, <2>1, PlaceShares
    <2>3. PendingInv'
      <3>1. \A x \in SellIds \ {o} : tx.orders[x].status # "PENDING_SUBMIT"
        BY <2>1, NonePending, TaskNames DEF o
      <3> QED BY <2>2, <3>1 DEF SharesInv, PendingInv
    <2>4. OffersInv'  BY <2>1, <2>2 DEF SharesInv, OffersInv, Offers
    <2> QED BY <2>2, <2>3, <2>4 DEF SharesInv
  <1>5. CASE CycleCommit
    <2>1. /\ manager.pc = "scan" /\ Commit("manager") /\ UNCHANGED <<clob, closer>>
          /\ manager'.pc = "idle"
      BY <1>5 DEF CycleCommit, ManagerIdle
    <2>2. writer = "manager" => \A o \in SellIds : ~Placing(o)
      BY <2>1, PlacingWriter, TaskNames
    <2>3. /\ LedgersInv' /\ WholeInv' /\ UNCHANGED tx
          /\ \A o \in poller.todo : Alive(db', o) /\ Alive(tx', o)
          /\ \A o \in SellIds : db'.orders[o].status # "PENDING_SUBMIT"
          /\ \A t \in Tokens, n \in 0 .. Lot : Offers(t, n) => Offers(t, n)'
      BY <1>0, <2>1, <2>2, Commits
    <2>4. TodoInv'  BY <2>3 DEF TodoInv, pollerVars
    <2>5. CancelInv'
      BY <2>1, <2>3, TaskNames DEF SharesInv, CancelInv, pollerVars, Commit
    <2>6. PendingInv'
      <3>1. \A x : Placing(x) => Placing(x)'  BY <2>1 DEF Placing
      <3> QED BY <2>3, <3>1 DEF SharesInv, PendingInv
    <2>7. OffersInv'
      <3>1. \A c \in Closers : closer[c].pc \in {"check", "submit"} =>
                closer[c].cur \in Tokens /\ closer[c].size \in 0 .. Lot
        BY DEF Inv, TypeOK, ManagerTypeOK, CloserType, CloserInv, CloserOK
      <3>2. \A t \in Tokens, n \in 0 .. Lot : Offers(t, n) =>
                /\ db'.positions[t].status # "ABSENT"
                /\ db'.positions[t].status = "OPEN" => n >= db'.positions[t].size
        BY <2>3 DEF Offers
      <3> QED BY <2>1, <3>1, <3>2 DEF SharesInv, OffersInv, Offers
    <2> QED BY <2>3, <2>4, <2>5, <2>6, <2>7 DEF SharesInv
  <1> QED BY <1>1, <1>2, <1>3, <1>4, <1>5 DEF ManagerCycle

\* A request that ends.
LEMMA CloserEnds ==
    ASSUME Inv, SharesInv, NEW c \in Closers, closer[c].pc # "place", CloserDone(c),
           UNCHANGED <<dbVars, clob, pollerVars, manager>>
    PROVE  SharesInv'
  <1> DEFINE r == [CloserIdle EXCEPT !.pc = "done"]
  <1>1. r.pc = "done" /\ closer' = [closer EXCEPT ![c] = r]  BY DEF CloserIdle, CloserDone
  <1> HIDE DEF r
  <1> QED BY <1>1, CloserReading

\* Every step of a close request keeps the invariant.
LEMMA CloserShares ==
    ASSUME Inv, SharesInv, NEW c \in Closers, CloserNext(c), UNCHANGED <<pollerVars, manager>>
    PROVE  SharesInv'
  <1>0. /\ closer \in [Closers -> CloserType] /\ closer[c] \in CloserType
        /\ GoodDb(db) /\ GoodDb(tx) /\ Lot \in Nat
        /\ c \in Tasks \ {"poller"} /\ c # NoTask /\ c # "manager"
    BY TaskNames, DbAssumption DEF Inv, TypeOK, ManagerTypeOK, DbInv, Tasks
  <1>1. ASSUME NEW t \in Tokens, CloseRead(c, t)  PROVE  SharesInv'
    <2> DEFINE p == db.positions[t]
               q == [CloserIdle EXCEPT !.pc = "check", !.cur = t]
               r == [q EXCEPT !.exit = p.exit, !.size = p.size]
    <2>1. closer[c].pc # "place" /\ UNCHANGED <<dbVars, clob, manager>>
      BY <1>1 DEF CloseRead, CloserAt
    <2>2. CASE p.status = "OPEN"
      <3>1. closer' = [closer EXCEPT ![c] = r]  BY <1>1, <2>2 DEF CloseRead, CloserIdle
      <3>2. r.pc = "check" /\ r.cur = t /\ r.size = p.size  BY DEF CloserIdle
      <3>3. p \in PositionRow  BY <1>0 DEF GoodDb, Database
      <3>4. p.size \in Nat  BY <1>0, <3>3 DEF PositionRow
      <3>5. Offers(t, p.size)  BY <2>2, <3>4 DEF Offers
      <3> HIDE DEF r, p, q
      <3> QED BY <2>1, <3>1, <3>2, <3>5, CloserReading
    <2>3. CASE p.status # "OPEN"
      <3>1. CloserDone(c)  BY <1>1, <2>3 DEF CloseRead
      <3> QED BY <2>1, <3>1, CloserEnds
    <2> QED BY <2>2, <2>3
  <1>2. CASE CloseCheck(c)
    <2> DEFINE r == [closer[c] EXCEPT !.pc = "submit"]
    <2>1. closer[c].pc = "check" /\ UNCHANGED <<dbVars, clob, manager>>
      BY <1>2 DEF CloseCheck, CloserAt
    <2>2. CASE CloserDone(c)  BY <2>1, <2>2, CloserEnds
    <2>3. CASE closer' = [closer EXCEPT ![c].pc = "submit"]
      <3>1. closer' = [closer EXCEPT ![c] = r]  BY <2>3
      <3>2. r.pc = "submit" /\ r.cur = closer[c].cur /\ r.size = closer[c].size
        BY <1>0 DEF CloserType
      <3>3. Offers(closer[c].cur, closer[c].size)  BY <2>1 DEF SharesInv, OffersInv
      <3> HIDE DEF r
      <3> QED BY <2>1, <3>1, <3>2, <3>3, CloserReading
    <2> QED BY <1>2, <2>2, <2>3 DEF CloseCheck
  <1>3. CASE CloseGiveUp(c)
    BY <1>3, CloserEnds DEF CloseGiveUp, CloserAt
  <1>4. ASSUME NEW o \in SellIds, CloseSubmit(c, o)  PROVE  SharesInv'
    <2> DEFINE r == [closer[c] EXCEPT !.pc = "place", !.row = o]
    <2>1. /\ SubmitExit(c, closer[c].cur, o, closer[c].size, "ride")
          /\ closer[c].pc = "submit" /\ UNCHANGED <<clob, manager>>
          /\ closer' = [closer EXCEPT ![c] = r]
      BY <1>0, <1>4 DEF CloseSubmit, CloserAt
    <2>2. /\ closer[c].cur \in Tokens /\ closer[c].size \in 0 .. Lot /\ closer[c].size > 0
          /\ Offers(closer[c].cur, closer[c].size)
      BY <1>0, <2>1 DEF Inv, CloserInv, CloserOK, CloserType, SharesInv, OffersInv
    <2>3. r.pc = "place" /\ r.row = o  BY <1>0 DEF CloserType
    <2> HIDE DEF r
    <2>4. closer'[c] = r /\ \A b \in Closers \ {c} : closer'[b] = closer[b]
      BY <1>0, <2>1
    <2>5. /\ LedgersInv' /\ TodoInv' /\ WholeInv' /\ CancelInv'
          /\ db' = db /\ writer \in {NoTask, c}
          /\ \A x \in SellIds \ {o} : tx'.orders[x] = tx.orders[x]
      BY <1>0, <2>1, <2>2, SubmitShares
    <2>6. PendingInv'
      <3>1. \A x \in SellIds : tx.orders[x].status # "PENDING_SUBMIT"
        BY <1>0, <2>1, <2>5, NonePending
      <3>2. \A x \in SellIds : tx'.orders[x].status = "PENDING_SUBMIT" => x = o
        BY <2>5, <3>1
      <3> QED BY <2>3, <2>4, <2>5, <3>2 DEF SharesInv, PendingInv, Placing
    <2>7. OffersInv'  BY <2>1, <2>3, <2>4, <2>5 DEF SharesInv, OffersInv, Offers
    <2> QED BY <2>5, <2>6, <2>7 DEF SharesInv
  <1>5. CASE ClosePlace(c)
    <2> DEFINE o == closer[c].row
               r == [closer[c] EXCEPT !.pc = "commit"]
    <2>1. /\ closer[c].pc = "place" /\ PlaceOrder(c, o) /\ UNCHANGED manager
          /\ closer' = [closer EXCEPT ![c] = r] /\ writer = c /\ o \in SellIds /\ Fresh(tx, o)
      BY <1>5 DEF ClosePlace, CloserAt, Inv, CloserInv, CloserOK
    <2>2. r.pc = "commit"  BY <1>0 DEF CloserType
    <2> HIDE DEF r
    <2>3. closer'[c] = r /\ \A b \in Closers \ {c} : closer'[b] = closer[b]
      BY <1>0, <2>1
    <2>4. \A x \in SellIds \ {o} : tx.orders[x].status # "PENDING_SUBMIT"
      BY <1>0, <2>1, NonePending
    <2> HIDE DEF o
    <2>5. /\ LedgersInv' /\ TodoInv' /\ WholeInv' /\ CancelInv' /\ db' = db
          /\ \A x \in SellIds \ {o} : tx'.orders[x] = tx.orders[x]
          /\ tx'.orders[o].status # "PENDING_SUBMIT"
      BY <1>0, <2>1, PlaceShares
    <2>6. PendingInv'  BY <2>4, <2>5 DEF SharesInv, PendingInv
    <2>7. OffersInv'  BY <2>1, <2>2, <2>3, <2>5 DEF SharesInv, OffersInv, Offers
    <2> QED BY <2>5, <2>6, <2>7 DEF SharesInv
  <1>6. CASE CloseCommit(c)
    <2> DEFINE r == [CloserIdle EXCEPT !.pc = "done"]
    <2>1. /\ closer[c].pc = "commit" /\ Commit(c) /\ UNCHANGED <<clob, manager>>
          /\ closer' = [closer EXCEPT ![c] = r] /\ r.pc = "done"
      BY <1>6 DEF CloseCommit, CloserDone, CloserAt, CloserIdle
    <2> HIDE DEF r
    <2>2. closer'[c] = r /\ \A b \in Closers \ {c} : closer'[b] = closer[b]
      BY <1>0, <2>1
    <2>3. writer = c => \A o \in SellIds : ~Placing(o)
      BY <1>0, <2>1, PlacingWriter
    <2>4. /\ LedgersInv' /\ WholeInv' /\ UNCHANGED tx
          /\ \A o \in poller.todo : Alive(db', o) /\ Alive(tx', o)
          /\ \A o \in SellIds : db'.orders[o].status # "PENDING_SUBMIT"
          /\ \A t \in Tokens, n \in 0 .. Lot : Offers(t, n) => Offers(t, n)'
      BY <1>0, <2>1, <2>3, Commits
    <2>5. TodoInv'  BY <2>4 DEF TodoInv, pollerVars
    <2>6. CancelInv'
      BY <1>0, <2>1, <2>4, TaskNames DEF SharesInv, CancelInv, pollerVars, Commit
    <2>7. PendingInv'
      <3>1. \A x : Placing(x) => Placing(x)'  BY <2>1, <2>2 DEF Placing
      <3> QED BY <2>4, <3>1 DEF SharesInv, PendingInv
    <2>8. OffersInv'
      <3>1. \A b \in Closers : closer[b].pc \in {"check", "submit"} =>
                closer[b].cur \in Tokens /\ closer[b].size \in 0 .. Lot
        BY DEF Inv, TypeOK, ManagerTypeOK, CloserType, CloserInv, CloserOK
      <3>2. manager.pc = "submit" => manager.cur \in Tokens /\ manager.size \in 0 .. Lot
        BY DEF Inv, TypeOK, ManagerTypeOK, ManagerType, ManagerInv
      <3>3. \A t \in Tokens, n \in 0 .. Lot : Offers(t, n) =>
                /\ db'.positions[t].status # "ABSENT"
                /\ db'.positions[t].status = "OPEN" => n >= db'.positions[t].size
        BY <2>4 DEF Offers
      <3> QED BY <2>1, <2>2, <3>1, <3>2, <3>3 DEF SharesInv, OffersInv, Offers
    <2> QED BY <2>4, <2>5, <2>6, <2>7, <2>8 DEF SharesInv
  <1> QED BY <1>1, <1>2, <1>3, <1>4, <1>5, <1>6 DEF CloserNext

-----------------------------------------------------------------------------
(* The CLOB, the vault, a restart, and the beginning *)

\* A step of the CLOB or of the vault.
LEMMA OutsideShares ==
    ASSUME Inv, SharesInv, Lists(clob, clob'), Whole(clob'),
           UNCHANGED <<dbVars, pollerVars, managerVars>>
    PROVE  SharesInv'
  <1>1. LedgersInv' /\ WholeInv'  BY Reads
  <1>2. UNCHANGED <<db, tx, writer, poller>>  BY DEF dbVars, pollerVars
  <1>3. PendingInv' /\ OffersInv'  BY <1>2, TasksStay
  <1> QED BY <1>1, <1>2, <1>3 DEF SharesInv, TodoInv, CancelInv

\* A match keeps the size of an order, and calls it filled when all is matched.
LEMMA MatchShares ==
    ASSUME Inv, SharesInv, NEW m \in PmIds, Match(m), UNCHANGED <<pollerVars, managerVars>>
    PROVE  SharesInv'
  <1> DEFINE n == clob[m].matched + 1
             k == [clob[m] EXCEPT !.matched = n,
                                  !.state = IF n = clob[m].size THEN "filled" ELSE "live"]
  <1>1. /\ clob \in [PmIds -> ClobOrder] /\ clob[m] \in ClobOrder
        /\ clob' = [clob EXCEPT ![m] = k] /\ UNCHANGED dbVars
    BY DEF Match, Inv, TypeOK, DbTypeOK
  <1>2. /\ k.size = clob[m].size /\ k.state # "unknown"
        /\ k.state = "filled" => k.matched = k.size
    BY <1>1 DEF ClobOrder
  <1> HIDE DEF k
  <1>3. clob'[m] = k /\ \A q \in PmIds \ {m} : clob'[q] = clob[q]  BY <1>1
  <1>4. Lists(clob, clob') /\ Whole(clob')
    BY <1>2, <1>3 DEF Lists, Whole, SharesInv, WholeInv
  <1> QED BY <1>1, <1>4, OutsideShares

\* An order that is delisted keeps its size.
LEMMA DelistShares ==
    ASSUME Inv, SharesInv, NEW m \in PmIds, Delist(m), UNCHANGED <<pollerVars, managerVars>>
    PROVE  SharesInv'
  <1> DEFINE k == [clob[m] EXCEPT !.state = "canceled"]
  <1>1. /\ clob \in [PmIds -> ClobOrder] /\ clob[m] \in ClobOrder
        /\ clob' = [clob EXCEPT ![m] = k] /\ UNCHANGED dbVars
    BY DEF Delist, Inv, TypeOK, DbTypeOK
  <1>2. k.size = clob[m].size /\ k.state = "canceled"  BY <1>1 DEF ClobOrder
  <1> HIDE DEF k
  <1>3. clob'[m] = k /\ \A q \in PmIds \ {m} : clob'[q] = clob[q]  BY <1>1
  <1>4. Lists(clob, clob') /\ Whole(clob')
    BY <1>2, <1>3 DEF Lists, Whole, SharesInv, WholeInv
  <1> QED BY <1>1, <1>4, OutsideShares

\* What is committed has no order that was never answered: a restart finds nothing
\* to reconcile.
LEMMA NothingToReconcile ==
    ASSUME Inv, SharesInv
    PROVE  Reconcile(db) = db
  <1> DEFINE orders == db.orders
             rows == [o \in OrderIds |-> IF orders[o].status = "PENDING_SUBMIT"
                                         THEN [orders[o] EXCEPT !.status = "FAILED"]
                                         ELSE orders[o]]
  <1>1. db \in Database /\ orders \in [OrderIds -> OrderRow]  BY DEF Inv, DbInv, GoodDb, Database
  <1>2. Reconcile(db) = [db EXCEPT !.orders = rows]  BY <1>1 DEF Reconcile, Database
  <1>3. \A o \in OrderIds : orders[o].status # "PENDING_SUBMIT"
    BY DEF SharesInv, PendingInv, LedgersInv, Sound, RowsOK, OrderIds
  <1> HIDE DEF orders
  <1>4. rows = orders  BY <1>1, <1>3
  <1> QED BY <1>1, <1>2, <1>4 DEF Database, orders

\* After a restart there is only what was committed.
LEMMA RestartShares ==
    ASSUME Inv, SharesInv, Restart
    PROVE  SharesInv'
  <1>0. Lists(clob, clob') /\ Whole(clob')
    BY RestartTrades DEF SameTrades, Lists, Whole, SharesInv, WholeInv
  <1>1. /\ db' = db /\ tx' = db /\ writer' = NoTask
        /\ poller' = PollerIdle /\ manager' = ManagerIdle
    BY NothingToReconcile DEF Restart
  <1>2. GoodDb(db)  BY DEF Inv, DbInv
  <1>3. SameHoldings(db, db) /\ Shrinks(db, db) /\ KeepsAlive(db, db)
    BY <1>2, SameShrinks DEF SameHoldings, KeepsAlive
  <1>4. LedgersInv'
    <2>1. Sound(db, clob')  BY <1>0, <1>2, ListsSound DEF SharesInv, LedgersInv
    <2> QED BY <1>1, <1>3, <2>1 DEF LedgersInv
  <1>5. \A c \in Closers : closer'[c].pc \in {"idle", "done"}
    <2>1. CloserIdle.pc = "idle" /\ [CloserIdle EXCEPT !.pc = "done"].pc = "done"
      BY DEF CloserIdle
    <2> QED BY <2>1 DEF Restart
  <1>6. OffersInv'  BY <1>1, <1>5 DEF OffersInv, ManagerIdle
  <1>7. TodoInv' /\ CancelInv'  BY <1>1, TaskNames DEF TodoInv, CancelInv, PollerIdle
  <1> QED BY <1>0, <1>1, <1>4, <1>6, <1>7 DEF SharesInv, Whole, WholeInv, PendingInv

\* The desk starts with nothing but live BUYs.
LEMMA InitShares ==
    ASSUME Init
    PROVE  SharesInv
  <1>1. Tokens \cap SellIds = {} /\ NoTask # "poller"  BY DbAssumption DEF Tasks
  <1>2. /\ \A t \in Tokens : db.orders[t] = EntryRow(t) /\ db.positions[t] = NoPosition
        /\ \A o \in SellIds : db.orders[o] = NoRow
        /\ tx = db /\ writer = NoTask
    BY <1>1 DEF Init, DbInit, OrderIds
  <1>3. /\ \A t \in Tokens : /\ db.orders[t].token = t /\ db.orders[t].status = "SUBMITTED"
                             /\ db.positions[t].status = "ABSENT"
                             /\ db.positions[t].exit = NoOrder
        /\ \A o \in SellIds : db.orders[o].status = "ABSENT"
    <2>1. \A t \in Tokens : EntryRow(t).token = t /\ EntryRow(t).status = "SUBMITTED"
      BY DEF EntryRow, NoRow
    <2>2. NoRow.status = "ABSENT" /\ NoPosition.status = "ABSENT" /\ NoPosition.exit = NoOrder
      BY DEF NoRow, NoPosition
    <2> QED BY <1>2, <2>1, <2>2
  <1>4. Rows(db) = {}  BY <1>3 DEF Rows
  <1>5. IsFiniteSet({})  BY FS_EmptySet
  <1>6. RowsOK(db) /\ NamesOK(db, clob) /\ PositionsOK(db) /\ Covers(db) /\ Accounted(db)
    BY <1>3, <1>4, <1>5 DEF RowsOK, NamesOK, PositionsOK, Covers, Accounted
  <1>7. Shrinks(db, tx) /\ SameHoldings(db, tx) /\ KeepsAlive(db, tx)
    BY <1>2, <1>3 DEF Shrinks, SameHoldings, KeepsAlive
  <1>8. LedgersInv  BY <1>2, <1>6, <1>7 DEF LedgersInv, Sound
  <1>9. WholeInv
    <2>1. \A m \in PmIds : clob[m].state # "filled"
      BY DEF Init, DbInit, Listed, NotListed
    <2> QED BY <2>1 DEF WholeInv
  <1>10. TodoInv /\ CancelInv
    BY <1>1, <1>2 DEF Init, PollerInit, PollerIdle, TodoInv, CancelInv
  <1>11. PendingInv  BY <1>2, <1>3 DEF PendingInv
  <1>12. OffersInv  BY DEF Init, ManagerInit, ManagerIdle, CloserIdle, OffersInv
  <1> QED BY <1>8, <1>9, <1>10, <1>11, <1>12 DEF SharesInv

\* Every step keeps the invariant.
LEMMA NextShares ==
    ASSUME Inv, SharesInv, Next
    PROVE  SharesInv'
  <1>1. CASE PollerNext /\ UNCHANGED managerVars  BY <1>1, PollerShares
  <1>2. CASE ManagerNext /\ UNCHANGED pollerVars
    <2>1. CASE ManagerCycle
      <3>1. UNCHANGED closer
        BY <2>1 DEF ManagerCycle, CycleStart, Refresh, Hold, Place, CycleCommit, CycleAbort,
                    CheckExit, Exit
      <3> QED BY <1>2, <2>1, <3>1, ManagerShares
    <2>2. ASSUME NEW c \in Closers, CloserNext(c)  PROVE  SharesInv'
      <3>1. UNCHANGED manager
        BY <2>2 DEF CloserNext, CloseRead, CloseCheck, CloseSubmit, CloseGiveUp, ClosePlace,
                    CloseCommit
      <3> QED BY <1>2, <2>2, <3>1, CloserShares
    <2> QED BY <1>2, <2>1, <2>2 DEF ManagerNext
  <1>3. CASE (Exchange \/ Lock \/ Unlock) /\ UNCHANGED <<pollerVars, managerVars>>
    <2>1. CASE Exchange  BY <1>3, <2>1, MatchShares, DelistShares DEF Exchange
    <2>2. CASE Lock \/ Unlock
      <3>1. UNCHANGED <<dbVars, clob>>  BY <2>2 DEF Lock, Unlock
      <3> QED BY <1>3, <3>1, ClobSame, OutsideShares
    <2> QED BY <1>3, <2>1, <2>2
  <1>4. CASE Restart  BY <1>4, RestartShares
  <1> QED BY <1>1, <1>2, <1>3, <1>4 DEF Next

\* A step that changes nothing keeps the invariant.
LEMMA StutterShares ==
    ASSUME Inv, SharesInv, UNCHANGED vars
    PROVE  SharesInv'
  <1>1. UNCHANGED <<dbVars, clob, pollerVars, managerVars>>
    BY DEF vars, dbVars, pollerVars, managerVars
  <1> QED BY <1>1, ClobSame, OutsideShares

-----------------------------------------------------------------------------
\* In every reachable state, with any requests and any faults, both views of the
\* ledger are sound and what the tasks hold is worth what they need of it.
THEOREM SharesInvariance == Spec => []SharesInv
  <1>1. Init => SharesInv  BY InitShares
  <1>2. Inv /\ SharesInv /\ [Next]_vars => SharesInv'  BY NextShares, StutterShares
  <1> QED BY <1>1, <1>2, Invariance, PTL DEF Spec

\* No share leaves a position, and no position closes, without a SELL fill on record
\* for it, whatever requests, rolled back polls, crashes and lost answers get in the
\* way (trading.py:504-511, 567-592; position_manager.py:259).
THEOREM EveryShareIsSold == Spec => []NoShareVanishes
  <1>1. SharesInv => NoShareVanishes
    BY DEF SharesInv, LedgersInv, Sound, Accounted, Held, NoShareVanishes
  <1> QED BY <1>1, SharesInvariance, PTL
===============================================================================
