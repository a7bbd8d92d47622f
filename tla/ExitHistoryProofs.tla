--------------------------- MODULE ExitHistoryProofs ---------------------------
(***************************************************************************)
(* Proofs about ExitDesk.  Without close requests the position manager is   *)
(* the only one to submit exits: then exits stay linked, history stands,    *)
(* what is committed is a portfolio, and, as far as the faults permit, the  *)
(* books balance and nothing is sold twice.  With any requests: what is     *)
(* live at the CLOB is known and what was cancelled is on record.           *)
(***************************************************************************)
EXTENDS ExitDeskProofs

-----------------------------------------------------------------------------
(* What is known of the CLOB, and what is recorded of it *)

\* Every order the CLOB lists is a row's, or is known to be a stray; the poller's
\* transaction renames none.
KnownInv ==
    /\ \A m \in SellPms :
           clob[m].state # "unknown" /\ ~clob[m].stray => \E o \in SellIds : tx.orders[o].pm = m
    /\ writer = "poller" => \A o \in SellIds : tx.orders[o].pm = db.orders[o].pm

\* The fill of a cancelled row is that of an order the CLOB has canceled.
Recorded(d, k) ==
    \A o \in OrderIds :
        d.orders[o].status = "CANCELLED" =>
            /\ d.orders[o].pm # NoPm
            /\ k[d.orders[o].pm].state = "canceled"
            /\ d.orders[o].filled = k[d.orders[o].pm].matched
RecordedInv ==
    /\ Recorded(db, clob) /\ Recorded(tx, clob)
    /\ stale = {} /\ poller.pc \notin {"cancel", "sweep"}

-----------------------------------------------------------------------------
(* The inductive invariant without close requests *)

\* no SELL of token t is under way
Unsold(d, t) == \A o \in SellIds : d.orders[o].status \in NonTerminal => d.orders[o].token # t

\* A SELL that is under way sells all of an OPEN position that links to it; before
\* its BUY is done a position does not exist.
LinksOK(d) ==
    /\ \A o \in SellIds : d.orders[o].status \in NonTerminal =>
           LET p == d.positions[d.orders[o].token] IN
           p.status = "OPEN" /\ p.exit = o /\ p.size = d.orders[o].size
    /\ \A o \in SellIds : IF d.orders[o].status = "ABSENT" THEN d.orders[o].filled = 0
                          ELSE d.orders[o].price \in Prices
    /\ \A t \in Tokens : d.positions[t].status = "ABSENT" => d.positions[t] = NoPosition

\* An order goes from row r to row s.
RowAdvances(r, s) ==
    /\ r.status \in Terminal \cup {"ABSENT"} => s = r
    /\ s.status # "ABSENT" => r.status # "ABSENT"
    /\ s.token = r.token /\ s.size = r.size /\ s.price = r.price /\ s.pm = r.pm
    /\ s.filled >= r.filled

\* The position p becomes q as n of its shares are sold.
SoldOff(p, q, price, n) ==
    /\ p.status = "OPEN" /\ n \in 1 .. p.size
    /\ \/ n = p.size /\ q.status = "CLOSED" /\ q.pnl = p.partial + (price - Entry) * n
          /\ q.exit = p.exit
       \/ n # p.size /\ q.status = "OPEN" /\ q.partial = p.partial + (price - Entry) * n
          /\ q.exit = NoOrder /\ q.size = p.size - n

\* From d to e the position of t is bought, or sold off by the SELL under way.
PositionAdvances(d, e, t) ==
    \/ e.positions[t] = d.positions[t]
    \/ /\ d.orders[t].status \in NonTerminal /\ e.orders[t].status = "FILLED"
       /\ d.positions[t] = NoPosition
       /\ e.positions[t] = OpenPosition(e.orders[t].filled) /\ e.orders[t].filled > 0
    \/ \E o \in SellIds :
          /\ d.orders[o].status \in NonTerminal /\ d.orders[o].token = t
          /\ e.orders[o].status \in Terminal
          /\ SoldOff(d.positions[t], e.positions[t], d.orders[o].price, e.orders[o].filled)

Advances(d, e) ==
    /\ \A o \in OrderIds : RowAdvances(d.orders[o], e.orders[o])
    /\ \A t \in Tokens : PositionAdvances(d, e, t)

\* From d to e exits were inserted and answered.
Submits(d, e) ==
    /\ \A o \in OrderIds : d.orders[o].status # "ABSENT" => e.orders[o] = d.orders[o]
    /\ \A t \in Tokens :
           LET p == d.positions[t]
               q == e.positions[t]
           IN  /\ q.status = p.status /\ q.size = p.size /\ q.partial = p.partial /\ q.pnl = p.pnl
               /\ q.exit # p.exit => p.status = "OPEN" /\ Unsold(d, t)

HistoryDbInv ==
    /\ LinksOK(db) /\ LinksOK(tx)
    /\ writer = "poller" => Advances(db, tx)
    /\ writer = "manager" => Submits(db, tx) /\ manager.pc # "idle"
    /\ \A m \in PmIds : clob[m].matched <= clob[m].size

\* What the manager read before still tells what it needs to know of d.
Remembers(d) ==
    /\ \A t \in Tokens :
           t \in manager.todo \/ (manager.pc = "refresh" /\ t = manager.cur) =>
               d.positions[t].exit \in {manager.exits[t], NoOrder}
    /\ manager.pc \in {"refresh", "submit"} => Unsold(d, manager.cur)
    /\ manager.pc \in {"refresh", "submit", "place"} => manager.cur \notin manager.todo
    /\ manager.pc = "submit" => /\ d.positions[manager.cur].status = "OPEN"
                                /\ d.positions[manager.cur].size = manager.size

HistoryInv == HistoryDbInv /\ Remembers(View("manager"))

-----------------------------------------------------------------------------
(* The books, when no order is given up unheard *)

Balanced(d) ==
    \A t \in Tokens :
        LET p == d.positions[t] IN
        /\ p.status = "OPEN"   => p.size + Sold(d, t) = d.orders[t].filled /\ p.partial = Earned(d, t)
        /\ p.status = "CLOSED" => Sold(d, t) = d.orders[t].filled /\ p.pnl = Earned(d, t)

BooksInv ==
    /\ Balanced(db) /\ Balanced(tx)
    /\ "age" \notin Faults => stale = {}

-----------------------------------------------------------------------------
(***************************************************************************)
(* The steps of the order poller, by what they do to the ledgers: it reads, *)
(* commits, rolls back, or records what it is told of one order.           *)
(***************************************************************************)
Cancels(o) == poller.pc \in {"cancel", "sweep"} /\ Canceling(o)

Touches == UNCHANGED clob \/ \E o \in poller.todo : Cancels(o)

Records(o, e) ==
    \/ e = tx /\ UNCHANGED clob
    \/ "noEcho" \in Faults /\ o \in stale /\ e = MarkCancelled(tx, o) /\ UNCHANGED clob
    \/ /\ AtClob(o).state = "canceled" /\ UNCHANGED clob
       /\ e = MarkPartialCancelled(tx, o, AtClob(o).matched)
    \/ /\ AtClob(o).state = "filled" /\ UNCHANGED clob
       /\ e = MarkFilled(tx, o, AtClob(o).matched)
    \/ /\ AtClob(o).state = "live" /\ UNCHANGED clob
       /\ e = MarkPartial(tx, o, AtClob(o).matched)
    \/ Cancels(o) /\ e = MarkPartialCancelled(tx, o, tx.orders[o].filled)

\* Every step of the poller is one of these.
LEMMA PollerKinds ==
    ASSUME Inv, SharesInv, PollerNext
    PROVE  \/ UNCHANGED dbVars /\ Touches
           \/ Commit("poller") /\ UNCHANGED clob
           \/ Rollback("poller") /\ Touches
           \/ \E o \in poller.todo : \E e : Write("poller", e) /\ Records(o, e)
  <1>1. CASE PollStart \/ \E o \in OrderIds : Age(o)
    BY <1>1 DEF PollStart, Age, Touches
  <1>2. CASE PollCommit  BY <1>2 DEF PollCommit
  <1>3. CASE PollAbort  BY <1>3 DEF PollAbort, Touches
  <1>4. CASE CancelAcked
    <2>1. /\ poller.pc = "cancel" /\ poller.cur \in poller.todo
          /\ poller.seen = tx.orders[poller.cur].filled
      BY <1>4 DEF CancelAcked, Inv, PollerInv, SharesInv, CancelInv
    <2> QED BY <1>4, <2>1 DEF CancelAcked, Cancels, Records
  <1>5. CASE CancelNotAcked
    BY <1>5 DEF CancelNotAcked, Inv, PollerInv, Touches, Cancels
  <1>6. ASSUME NEW o \in OrderIds, PollNoEcho(o) \/ PollCanceled(o) \/ PollFilled(o) \/ PollLive(o)
        PROVE  o \in poller.todo /\ \E e : Write("poller", e) /\ Records(o, e)
    BY <1>6 DEF PollNoEcho, PollCanceled, PollFilled, PollLive, Polls, Records, CancelsWhenStale
  <1>7. CASE ShutdownStart
    BY <1>7 DEF ShutdownStart, Inv, PollerInv, Touches, Cancels
  <1>8. CASE SweepEnd  BY <1>8 DEF SweepEnd, Touches
  <1>9. ASSUME NEW o \in OrderIds, SweepAcked(o)
        PROVE  o \in poller.todo /\ \E e : Write("poller", e) /\ Records(o, e)
    BY <1>9 DEF SweepAcked, Cancels, Records
  <1>10. ASSUME NEW o \in OrderIds, SweepNotAcked(o)
         PROVE  UNCHANGED dbVars /\ Touches
    BY <1>10 DEF SweepNotAcked, Touches, Cancels
  <1> QED BY <1>1, <1>2, <1>3, <1>4, <1>5, <1>6, <1>7, <1>8, <1>9, <1>10
          DEF PollerNext, PollerCycle, PollerShutdown

\* What a record makes of the row of an order and of its position.
Reports(o, e, n) ==
    LET s == e.orders[o] IN
    /\ Marks(tx, e, o, n) /\ n \in 0 .. Lot /\ n <= AtClob(o).matched
    /\ \/ s.status \in {"SUBMITTED", "PARTIAL"} /\ s.pm # NoPm
       \/ /\ s.status = "CANCELLED" /\ "noEcho" \in Faults /\ o \in stale
          /\ e.positions = tx.positions
       \/ /\ s.status = "FILLED" /\ AtClob(o).state = "filled"
          /\ s.filled = n /\ n = AtClob(o).matched /\ n > 0
          /\ o \in SellIds => n >= s.size
       \/ /\ s.status = "CANCELLED" /\ s.filled = n
          /\ o \in SellIds /\ Linked(tx, o) /\ n > 0 =>
                 e.positions[s.token] = ReducePosition(tx.positions[s.token], s.price, n)
          /\ o \in Tokens \/ n = 0 => e.positions = tx.positions
          /\ \/ AtClob(o).state = "canceled" /\ UNCHANGED clob /\ n = AtClob(o).matched
             \/ Cancels(o)

\* _mark_partial_cancelled takes the fill off the position that links to the order.
LEMMA CancelReduces ==
    ASSUME NEW d, GoodDb(d), NEW o \in OrderIds, NEW n \in 0 .. Lot, n >= d.orders[o].filled,
           NEW e, e = MarkPartialCancelled(d, o, n)
    PROVE  /\ e.orders[o].filled = n
           /\ e.orders[o].token = d.orders[o].token /\ e.orders[o].price = d.orders[o].price
           /\ o \in SellIds /\ Linked(d, o) /\ n > 0 =>
                  e.positions[d.orders[o].token] =
                      ReducePosition(d.positions[d.orders[o].token], d.orders[o].price, n)
           /\ o \in Tokens \/ n = 0 => e.positions = d.positions
  <1> DEFINE r   == d.orders[o]
             row == [r EXCEPT !.status = "CANCELLED", !.filled = IF n > 0 THEN n ELSE r.filled]
             f   == SetOrder(d, o, row)
  <1>1. /\ r \in OrderRow /\ r.filled \in 0 .. Lot /\ Lot \in Nat
        /\ Tokens \cap SellIds = {}
    BY DbAssumption DEF GoodDb, Database, OrderRow
  <1>2. (IF n > 0 THEN n ELSE r.filled) = n  BY <1>1
  <1>3. /\ row \in OrderRow /\ row.filled = n /\ row.token = r.token /\ row.price = r.price
    BY <1>1, <1>2 DEF OrderRow, Terminal
  <1>4. e = IF o \in SellIds /\ n > 0 /\ Linked(d, o)
            THEN SetPosition(f, r.token, ReducePosition(d.positions[r.token], r.price, n))
            ELSE f
    BY DEF MarkPartialCancelled
  <1>5. row.status = "CANCELLED" /\ row.pm = r.pm  BY <1>1 DEF OrderRow
  <1> HIDE DEF row
  <1>6. f.orders[o] = row /\ f.positions = d.positions  BY SetOrderRow
  <1>7. GoodDb(f)  BY <1>3, <1>5, SetOrderUpdates DEF Updates
  <1> HIDE DEF f
  <1>8. CASE o \in SellIds /\ n > 0 /\ Linked(d, o)
    <2>1. r.token \in Tokens  BY Zenon, <1>8 DEF Linked
    <2>2. /\ e.positions[r.token] = ReducePosition(d.positions[r.token], r.price, n)
          /\ e.orders = f.orders
      BY SMTT(30), <1>4, <1>7, <1>8, <2>1, SetPositionRow
    <2> QED BY <1>1, <1>3, <1>6, <1>8, <2>2
  <1>9. CASE ~(o \in SellIds /\ n > 0 /\ Linked(d, o))
    BY <1>1, <1>3, <1>4, <1>6, <1>9
  <1> QED BY <1>8, <1>9

\* Every record reports the fill the CLOB told, or the one on record.
LEMMA RecordsReports ==
    ASSUME Inv, SharesInv, NEW o \in poller.todo, NEW e, Records(o, e)
    PROVE  \E n : Reports(o, e, n)
  <1> DEFINE n == AtClob(o).matched
             m == tx.orders[o].filled
  <1>1. /\ GoodDb(tx) /\ RowsOK(tx) /\ o \in OrderIds
        /\ n \in 0 .. Lot /\ n >= m /\ m \in 0 .. Lot /\ Lot \in Nat
        /\ AtClob(o).state = "filled" => n > 0 /\ (o \in SellIds => n >= tx.orders[o].size)
    BY TodoKnown
  <1>2. Alive(tx, o)  BY DEF SharesInv, TodoInv
  <1> HIDE DEF n, m
  <1>3. CASE e = tx
    <2>1. Marks(tx, tx, o, n)  BY <1>1 DEF Marks, RowMarked, PositionMarked, m
    <2> QED BY <1>1, <1>2, <1>3, <2>1 DEF Reports, Alive, n
  <1>4. CASE "noEcho" \in Faults /\ o \in stale /\ e = MarkCancelled(tx, o)
    <2>1. Marks(tx, e, o, n)  BY <1>1, <1>4, MarkCancelledMarks
    <2>2. e.orders[o].status = "CANCELLED" /\ e.positions = tx.positions
      <3>1. tx.orders[o] \in OrderRow  BY <1>1 DEF GoodDb, Database
      <3> QED BY <1>1, <1>4, <3>1, SetOrderRow DEF MarkCancelled, OrderRow
    <2> QED BY <1>1, <1>4, <2>1, <2>2 DEF Reports, n
  <1>5. ASSUME NEW k \in {n, m}, e = MarkPartialCancelled(tx, o, k),
               (AtClob(o).state = "canceled" /\ UNCHANGED clob /\ k = n) \/ Cancels(o)
        PROVE  Reports(o, e, k)
    <2>1. k \in 0 .. Lot /\ k >= tx.orders[o].filled /\ k <= n  BY <1>1 DEF m
    <2>2. Marks(tx, e, o, k) /\ e.orders[o].status = "CANCELLED"
      BY <1>1, <1>5, <2>1, MarkPartialCancelledMarks
    <2>3. /\ e.orders[o].filled = k
          /\ e.orders[o].token = tx.orders[o].token /\ e.orders[o].price = tx.orders[o].price
          /\ o \in SellIds /\ Linked(tx, o) /\ k > 0 =>
                 e.positions[tx.orders[o].token] =
                     ReducePosition(tx.positions[tx.orders[o].token], tx.orders[o].price, k)
          /\ o \in Tokens \/ k = 0 => e.positions = tx.positions
      BY <1>1, <1>5, <2>1, CancelReduces
    <2> QED BY <1>5, <2>1, <2>2, <2>3 DEF Reports, n
  <1>6. CASE AtClob(o).state = "filled" /\ e = MarkFilled(tx, o, n)
    <2>1. Marks(tx, e, o, n)  BY <1>1, <1>6, MarkFilledMarks DEF m
    <2>2. e.orders[o].status = "FILLED" /\ e.orders[o].filled = n
      <3> DEFINE row == [tx.orders[o] EXCEPT !.status = "FILLED", !.filled = n]
                 f   == SetOrder(tx, o, row)
      <3>1. tx.orders[o] \in OrderRow  BY <1>1 DEF GoodDb, Database
      <3>2. row.status = "FILLED" /\ row.filled = n /\ row \in OrderRow /\ row.pm = tx.orders[o].pm
        BY <1>1, <3>1 DEF OrderRow, Terminal
      <3>3. e.orders = f.orders
        BY <1>6 DEF MarkFilled, SetPosition
      <3> HIDE DEF row
      <3>4. f.orders[o] = row  BY <1>1, SetOrderRow
      <3> QED BY <3>2, <3>3, <3>4
    <2>3. e.orders[o].size = tx.orders[o].size  BY <2>1 DEF Marks, RowMarked
    <2> QED BY <1>1, <1>6, <2>1, <2>2, <2>3 DEF Reports, n
  <1>7. CASE AtClob(o).state = "live" /\ e = MarkPartial(tx, o, n)
    <2>1. Marks(tx, e, o, n)  BY <1>1, <1>7, MarkPartialMarks DEF m
    <2>2. e.orders[o].status \in {"SUBMITTED", "PARTIAL"} /\ e.orders[o].pm # NoPm
      <3>1. tx.orders[o] \in OrderRow  BY <1>1 DEF GoodDb, Database
      <3>2. e.orders[o].status = "PARTIAL" \/ e = tx
        <4> DEFINE row == [tx.orders[o] EXCEPT !.status = "PARTIAL", !.filled = n]
        <4>1. row.status = "PARTIAL"  BY <3>1 DEF OrderRow
        <4>2. e = tx \/ e = SetOrder(tx, o, row)  BY <1>7 DEF MarkPartial
        <4> HIDE DEF row
        <4> QED BY <1>1, <4>1, <4>2, SetOrderRow
      <3>3. e.orders[o].pm = tx.orders[o].pm  BY <2>1 DEF Marks, RowMarked
      <3> QED BY <1>2, <3>2, <3>3 DEF Alive
    <2> QED BY <1>1, <1>7, <2>1, <2>2 DEF Reports, n
  <1> QED BY <1>3, <1>4, <1>5, <1>6, <1>7 DEF Records, n, m

-----------------------------------------------------------------------------
(* The steps of the other tasks, and of the CLOB *)

\* The manager and the requests read, commit, insert an exit, or take the CLOB's answer.
LEMMA TaskKinds ==
    ASSUME Inv, ManagerNext
    PROVE  \/ UNCHANGED <<dbVars, clob>>
           \/ \E task \in Tasks \ {"poller"} :
                 \/ Commit(task) /\ UNCHANGED clob
                 \/ \E t \in Tokens, o \in SellIds, n \in 0 .. Lot, policy \in {"ride", "cancel"} :
                       n > 0 /\ SubmitExit(task, t, o, n, policy) /\ UNCHANGED clob
                 \/ \E o \in SellIds : writer = task /\ Fresh(tx, o) /\ PlaceOrder(task, o)
  <1>1. "manager" \in Tasks \ {"poller"} /\ \A c \in Closers : c \in Tasks \ {"poller"}
    BY TaskNames DEF Tasks
  <1>2. /\ manager.size \in 0 .. Lot
        /\ manager.pc = "submit" => manager.cur \in Tokens /\ manager.size > 0
        /\ manager.pc = "place" =>
               writer = "manager" /\ manager.row \in SellIds /\ Fresh(tx, manager.row)
    BY DEF Inv, TypeOK, ManagerTypeOK, ManagerType, ManagerInv
  <1>3. \A c \in Closers :
            /\ closer[c].size \in 0 .. Lot
            /\ closer[c].pc = "submit" => closer[c].cur \in Tokens /\ closer[c].size > 0
            /\ closer[c].pc = "place" =>
                   writer = c /\ closer[c].row \in SellIds /\ Fresh(tx, closer[c].row)
    BY DEF Inv, TypeOK, ManagerTypeOK, CloserType, CloserInv, CloserOK
  <1>4. CASE CycleStart \/ Refresh \/ Hold \/ CycleAbort \/ \E t \in Tokens : CheckExit(t)
    BY <1>4 DEF CycleStart, Refresh, Hold, CycleAbort, CheckExit
  <1>5. CASE Place  BY <1>1, <1>2, <1>5 DEF Place
  <1>6. CASE CycleCommit  BY <1>1, <1>6 DEF CycleCommit
  <1>7. ASSUME NEW o \in SellIds, Exit(o)
        PROVE  \E t \in Tokens, n \in 0 .. Lot, policy \in {"ride", "cancel"} :
                   n > 0 /\ SubmitExit("manager", t, o, n, policy) /\ UNCHANGED clob
    BY <1>2, <1>7 DEF Exit
  <1>8. ASSUME NEW c \in Closers,
               CloseCheck(c) \/ CloseGiveUp(c) \/ \E t \in Tokens : CloseRead(c, t)
        PROVE  UNCHANGED <<dbVars, clob>>
    BY <1>8 DEF CloseCheck, CloseGiveUp, CloseRead
  <1>9. ASSUME NEW c \in Closers, ClosePlace(c)
        PROVE  \E o \in SellIds : writer = c /\ Fresh(tx, o) /\ PlaceOrder(c, o)
    BY <1>3, <1>9 DEF ClosePlace, CloserAt
  <1>10. ASSUME NEW c \in Closers, CloseCommit(c)
         PROVE  Commit(c) /\ UNCHANGED clob
    BY <1>10 DEF CloseCommit
  <1>11. ASSUME NEW c \in Closers, NEW o \in SellIds, CloseSubmit(c, o)
         PROVE  \E t \in Tokens, n \in 0 .. Lot, policy \in {"ride", "cancel"} :
                    n > 0 /\ SubmitExit(c, t, o, n, policy) /\ UNCHANGED clob
    BY <1>3, <1>11 DEF CloseSubmit, CloserAt
  <1>12. CASE ManagerCycle
    BY <1>1, <1>4, <1>5, <1>6, <1>7, <1>12 DEF ManagerCycle
  <1>13. ASSUME NEW c \in Closers, CloserNext(c)
         PROVE  \/ UNCHANGED <<dbVars, clob>>
                \/ \E task \in Tasks \ {"poller"} :
                     \/ Commit(task) /\ UNCHANGED clob
                     \/ \E t \in Tokens, o \in SellIds, n \in 0 .. Lot, policy \in {"ride", "cancel"} :
                           n > 0 /\ SubmitExit(task, t, o, n, policy) /\ UNCHANGED clob
                     \/ \E o \in SellIds : writer = task /\ Fresh(tx, o) /\ PlaceOrder(task, o)
    BY <1>1, <1>8, <1>9, <1>10, <1>11, <1>13 DEF CloserNext
  <1> QED BY <1>12, <1>13 DEF ManagerNext

\* An order that is canceled stays as it is.
Stands(k, l) == \A m \in PmIds : k[m].state = "canceled" => l[m] = k[m]

\* And the exchange lists nothing by itself.
Exchanges(k, l) ==
    /\ Stands(k, l)
    /\ \A m \in PmIds : /\ l[m].state # "unknown" => k[m].state # "unknown"
                        /\ l[m].stray = k[m].stray

LEMMA ClobExchanges ==
    ASSUME Inv, \/ UNCHANGED clob
                \/ \E m \in PmIds : Match(m) \/ Delist(m)
                \/ \E o \in poller.todo : Canceling(o)
    PROVE  Exchanges(clob, clob')
  <1>1. CASE UNCHANGED clob  BY <1>1 DEF Exchanges, Stands
  <1>2. ASSUME NEW m \in PmIds, Match(m) \/ Delist(m)  PROVE  Exchanges(clob, clob')
    <2>1. clob[m].state = "live" /\ \A q \in PmIds \ {m} : clob'[q] = clob[q]
      BY <1>2 DEF Match, Delist, Inv, TypeOK, DbTypeOK
    <2>2. clob'[m].stray = clob[m].stray
      <3>1. clob \in [PmIds -> ClobOrder] /\ clob[m] \in ClobOrder
        BY DEF Inv, TypeOK, DbTypeOK
      <3>2. CASE Match(m)
        <4> DEFINE s == IF clob[m].matched + 1 = clob[m].size THEN "filled" ELSE "live"
                   n == clob[m].matched + 1
                   w == [clob[m] EXCEPT !.matched = n, !.state = s]
        <4>1. clob'[m] = w  BY <3>1, <3>2 DEF Match, ClobOrder
        <4> HIDE DEF s, n
        <4>2. w.stray = clob[m].stray  BY <3>1 DEF ClobOrder
        <4> QED BY <4>1, <4>2
      <3>3. CASE Delist(m)
        <4>1. clob'[m] = [clob[m] EXCEPT !.state = "canceled"]  BY <3>1, <3>3 DEF Delist
        <4> QED BY <3>1, <4>1 DEF ClobOrder
      <3> QED BY <1>2, <3>2, <3>3
    <2> QED BY <2>1, <2>2 DEF Exchanges, Stands
  <1>3. ASSUME NEW o \in poller.todo, Canceling(o)  PROVE  Exchanges(clob, clob')
    <2>1. /\ tx.orders[o].pm \in PmIds /\ clob[tx.orders[o].pm].state = "live"
          /\ \A q \in PmIds \ {tx.orders[o].pm} : clob'[q] = clob[q]
      BY <1>3, TodoNamed DEF Canceling, AtClob, Inv, TypeOK, DbTypeOK
    <2> DEFINE m == tx.orders[o].pm
    <2>2. clob'[m].stray = clob[m].stray
      <3>1. clob \in [PmIds -> ClobOrder] /\ clob[m] \in ClobOrder
        BY <2>1 DEF Inv, TypeOK, DbTypeOK
      <3>2. clob'[m] = [clob[m] EXCEPT !.state = "canceled"]  BY <1>3, <2>1, <3>1 DEF Canceling
      <3> QED BY <3>1, <3>2 DEF ClobOrder
    <2> QED BY SMTT(30), <2>1, <2>2 DEF Exchanges, Stands
  <1> QED BY <1>1, <1>2, <1>3

\* Marking renames no row.
LEMMA MarksNames ==
    ASSUME NEW d, NEW e, NEW o \in OrderIds, NEW n, Marks(d, e, o, n)
    PROVE  \A x \in OrderIds : e.orders[x].pm = d.orders[x].pm
  BY DEF Marks, RowMarked

-----------------------------------------------------------------------------
(* The orders that are live at the CLOB are known *)

\* A step of the poller.
LEMMA PollerKnown ==
    ASSUME Inv, SharesInv, KnownInv, PollerNext
    PROVE  KnownInv'
  <1>1. Touches => Exchanges(clob, clob')  BY ClobExchanges DEF Touches, Cancels
  <1>3. \A m \in SellPms : m \in PmIds  BY DEF PmIds
  <1>4. CASE UNCHANGED dbVars /\ Touches
    BY <1>1, <1>3, <1>4 DEF KnownInv, dbVars, Exchanges
  <1>5. CASE Commit("poller") /\ UNCHANGED clob
    BY <1>5, TaskNames DEF KnownInv, Commit
  <1>6. CASE Rollback("poller") /\ Touches
    BY <1>1, <1>3, <1>6, TaskNames DEF KnownInv, Rollback, Exchanges
  <1>7. ASSUME NEW o \in poller.todo, NEW e, Write("poller", e), Records(o, e)  PROVE  KnownInv'
    <2>1. PICK n : Reports(o, e, n)  BY <1>7, RecordsReports
    <2>2. o \in OrderIds /\ Marks(tx, e, o, n)  BY <2>1, TodoNamed DEF Reports
    <2>3. \A x \in SellIds : e.orders[x].pm = tx.orders[x].pm
      <3>1. \A x \in OrderIds : e.orders[x].pm = tx.orders[x].pm  BY <2>2, MarksNames
      <3> QED BY <3>1 DEF OrderIds
    <2>4. Touches  BY <1>7 DEF Records, Touches
    <2>5. /\ tx' = e /\ db' = db /\ writer' = "poller" /\ writer \in {NoTask, "poller"}
      BY <1>7 DEF Write
    <2> QED BY <1>1, <1>3, <2>3, <2>4, <2>5, TaskNames
            DEF KnownInv, Exchanges, SharesInv, LedgersInv
  <1> QED BY <1>4, <1>5, <1>6, <1>7, PollerKinds

\* A step of the manager or of a request.
LEMMA TasksKnown ==
    ASSUME Inv, SharesInv, KnownInv, ManagerNext, UNCHANGED pollerVars
    PROVE  KnownInv'
  <1>1. /\ GoodDb(tx) /\ NoPm \notin PmIds /\ clob \in [PmIds -> ClobOrder]
        /\ \A m \in SellPms : m \in PmIds /\ \A o \in SellIds : o \in OrderIds
    BY SMTT(30), DbAssumption DEF Inv, DbInv, TypeOK, DbTypeOK, PmIds, OrderIds
  <1>3. CASE UNCHANGED <<dbVars, clob>>  BY <1>3 DEF KnownInv, dbVars
  <1>4. ASSUME NEW task \in Tasks \ {"poller"}, Commit(task), UNCHANGED clob  PROVE  KnownInv'
    BY <1>4, TaskNames DEF KnownInv, Commit, View
  <1>5. ASSUME NEW task \in Tasks \ {"poller"}, NEW t \in Tokens, NEW o \in SellIds,
               NEW n \in 0 .. Lot, NEW policy \in {"ride", "cancel"},
               SubmitExit(task, t, o, n, policy), UNCHANGED clob
        PROVE  KnownInv'
    <2>1. PICK price \in Prices : Write(task, InsertExit(tx, t, o, n, price, policy))
      BY <1>5 DEF SubmitExit
    <2> DEFINE e == InsertExit(tx, t, o, n, price, policy)
    <2>2. \A x \in OrderIds \ {o} : e.orders[x] = tx.orders[x]  BY <1>1, InsertExitRows
    <2>3. tx' = e /\ writer' = task  BY <2>1 DEF Write
    <2>4. tx.orders[o].pm = NoPm  BY <1>1, <1>5 DEF SubmitExit, IsNextRow, GoodDb, OrderIds
    <2> HIDE DEF e
    <2> QED BY <1>1, <1>5, <2>2, <2>3, <2>4 DEF KnownInv
  <1>6. ASSUME NEW task \in Tasks \ {"poller"}, NEW o \in SellIds, Fresh(tx, o), PlaceOrder(task, o)
        PROVE  KnownInv'
    <2>1. \A m : /\ Acked(tx, o, m).orders[o].pm = m
                 /\ Refused(tx, o).orders[o].pm = tx.orders[o].pm
                 /\ \A x \in OrderIds \ {o} : /\ Acked(tx, o, m).orders[x] = tx.orders[x]
                                              /\ Refused(tx, o).orders[x] = tx.orders[x]
      <3>1. o \in OrderIds  BY DEF OrderIds
      <3>2. ASSUME NEW m
            PROVE  /\ AnswerOf(tx, Acked(tx, o, m), o) /\ Acked(tx, o, m).orders[o].pm = m
                   /\ AnswerOf(tx, Refused(tx, o), o)
                   /\ Refused(tx, o).orders[o].pm = tx.orders[o].pm
        BY <1>1, <3>1, AnswerRows
      <3> QED BY <3>2 DEF AnswerOf
    <2>2. tx.orders[o].pm = NoPm  BY <1>6 DEF Fresh
    <2>3. CASE Write(task, Refused(tx, o)) /\ UNCHANGED clob
      <3>1. tx' = Refused(tx, o) /\ writer' = task  BY <2>3 DEF Write
      <3> QED BY <1>1, <2>1, <2>2, <2>3, <3>1 DEF KnownInv
    <2>4. ASSUME NEW m \in SellPms, NEW k, clob' = [clob EXCEPT ![m] = k],
                 \/ Write(task, Acked(tx, o, m))
                 \/ Write(task, Refused(tx, o)) /\ k.stray
          PROVE  KnownInv'
      <3>1. clob'[m] = k /\ \A q \in SellPms \ {m} : clob'[q] = clob[q]  BY <1>1, <2>4
      <3>2. writer' = task /\ task # "poller"  BY <2>4 DEF Write
      <3>3. CASE tx' = Acked(tx, o, m)
        <4>1. tx'.orders[o].pm = m  BY <2>1, <3>3
        <4>2. \A x \in SellIds \ {o} : tx'.orders[x].pm = tx.orders[x].pm
          BY <1>1, <2>1, <3>3
        <4>3. \A q \in SellPms : q # NoPm  BY <1>1
        <4> QED BY <2>2, <3>1, <3>2, <4>1, <4>2, <4>3 DEF KnownInv
      <3>4. CASE tx' = Refused(tx, o) /\ k.stray
        <4>1. \A x \in SellIds : tx'.orders[x].pm = tx.orders[x].pm
          BY <1>1, <2>1, <3>4
        <4> QED BY <3>1, <3>2, <3>4, <4>1 DEF KnownInv
      <3> QED BY <2>4, <3>3, <3>4 DEF Write
    <2>5. \A t, n : Unheard(t, n).stray  BY DEF Unheard, Listed
    <2> QED BY <1>6, <2>3, <2>4, <2>5 DEF PlaceOrder
  <1> QED BY <1>3, <1>4, <1>5, <1>6, TaskKinds

\* Every step keeps what is known.
LEMMA NextKnown ==
    ASSUME Inv, SharesInv, KnownInv, Next
    PROVE  KnownInv'
  <1>1. CASE PollerNext  BY <1>1, PollerKnown
  <1>2. CASE ManagerNext /\ UNCHANGED pollerVars  BY <1>2, TasksKnown
  <1>3. CASE (Exchange \/ Lock \/ Unlock) /\ UNCHANGED <<pollerVars, managerVars>>
    <2>1. /\ UNCHANGED <<dbVars, phase, poller>>
          /\ UNCHANGED clob \/ \E m \in PmIds : Match(m) \/ Delist(m)
      BY <1>3 DEF Exchange, Match, Delist, Lock, Unlock, pollerVars
    <2>2. Exchanges(clob, clob')  BY <2>1, ClobExchanges
    <2> QED BY <2>1, <2>2 DEF KnownInv, Exchanges, dbVars, PmIds
  <1>4. CASE Restart
    <2>1. /\ tx' = db /\ writer' = NoTask  BY <1>4, NothingToReconcile DEF Restart
    <2>2. SameTrades(clob, clob') /\ \A m \in PmIds : clob'[m].stray \/ m \notin CutOff
      BY <1>4, RestartTrades
    <2>3. ASSUME NEW m \in SellPms, clob'[m].state # "unknown", ~clob'[m].stray
          PROVE  \E o \in SellIds : tx'.orders[o].pm = m
      <3>1. m \in PmIds  BY DEF PmIds
      <3>2. clob[m].state # "unknown" /\ ~clob[m].stray /\ m \notin CutOff
        BY <2>2, <2>3, <3>1 DEF SameTrades
      <3>3. PICK o \in SellIds : tx.orders[o].pm = m  BY <3>2 DEF KnownInv
      <3>4. db.orders[o].pm = m  BY <3>2, <3>3 DEF CutOff
      <3> QED BY <2>1, <3>4
    <2> QED BY <2>1, <2>3, TaskNames DEF KnownInv
  <1> QED BY <1>1, <1>2, <1>3, <1>4 DEF Next

\* At first the CLOB lists no SELL.
LEMMA InitKnown ==
    ASSUME Init
    PROVE  KnownInv
  <1>1. Tokens \cap SellPms = {} /\ NoTask # "poller"  BY DbAssumption DEF Tasks
  <1>2. \A m \in SellPms : clob[m] = NotListed  BY <1>1 DEF Init, DbInit, PmIds
  <1>3. \A m \in SellPms : clob[m].state = "unknown"  BY <1>2 DEF NotListed
  <1> QED BY <1>1, <1>3 DEF Init, DbInit, PollerInit, PollerIdle, KnownInv

\* Whatever the poller does not see, whatever requests come in and however often the
\* process is stopped, dies and starts again, every order that is live at the CLOB is
\* known to the orders table or still being submitted (trading.py:269-270), but those
\* whose answer was lost or whose row a crash cut off before its commit: there is no
\* other way to an order nobody knows of.
THEOREM OrdersKnown == Spec => []LiveOrdersKnown
  <1>1. Init => KnownInv  BY InitKnown
  <1>2. Inv /\ SharesInv /\ KnownInv /\ [Next]_vars => KnownInv'
    <2>1. KnownInv /\ UNCHANGED vars => KnownInv'  BY DEF vars, KnownInv
    <2> QED BY <2>1, NextKnown
  <1>3. KnownInv => LiveOrdersKnown  BY DEF KnownInv, LiveOrdersKnown, View
  <1> QED BY <1>1, <1>2, <1>3, Invariance, SharesInvariance, PTL DEF Spec

-----------------------------------------------------------------------------
(* What was cancelled is on record *)

\* What the CLOB canceled stays as it was recorded.
LEMMA RecordStays ==
    ASSUME NEW d, GoodDb(d), NEW k, NEW l, Recorded(d, k), Stands(k, l)
    PROVE  Recorded(d, l)
  <1> SUFFICES ASSUME NEW o \in OrderIds, d.orders[o].status = "CANCELLED"
               PROVE  /\ d.orders[o].pm # NoPm /\ l[d.orders[o].pm].state = "canceled"
                      /\ d.orders[o].filled = l[d.orders[o].pm].matched
    BY DEF Recorded
  <1>1. d.orders[o].pm \in PmIds
    <2>1. d.orders[o] \in OrderRow  BY DEF GoodDb, Database
    <2> QED BY <2>1 DEF OrderRow, Recorded
  <1> QED BY <1>1 DEF Recorded, Stands

\* When one row changes, the others remain recorded.
LEMMA RecordOne ==
    ASSUME NEW d, NEW e, NEW k, Recorded(d, k), NEW o \in OrderIds,
           \A x \in OrderIds \ {o} : e.orders[x] = d.orders[x],
           e.orders[o].status = "CANCELLED" =>
               /\ e.orders[o].pm # NoPm /\ k[e.orders[o].pm].state = "canceled"
               /\ e.orders[o].filled = k[e.orders[o].pm].matched
    PROVE  Recorded(e, k)
  BY DEF Recorded

\* A poll in which nothing is stale cancels nothing.
LEMMA PollerPolls ==
    ASSUME Inv, RecordedInv, PollerNext, Faults \cap {"age", "shutdown"} = {}
    PROVE  stale' = {} /\ poller'.pc \notin {"cancel", "sweep"}
  <1>1. /\ poller \in PollerType /\ PollerIdle.pc = "idle"
        /\ stale = {} /\ poller.pc \notin {"cancel", "sweep"}
        /\ ~ShutdownStart /\ ~SweepEnd /\ ~CancelAcked /\ ~CancelNotAcked
        /\ \A o \in OrderIds : ~Age(o) /\ ~SweepAcked(o) /\ ~SweepNotAcked(o) /\ ~CancelsWhenStale(o)
    BY DEF Inv, TypeOK, PollerTypeOK, PollerIdle, ShutdownStart, SweepEnd, RecordedInv, Age,
           SweepAcked, SweepNotAcked, CancelAcked, CancelNotAcked, CancelsWhenStale
  <1>2. PollStart => stale' = {} /\ poller'.pc = "poll"
    BY <1>1 DEF PollStart, PollerIdle
  <1>3. PollCommit \/ PollAbort => stale' = {} /\ poller'.pc = "idle"
    BY <1>1 DEF PollCommit, PollAbort
  <1>4. ASSUME NEW o \in OrderIds, PollNoEcho(o) \/ PollCanceled(o) \/ PollFilled(o) \/ PollLive(o)
        PROVE  stale' = {} /\ poller'.pc = "poll"
    <2>1. stale' = {} /\ poller.pc = "poll" /\ poller' = Done(o)
      BY <1>1, <1>4 DEF PollNoEcho, PollCanceled, PollFilled, PollLive, Polls
    <2> QED BY <2>1 DEF Done, PollerIdle
  <1> QED BY <1>1, <1>2, <1>3, <1>4 DEF PollerNext, PollerCycle, PollerShutdown

\* A step of the poller.
LEMMA PollerRecords ==
    ASSUME Inv, SharesInv, RecordedInv, PollerNext, Faults \cap {"age", "shutdown"} = {}
    PROVE  RecordedInv'
  <1>1. Recorded(db, clob) /\ Recorded(tx, clob) /\ GoodDb(db) /\ GoodDb(tx)
    BY DEF RecordedInv, Inv, DbInv
  <1>2. stale' = {} /\ poller'.pc \notin {"cancel", "sweep"}  BY PollerPolls
  <1>3. \A o : ~Cancels(o)  BY DEF Cancels, RecordedInv
  <1>4. CASE UNCHANGED dbVars /\ Touches
    BY <1>1, <1>2, <1>3, <1>4 DEF RecordedInv, dbVars, Touches
  <1>5. CASE Commit("poller") /\ UNCHANGED clob
    BY <1>1, <1>2, <1>5 DEF RecordedInv, Commit, View
  <1>6. CASE Rollback("poller") /\ Touches
    BY <1>1, <1>2, <1>3, <1>6 DEF RecordedInv, Rollback, Touches
  <1>7. ASSUME NEW o \in poller.todo, NEW e, Write("poller", e), Records(o, e)
        PROVE  RecordedInv'
    <2>1. PICK n : Reports(o, e, n)  BY <1>7, RecordsReports
    <2>2. /\ o \in OrderIds /\ tx.orders[o].pm # NoPm
          /\ e.orders[o].pm = tx.orders[o].pm
          /\ \A x \in OrderIds \ {o} : e.orders[x] = tx.orders[x]
      BY <2>1, TodoNamed DEF Reports, Marks, RowMarked, SharesInv, TodoInv, Alive
    <2>3. UNCHANGED clob  BY <1>3, <1>7 DEF Records
    <2>4. e.orders[o].status = "CANCELLED" =>
              AtClob(o).state = "canceled" /\ e.orders[o].filled = AtClob(o).matched
      BY <1>3, <2>1 DEF Reports, RecordedInv
    <2>5. Recorded(e, clob)  BY <1>1, <2>2, <2>4, RecordOne DEF AtClob
    <2>6. tx' = e /\ db' = db  BY <1>7 DEF Write
    <2> QED BY <1>1, <1>2, <2>3, <2>5, <2>6 DEF RecordedInv
  <1> QED BY <1>4, <1>5, <1>6, <1>7, PollerKinds

\* A step of the manager or of a request.
LEMMA TasksRecord ==
    ASSUME Inv, SharesInv, RecordedInv, ManagerNext, UNCHANGED pollerVars
    PROVE  RecordedInv'
  <1>1. /\ Recorded(db, clob) /\ Recorded(tx, clob) /\ GoodDb(db) /\ GoodDb(tx)
        /\ stale' = {} /\ poller'.pc \notin {"cancel", "sweep"}
        /\ clob \in [PmIds -> ClobOrder] /\ \A m \in SellPms : m \in PmIds
        /\ \A o \in SellIds : o \in OrderIds
    BY DEF RecordedInv, Inv, DbInv, pollerVars, TypeOK, DbTypeOK, PmIds, OrderIds
  <1>2. CASE UNCHANGED <<dbVars, clob>>  BY <1>1, <1>2 DEF RecordedInv, dbVars
  <1>3. ASSUME NEW task, Commit(task), UNCHANGED clob  PROVE  RecordedInv'
    BY <1>1, <1>3 DEF RecordedInv, Commit, View
  <1>4. ASSUME NEW task, NEW e, Write(task, e), Recorded(e, clob), Stands(clob, clob'),
               GoodDb(e)
        PROVE  RecordedInv'
    <2>1. tx' = e /\ db' = db  BY <1>4 DEF Write
    <2>2. Recorded(e, clob') /\ Recorded(db, clob')  BY <1>1, <1>4, RecordStays
    <2> QED BY <1>1, <2>1, <2>2 DEF RecordedInv
  <1>5. UNCHANGED clob => Stands(clob, clob')  BY DEF Stands
  <1>6. ASSUME NEW task, NEW t \in Tokens, NEW o \in SellIds, NEW n \in 0 .. Lot, n > 0,
               NEW policy \in {"ride", "cancel"}, SubmitExit(task, t, o, n, policy), UNCHANGED clob
        PROVE  RecordedInv'
    <2>1. PICK price \in Prices : Write(task, InsertExit(tx, t, o, n, price, policy))
      BY <1>6 DEF SubmitExit
    <2> DEFINE e == InsertExit(tx, t, o, n, price, policy)
    <2>2. GoodDb(e)
      BY <1>1, <1>6, InsertExitGood DEF SubmitExit, IsNextRow
    <2>3. e.orders[o].status = "PENDING_SUBMIT" /\ \A x \in OrderIds \ {o} : e.orders[x] = tx.orders[x]
      BY <1>1, InsertExitRows
    <2>4. Write(task, e)  BY <2>1
    <2> HIDE DEF e
    <2>5. Recorded(e, clob)  BY <1>1, <2>3, RecordOne
    <2> QED BY <1>4, <1>5, <1>6, <2>2, <2>4, <2>5
  <1>7. ASSUME NEW task, NEW o \in SellIds, Fresh(tx, o), PlaceOrder(task, o)  PROVE  RecordedInv'
    <2>1. ASSUME NEW e, AnswerOf(tx, e, o)  PROVE  Recorded(e, clob)
      BY <1>1, <2>1, RecordOne DEF AnswerOf
    <2>2. /\ GoodDb(Refused(tx, o)) /\ Recorded(Refused(tx, o), clob)
          /\ \A m \in PmIds : GoodDb(Acked(tx, o, m)) /\ Recorded(Acked(tx, o, m), clob)
      <3>1. \A m : AnswerOf(tx, Acked(tx, o, m), o) /\ AnswerOf(tx, Refused(tx, o), o)
        BY <1>1, AnswerRows
      <3>2. GoodDb(Refused(tx, o)) /\ \A m \in PmIds : GoodDb(Acked(tx, o, m))
        BY <1>1, <1>7, AnswerGood
      <3> QED BY <2>1, <3>1, <3>2
    <2>3. Stands(clob, clob')
      <3>1. ASSUME NEW m \in SellPms, NEW k, clob[m].state = "unknown", clob' = [clob EXCEPT ![m] = k]
            PROVE  Stands(clob, clob')
        <4>1. \A q \in PmIds \ {m} : clob'[q] = clob[q]  BY <1>1, <3>1
        <4> QED BY <3>1, <4>1 DEF Stands
      <3> QED BY <1>5, <1>7, <3>1 DEF PlaceOrder
    <2> QED BY <1>1, <1>4, <1>7, <2>2, <2>3 DEF PlaceOrder
  <1> QED BY <1>2, <1>3, <1>6, <1>7, TaskKinds

\* Every step keeps what is recorded.
LEMMA NextRecords ==
    ASSUME Inv, SharesInv, RecordedInv, Next, Faults \cap {"age", "shutdown"} = {}
    PROVE  RecordedInv'
  <1>1. Recorded(db, clob) /\ Recorded(tx, clob) /\ GoodDb(db) /\ GoodDb(tx)
    BY DEF RecordedInv, Inv, DbInv
  <1>2. CASE PollerNext  BY <1>2, PollerRecords
  <1>3. CASE ManagerNext /\ UNCHANGED pollerVars  BY <1>3, TasksRecord
  <1>4. CASE (Exchange \/ Lock \/ Unlock) /\ UNCHANGED <<pollerVars, managerVars>>
    <2>1. /\ UNCHANGED <<dbVars, poller, stale>>
          /\ UNCHANGED clob \/ \E m \in PmIds : Match(m) \/ Delist(m)
      BY <1>4 DEF Exchange, Match, Delist, Lock, Unlock, pollerVars
    <2>2. Exchanges(clob, clob')  BY <2>1, ClobExchanges
    <2>3. Recorded(db, clob') /\ Recorded(tx, clob')  BY <1>1, <2>2, RecordStays DEF Exchanges
    <2> QED BY <2>1, <2>3 DEF RecordedInv, dbVars
  <1>5. CASE Restart
    <2>1. /\ db' = db /\ tx' = db /\ UNCHANGED stale /\ poller' = PollerIdle
      BY <1>5, NothingToReconcile DEF Restart
    <2>2. Recorded(db, clob')
      <3>1. \A o \in OrderIds : db.orders[o].pm # NoPm => db.orders[o].pm \in PmIds
        BY <1>1 DEF GoodDb, Database, OrderRow
      <3>2. SameTrades(clob, clob')  BY <1>5, RestartTrades
      <3> QED BY <1>1, <3>1, <3>2 DEF SameTrades, Recorded
    <2> QED BY <2>1, <2>2 DEF RecordedInv, PollerIdle
  <1> QED BY <1>2, <1>3, <1>4, <1>5 DEF Next

\* At first nothing is cancelled.
LEMMA InitRecords ==
    ASSUME Init
    PROVE  RecordedInv
  <1>1. \A o \in OrderIds : db.orders[o].status # "CANCELLED"
    BY DEF Init, DbInit, EntryRow, NoRow
  <1> QED BY <1>1 DEF Init, DbInit, PollerInit, PollerIdle, RecordedInv, Recorded

\* What an order that the exchange cancelled is recorded to have filled is what was
\* matched (trading.py:538-540), with any requests, crashes, rollbacks and lost answers,
\* as long as the bot cancels nothing itself: what it records then is the fill of an
\* answer it got before.
THEOREM CancelledOrdersRecorded ==
    ASSUME Faults \cap {"age", "shutdown"} = {}
    PROVE  Spec => []CancelledFillsRecorded
  <1>1. Init => RecordedInv  BY InitRecords
  <1>2. Inv /\ SharesInv /\ RecordedInv /\ [Next]_vars => RecordedInv'
    <2>1. RecordedInv /\ UNCHANGED vars => RecordedInv'  BY DEF vars, RecordedInv
    <2> QED BY <2>1, NextRecords
  <1>3. RecordedInv => CancelledFillsRecorded
    BY DEF RecordedInv, Recorded, CancelledFillsRecorded
  <1> QED BY <1>1, <1>2, <1>3, Invariance, SharesInvariance, PTL DEF Spec

-----------------------------------------------------------------------------
(* What a poll does to the positions *)

\* What a record does to the position of an order whose SELL, if it is one, sells
\* all of the position it links to.
LEMMA MarkEffect ==
    ASSUME Inv, SharesInv, LinksOK(tx), \A m \in PmIds : clob[m].matched <= clob[m].size,
           NEW o \in poller.todo, NEW e, NEW n, Reports(o, e, n)
    PROVE  LET r == tx.orders[o]
               s == e.orders[o]
               p == tx.positions[r.token]
               q == e.positions[r.token]
           IN  /\ r.token \in Tokens
               /\ \/ q = p
                  \/ /\ o \in Tokens /\ s.status = "FILLED" /\ p = NoPosition
                     /\ q = OpenPosition(s.filled) /\ s.filled > 0
                  \/ /\ o \in SellIds /\ s.status \in Terminal
                     /\ SoldOff(p, q, r.price, s.filled)
               /\ \A u \in Tokens \ {r.token} : e.positions[u] = tx.positions[u]
  <1> DEFINE r == tx.orders[o]
             s == e.orders[o]
             t == r.token
             p == tx.positions[t]
             q == e.positions[t]
  <1>1. /\ Alive(tx, o) /\ GoodDb(tx) /\ Sound(tx, clob) /\ Marks(tx, e, o, n)
        /\ o \in OrderIds /\ r \in OrderRow /\ r.pm \in PmIds /\ r.status \in NonTerminal
        /\ Tokens \cap SellIds = {} /\ Lot \in Nat /\ AtClob(o) \in ClobOrder
    BY TodoNamed, DbAssumption
       DEF Inv, DbInv, SharesInv, TodoInv, LedgersInv, Reports, Alive, NonTerminal
  <1>2. t \in Tokens /\ (o \in Tokens => t = o)
    <2>1. o \in SellIds => o \in Rows(tx)  BY <1>1 DEF Rows, NonTerminal
    <2> QED BY <1>1, <2>1 DEF Sound, RowsOK, OrderIds
  <1>3. p \in PositionRow /\ q \in PositionRow /\ p.size \in Nat
    <2>1. p \in PositionRow /\ q \in PositionRow  BY <1>1, <1>2 DEF Marks, GoodDb, Database
    <2> QED BY <1>1, <2>1 DEF PositionRow
  <1>4. \A u \in Tokens \ {t} : e.positions[u] = tx.positions[u]
    BY <1>1 DEF Marks, PositionMarked
  <1>5. n \in Nat /\ n <= AtClob(o).matched /\ AtClob(o).matched <= AtClob(o).size
        /\ AtClob(o).matched \in Nat /\ AtClob(o).size \in Nat
    BY <1>1 DEF Reports, AtClob, ClobOrder
  <1>6. CASE o \in Tokens
    <2>1. p = NoPosition
      BY <1>1, <1>2, <1>6 DEF Sound, PositionsOK, LinksOK, Terminal, NonTerminal
    <2>2. CASE q = p  BY <1>2, <1>4, <2>2
    <2>3. CASE q # p
      <3>1. /\ s.status = "FILLED" /\ s.filled = n /\ n > 0 /\ q = OpenPosition(n)
        BY <1>1, <1>2, <1>6, <2>3 DEF Marks, PositionMarked, Reports
      <3> QED BY <1>2, <1>4, <1>6, <2>1, <3>1
    <2> QED BY <2>2, <2>3
  <1>7. CASE o \in SellIds
    <2>1. /\ p.status = "OPEN" /\ p.exit = o /\ p.size = r.size /\ Linked(tx, o)
      BY <1>1, <1>2, <1>7 DEF LinksOK, Linked
    <2>2. AtClob(o).size = r.size
      <3>1. o \in Rows(tx) /\ r.pm # NoPm  BY <1>1, <1>7 DEF Rows, Alive, NonTerminal
      <3> QED BY <1>1, <3>1 DEF Sound, NamesOK, AtClob
    <2>3. n <= p.size  BY <1>3, <1>5, <2>1, <2>2
    <2>4. CASE q = p  BY <1>2, <1>4, <2>4
    <2>5. CASE q # p
      <3>1. /\ s.filled = n /\ n > 0
            /\ \/ s.status = "FILLED" /\ q = ClosePosition(p, r.price, n)
               \/ s.status = "CANCELLED" /\ q = ReducePosition(p, r.price, n)
        BY <1>1, <1>7, <2>1, <2>5 DEF Marks, PositionMarked
      <3>2. s.status = "FILLED" => n = p.size
        <4>1. s.status = "FILLED" => n >= s.size /\ s.size = r.size
          BY <1>1, <1>7 DEF Reports, Marks, RowMarked
        <4> QED BY <1>3, <1>5, <2>1, <2>3, <4>1
      <3>3. Lesser(n, p.size) = n  BY <1>3, <1>5, <2>3 DEF Lesser
      <3>4. n \in 1 .. p.size  BY <1>3, <1>5, <2>3, <3>1
      <3>5. n \in 0 .. Lot  BY DEF Reports
      <3>6. SoldOff(p, q, r.price, n)
        <4>1. CASE q = ClosePosition(p, r.price, n) /\ n = p.size
          BY <1>3, <2>1, <3>3, <3>4, <3>5, <4>1, SellOff DEF SoldOff
        <4>2. CASE q = ReducePosition(p, r.price, n)
          BY <1>3, <2>1, <3>3, <3>4, <3>5, <4>2, SellOff DEF SoldOff
        <4> QED BY <3>1, <3>2, <4>1, <4>2
      <3>7. s.status \in Terminal  BY <3>1 DEF Terminal
      <3> QED BY <1>2, <1>4, <1>7, <3>1, <3>6, <3>7
    <2> QED BY <2>4, <2>5
  <1> QED BY <1>1, <1>6, <1>7 DEF OrderIds

\* A record leaves the exits of all other positions linked, and its own if it is
\* still under way.
LEMMA MarkLinks ==
    ASSUME Inv, SharesInv, LinksOK(tx), \A m \in PmIds : clob[m].matched <= clob[m].size,
           NEW o \in poller.todo, NEW e, NEW n, Reports(o, e, n)
    PROVE  LinksOK(e)
  <1> DEFINE r == tx.orders[o]
             s == e.orders[o]
             t == r.token
             p == tx.positions[t]
             q == e.positions[t]
  <1>1. /\ Alive(tx, o) /\ Sound(tx, clob) /\ o \in OrderIds /\ Tokens \cap SellIds = {}
        /\ \A x \in OrderIds \ {o} : e.orders[x] = tx.orders[x]
        /\ s.token = t /\ s.size = r.size /\ s.price = r.price /\ r.status \in NonTerminal
    BY TodoNamed, DbAssumption
       DEF SharesInv, TodoInv, LedgersInv, Reports, Marks, RowMarked, Alive, NonTerminal
  <1>2. /\ t \in Tokens
        /\ \A u \in Tokens \ {t} : e.positions[u] = tx.positions[u]
        /\ \/ q = p
           \/ /\ o \in Tokens /\ s.status = "FILLED" /\ p = NoPosition
              /\ q = OpenPosition(s.filled) /\ s.filled > 0
           \/ /\ o \in SellIds /\ s.status \in Terminal
              /\ SoldOff(p, q, r.price, s.filled)
    BY MarkEffect
  <1>3. s.status # "ABSENT"  BY <1>1 DEF Reports
  <1>4. Terminal \cap NonTerminal = {} /\ "ABSENT" \notin NonTerminal
    BY DEF Terminal, NonTerminal
  <1>5. ASSUME NEW x \in SellIds, e.orders[x].status \in NonTerminal
        PROVE  LET y == e.positions[e.orders[x].token]
               IN  y.status = "OPEN" /\ y.exit = x /\ y.size = e.orders[x].size
    <2>1. x \in OrderIds /\ e.orders[x].token = tx.orders[x].token /\ e.orders[x].size = tx.orders[x].size
          /\ tx.orders[x].status \in NonTerminal
      BY <1>1, <1>5 DEF OrderIds
    <2>2. LET y == tx.positions[tx.orders[x].token]
          IN  y.status = "OPEN" /\ y.exit = x /\ y.size = tx.orders[x].size
      BY <2>1 DEF LinksOK
    <2>3. tx.orders[x].token \in Tokens
      BY <1>1, <1>4, <2>1 DEF Sound, RowsOK, Rows
    <2>4. CASE tx.orders[x].token # t  BY <1>2, <2>1, <2>2, <2>3, <2>4
    <2>5. CASE tx.orders[x].token = t
      <3>1. q = p
        <4>1. CASE o \in Tokens
          <5>1. NoPosition.status = "ABSENT"  BY DEF NoPosition
          <5> QED BY <1>1, <1>2, <2>2, <2>5, <4>1, <5>1
        <4>2. CASE o \in SellIds
          <5>1. p.exit = o  BY <1>1, <4>2 DEF LinksOK
          <5>2. x = o  BY <2>2, <2>5, <5>1
          <5> QED BY <1>1, <1>2, <1>4, <1>5, <4>2, <5>2
        <4> QED BY <1>1, <4>1, <4>2 DEF OrderIds
      <3> QED BY <2>1, <2>2, <2>5, <3>1
    <2> QED BY <2>4, <2>5
  <1>6. ASSUME NEW x \in SellIds
        PROVE  IF e.orders[x].status = "ABSENT" THEN e.orders[x].filled = 0
               ELSE e.orders[x].price \in Prices
    <2>1. x \in OrderIds  BY DEF OrderIds
    <2>2. CASE x = o
      <3>1. r.price \in Prices  BY <1>1, <1>4, <2>2 DEF LinksOK
      <3> QED BY <1>1, <1>3, <2>2, <3>1
    <2>3. CASE x # o
      <3>1. e.orders[x] = tx.orders[x]  BY <1>1, <2>1, <2>3
      <3> QED BY <3>1 DEF LinksOK
    <2> QED BY <2>2, <2>3
  <1>7. ASSUME NEW u \in Tokens, e.positions[u].status = "ABSENT"
        PROVE  e.positions[u] = NoPosition
    <2>1. CASE u # t  BY SMTT(30), <1>2, <1>7, <2>1 DEF LinksOK
    <2>2. CASE u = t
      <3>1. OpenPosition(s.filled).status = "OPEN"  BY DEF OpenPosition, NoPosition
      <3> QED BY <1>2, <1>7, <2>2, <3>1 DEF LinksOK, SoldOff
    <2> QED BY SMTT(30), <2>1, <2>2
  <1> QED BY <1>5, <1>6, <1>7 DEF LinksOK

\* The first record of an order in a poll finds its position as it was committed.
LEMMA NotYetMoved ==
    ASSUME Inv, SharesInv, LinksOK(db), Advances(db, tx), NEW o \in poller.todo,
           tx.orders[o].token \in Tokens
    PROVE  tx.positions[tx.orders[o].token] = db.positions[tx.orders[o].token]
  <1> DEFINE t == tx.orders[o].token
  <1>1. /\ Alive(db, o) /\ Alive(tx, o) /\ Sound(db, clob) /\ Sound(tx, clob) /\ o \in OrderIds
        /\ db.orders[o].token = t /\ PositionAdvances(db, tx, t)
    BY TodoNamed DEF SharesInv, TodoInv, LedgersInv, Advances, RowAdvances
  <1>2. Terminal \cap {"SUBMITTED", "PARTIAL"} = {} /\ NoPosition.status = "ABSENT"
        /\ "OPEN" # "ABSENT" /\ {"SUBMITTED", "PARTIAL"} \subseteq NonTerminal
        /\ "FILLED" \in Terminal /\ Terminal \cap NonTerminal = {}
    BY DEF Terminal, NonTerminal, NoPosition
  <1>3. o \in Tokens => t = o  BY Zenon, <1>1 DEF Sound, RowsOK
  <1>4. CASE o \in Tokens
    <2>1. db.positions[t].status = "ABSENT" /\ tx.orders[t].status # "FILLED"
      BY <1>1, <1>2, <1>3, <1>4 DEF Sound, PositionsOK, Alive
    <2>2. ~\E q \in SellIds : SoldOff(db.positions[t], tx.positions[t],
                                      db.orders[q].price, tx.orders[q].filled)
      BY <1>2, <2>1 DEF SoldOff
    <2> QED BY <1>1, <2>1, <2>2 DEF PositionAdvances
  <1>5. CASE o \in SellIds
    <2>1. db.positions[t].status = "OPEN" /\ db.positions[t].exit = o
      BY <1>1, <1>2, <1>5 DEF LinksOK, Alive
    <2>2. db.positions[t] # NoPosition  BY <1>2, <2>1
    <2>3. ASSUME NEW q \in SellIds, db.orders[q].status \in NonTerminal, db.orders[q].token = t,
                 tx.orders[q].status \in Terminal
          PROVE  FALSE
      <3>1. q = o  BY <2>1, <2>3 DEF LinksOK
      <3> QED BY <1>1, <1>2, <2>3, <3>1 DEF Alive
    <2> QED BY <1>1, <2>2, <2>3 DEF PositionAdvances
  <1> QED BY <1>1, <1>4, <1>5 DEF OrderIds

\* A record advances what the poll has advanced so far.
LEMMA MarkAdvances ==
    ASSUME Inv, SharesInv, LinksOK(db), LinksOK(tx), Advances(db, tx),
           \A m \in PmIds : clob[m].matched <= clob[m].size,
           NEW o \in poller.todo, NEW e, NEW n, Reports(o, e, n)
    PROVE  Advances(db, e)
  <1> DEFINE r == tx.orders[o]
             s == e.orders[o]
             t == r.token
  <1>1. /\ Alive(db, o) /\ Alive(tx, o) /\ Sound(db, clob) /\ Sound(tx, clob) /\ o \in OrderIds
        /\ Tokens \cap SellIds = {}
        /\ \A x \in OrderIds \ {o} : e.orders[x] = tx.orders[x]
        /\ s.token = t /\ s.size = r.size /\ s.price = r.price /\ s.pm = r.pm
        /\ s.filled >= r.filled /\ GoodDb(db) /\ GoodDb(tx) /\ GoodDb(e) /\ Lot \in Nat
    BY TodoNamed, DbAssumption
       DEF SharesInv, TodoInv, LedgersInv, Reports, Marks, RowMarked, Inv, DbInv
  <1>2. /\ t \in Tokens
        /\ \A u \in Tokens \ {t} : e.positions[u] = tx.positions[u]
        /\ \/ e.positions[t] = tx.positions[t]
           \/ /\ o \in Tokens /\ s.status = "FILLED" /\ tx.positions[t] = NoPosition
              /\ e.positions[t] = OpenPosition(s.filled) /\ s.filled > 0
           \/ /\ o \in SellIds /\ s.status \in Terminal
              /\ SoldOff(tx.positions[t], e.positions[t], r.price, s.filled)
    BY MarkEffect
  <1>3. db.orders[o].status \in NonTerminal /\ db.orders[o].status \notin Terminal \cup {"ABSENT"}
    BY <1>1 DEF Alive, NonTerminal, Terminal
  <1>4. tx.positions[t] = db.positions[t]  BY <1>2, NotYetMoved
  <1>5. RowAdvances(db.orders[o], tx.orders[o]) /\ \A x \in OrderIds : RowAdvances(db.orders[x], tx.orders[x])
    BY <1>1 DEF Advances
  <1>6. ASSUME NEW x \in OrderIds  PROVE  RowAdvances(db.orders[x], e.orders[x])
    <2>1. CASE x # o  BY <1>1, <1>5, <2>1
    <2>2. CASE x = o
      <3>1. db.orders[o].filled \in Nat /\ r.filled \in Nat /\ s.filled \in Nat
        <4>1. db.orders[o] \in OrderRow /\ r \in OrderRow /\ s \in OrderRow
          BY <1>1 DEF GoodDb, Database
        <4> QED BY <1>1, <4>1 DEF OrderRow
      <3>2. r.filled >= db.orders[o].filled  BY <1>5 DEF RowAdvances
      <3>3. s.filled >= db.orders[o].filled  BY <1>1, <3>1, <3>2
      <3>4. db.orders[o].status # "ABSENT"  BY <1>3
      <3> QED BY <1>1, <1>3, <1>5, <2>2, <3>3, <3>4 DEF RowAdvances
    <2> QED BY <2>1, <2>2
  <1>7. ASSUME NEW u \in Tokens  PROVE  PositionAdvances(db, e, u)
    <2>1. CASE u = t
      <3>1. /\ db.orders[o].token = t /\ db.orders[o].price = r.price
        BY <1>5 DEF RowAdvances
      <3>2. o \in Tokens => t = o  BY <1>1 DEF Sound, RowsOK
      <3> QED BY <1>2, <1>3, <1>4, <2>1, <3>1, <3>2 DEF PositionAdvances
    <2>2. CASE u # t
      <3>1. e.positions[u] = tx.positions[u] /\ PositionAdvances(db, tx, u)
        BY <1>1, <1>2, <2>2 DEF Advances
      <3>2. u # o /\ u \in OrderIds
        BY <1>1, <2>2 DEF Sound, RowsOK, OrderIds
      <3>3. e.orders[u] = tx.orders[u]  BY <1>1, <3>2
      <3>4. ASSUME NEW q \in SellIds, db.orders[q].token = u
            PROVE  e.orders[q] = tx.orders[q]
        <4>1. q # o  BY <1>5, <2>2, <3>4 DEF RowAdvances
        <4> QED BY <1>1, <4>1 DEF OrderIds
      <3> QED BY <3>1, <3>3, <3>4 DEF PositionAdvances
    <2> QED BY <2>1, <2>2
  <1> QED BY <1>6, <1>7 DEF Advances

\* A ledger that stays as it is advances.
LEMMA AdvancesSelf ==
    ASSUME NEW d, GoodDb(d)
    PROVE  Advances(d, d)
  <1>1. \A o \in OrderIds : d.orders[o].filled >= d.orders[o].filled
    <2> SUFFICES ASSUME NEW o \in OrderIds  PROVE  d.orders[o].filled >= d.orders[o].filled
      OBVIOUS
    <2>1. d.orders[o] \in OrderRow /\ Lot \in Nat  BY DbAssumption DEF GoodDb, Database
    <2>2. d.orders[o].filled \in Nat  BY <2>1 DEF OrderRow
    <2> QED BY <2>2
  <1> QED BY <1>1 DEF Advances, RowAdvances, PositionAdvances

\* What the manager remembers survives a poll: the poll sells what is under way, and
\* nothing is under way of the position that the manager is about to sell.
LEMMA PollRemembered ==
    ASSUME NEW d, NEW e, GoodDb(d), Advances(d, e), Remembers(d), manager \in ManagerType,
           manager.pc \in {"refresh", "submit"} => manager.cur \in Tokens
    PROVE  Remembers(e)
  <1>1. /\ Terminal \cap NonTerminal = {} /\ "ABSENT" \notin NonTerminal
        /\ \A n : OpenPosition(n).exit = NoOrder /\ NoPosition.status = "ABSENT"
    BY DEF Terminal, NonTerminal, OpenPosition, NoPosition
  <1>2. ASSUME NEW t \in Tokens, d.positions[t].exit \in {manager.exits[t], NoOrder}
        PROVE  e.positions[t].exit \in {manager.exits[t], NoOrder}
    <2>1. PositionAdvances(d, e, t)  BY DEF Advances
    <2> QED BY <1>1, <1>2, <2>1 DEF PositionAdvances, SoldOff
  <1>3. ASSUME NEW t \in Tokens, Unsold(d, t)  PROVE  Unsold(e, t)
    <2> SUFFICES ASSUME NEW o \in SellIds, e.orders[o].status \in NonTerminal
                 PROVE  e.orders[o].token # t
      BY DEF Unsold
    <2>1. RowAdvances(d.orders[o], e.orders[o])  BY DEF Advances, OrderIds
    <2>2. d.orders[o].status \in NonTerminal \/ e.orders[o] = d.orders[o]
      <3>1. d.orders[o] \in OrderRow  BY DEF GoodDb, Database, OrderIds
      <3>2. d.orders[o].status \in NonTerminal \cup Terminal \cup {"ABSENT"}
        BY <3>1 DEF OrderRow
      <3> QED BY <2>1, <3>2 DEF RowAdvances
    <2> QED BY <1>3, <2>1, <2>2 DEF Unsold, RowAdvances
  <1>4. ASSUME NEW t \in Tokens, Unsold(d, t), d.positions[t].status = "OPEN"
        PROVE  e.positions[t] = d.positions[t]
    <2>1. PositionAdvances(d, e, t)  BY DEF Advances
    <2>2. d.positions[t] # NoPosition  BY <1>1, <1>4
    <2> QED BY <1>4, <2>1, <2>2 DEF PositionAdvances, Unsold
  <1>5. manager.todo \subseteq Tokens  BY DEF ManagerType
  <1> QED BY <1>2, <1>3, <1>4, <1>5 DEF Remembers

\* As long as the manager rests and sees what it saw, it remembers what it did.
LEMMA StillRemembers ==
    ASSUME NEW d, Remembers(d), UNCHANGED manager, View("manager")' = d
    PROVE  Remembers(View("manager"))'
  BY DEF Remembers

\* The fill of no order exceeds its size, whatever the exchange does.
LEMMA MatchedFits ==
    ASSUME Inv, \A m \in PmIds : clob[m].matched <= clob[m].size,
           \/ UNCHANGED clob
           \/ \E m \in PmIds : Match(m) \/ Delist(m)
           \/ \E o \in poller.todo : Canceling(o)
    PROVE  \A m \in PmIds : clob'[m].matched <= clob'[m].size
  <1>0. clob \in [PmIds -> ClobOrder] /\ Lot \in Nat
        /\ \A m \in PmIds : clob[m].matched \in Nat /\ clob[m].size \in Nat
    <2>1. clob \in [PmIds -> ClobOrder] /\ Lot \in Nat
      BY DbAssumption DEF Inv, TypeOK, DbTypeOK
    <2>2. \A m \in PmIds : clob[m] \in ClobOrder  BY <2>1
    <2>3. \A m \in PmIds : clob[m].matched \in Nat /\ clob[m].size \in Nat
      BY <2>1, <2>2 DEF ClobOrder
    <2> QED BY <2>1, <2>3
  <1>1. CASE UNCHANGED clob  BY <1>1
  <1>2. ASSUME NEW m \in PmIds, clob' = [clob EXCEPT ![m].state = "canceled"]
        PROVE  \A q \in PmIds : clob'[q].matched <= clob'[q].size
    <2>1. clob[m] \in ClobOrder  BY <1>0
    <2>2. clob'[m].matched = clob[m].matched /\ clob'[m].size = clob[m].size
      BY <1>0, <1>2, <2>1 DEF ClobOrder
    <2>3. \A q \in PmIds \ {m} : clob'[q] = clob[q]  BY <1>0, <1>2
    <2> QED BY <2>2, <2>3
  <1>3. ASSUME NEW m \in PmIds, Match(m)
        PROVE  \A q \in PmIds : clob'[q].matched <= clob'[q].size
    <2> DEFINE s == IF clob[m].matched + 1 = clob[m].size THEN "filled" ELSE "live"
               k == [clob[m] EXCEPT !.matched = @ + 1, !.state = s]
    <2>1. clob[m] \in ClobOrder  BY <1>0
    <2>2. clob' = [clob EXCEPT ![m] = k] /\ clob[m].state = "live"
      BY <1>0, <1>3, <2>1 DEF Match, ClobOrder
    <2>3. k.matched = clob[m].matched + 1 /\ k.size = clob[m].size
      BY <2>1 DEF ClobOrder
    <2> HIDE DEF k
    <2>4. clob'[m] = k /\ \A q \in PmIds \ {m} : clob'[q] = clob[q]  BY <1>0, <2>2
    <2>5. clob[m].matched < clob[m].size  BY <2>2 DEF Inv, DbInv, GoodClob
    <2>6. k.matched <= k.size  BY SMTT(30), <1>0, <2>3, <2>5
    <2> QED BY <2>4, <2>6
  <1>4. ASSUME NEW o \in poller.todo, Canceling(o)
        PROVE  \A q \in PmIds : clob'[q].matched <= clob'[q].size
    BY <1>2, <1>4, TodoNamed DEF Canceling
  <1>5. ASSUME NEW m \in PmIds, Delist(m)
        PROVE  \A q \in PmIds : clob'[q].matched <= clob'[q].size
    BY <1>2, <1>5 DEF Delist
  <1> QED BY <1>1, <1>3, <1>4, <1>5

\* A step of the poller keeps the invariant, and what it commits advances the ledger.
LEMMA PollerHistory ==
    ASSUME Inv, SharesInv, HistoryInv, PollerNext, UNCHANGED managerVars
    PROVE  HistoryInv' /\ (db' = db \/ Advances(db, db'))
  <1>1. /\ LinksOK(db) /\ LinksOK(tx) /\ GoodDb(db) /\ GoodDb(tx)
        /\ \A m \in PmIds : clob[m].matched <= clob[m].size
        /\ Remembers(View("manager")) /\ UNCHANGED manager
        /\ manager \in ManagerType
        /\ manager.pc \in {"refresh", "submit"} => manager.cur \in Tokens
    BY DEF HistoryInv, HistoryDbInv, Inv, DbInv, managerVars, TypeOK, ManagerTypeOK, ManagerInv
  <1>2. Touches => \A m \in PmIds : clob'[m].matched <= clob'[m].size
    BY <1>1, MatchedFits DEF Touches, Cancels
  <1>3. CASE UNCHANGED dbVars /\ Touches
    <2>1. View("manager")' = View("manager")  BY <1>3 DEF View, dbVars
    <2>2. Remembers(View("manager"))'  BY <1>1, <2>1, StillRemembers
    <2>3. HistoryDbInv'  BY <1>1, <1>2, <1>3 DEF HistoryInv, HistoryDbInv, dbVars
    <2> QED BY <1>3, <2>2, <2>3 DEF HistoryInv, dbVars
  <1>4. CASE Commit("poller") /\ UNCHANGED clob
    <2>1. CASE writer = "poller"
      <3>1. db' = tx /\ tx' = tx /\ writer' = NoTask /\ View("manager") = db
            /\ View("manager")' = tx
        BY <1>4, <2>1, TaskNames DEF Commit, View
      <3>2. Advances(db, tx)  BY <2>1 DEF HistoryInv, HistoryDbInv
      <3>3. Remembers(tx)  BY <1>1, <3>1, <3>2, PollRemembered
      <3>4. Remembers(View("manager"))'  BY <1>1, <3>1, <3>3, StillRemembers
      <3>5. HistoryDbInv'  BY <1>1, <1>4, <3>1, TaskNames DEF HistoryDbInv
      <3> QED BY <3>1, <3>2, <3>4, <3>5 DEF HistoryInv
    <2>2. CASE writer # "poller"
      <3>1. UNCHANGED dbVars /\ View("manager")' = View("manager")
        BY <1>4, <2>2 DEF Commit, View, dbVars
      <3>2. Remembers(View("manager"))'  BY <1>1, <3>1, StillRemembers
      <3>3. HistoryDbInv'  BY <1>1, <1>4, <3>1 DEF HistoryInv, HistoryDbInv, dbVars
      <3> QED BY <3>1, <3>2, <3>3 DEF HistoryInv, dbVars
    <2> QED BY <2>1, <2>2
  <1>5. CASE Rollback("poller") /\ Touches
    <2>1. View("manager")' = View("manager") /\ db' = db
      BY <1>5, TaskNames DEF Rollback, View
    <2>2. Remembers(View("manager"))'  BY <1>1, <2>1, StillRemembers
    <2>3. \/ tx' = db /\ writer' = NoTask
          \/ tx' = tx /\ writer' = writer
      BY <1>5 DEF Rollback
    <2>4. HistoryDbInv'  BY <1>1, <1>2, <1>5, <2>1, <2>3, TaskNames DEF HistoryInv, HistoryDbInv
    <2> QED BY <2>1, <2>2, <2>4 DEF HistoryInv
  <1>6. ASSUME NEW o \in poller.todo, NEW e, Write("poller", e), Records(o, e)
        PROVE  HistoryInv' /\ db' = db
    <2>1. PICK n : Reports(o, e, n)  BY <1>6, RecordsReports
    <2>2. /\ db' = db /\ tx' = e /\ writer' = "poller" /\ writer \in {NoTask, "poller"}
          /\ Touches
      BY <1>6 DEF Write, Records, Touches
    <2>3. Advances(db, tx)
      BY <1>1, <2>2, AdvancesSelf DEF HistoryInv, HistoryDbInv, SharesInv, LedgersInv
    <2>4. LinksOK(e) /\ Advances(db, e)  BY <1>1, <2>1, <2>3, MarkLinks, MarkAdvances
    <2>5. View("manager")' = View("manager")  BY <2>2, TaskNames DEF View
    <2>6. Remembers(View("manager"))'  BY <1>1, <2>5, StillRemembers
    <2>7. HistoryDbInv'  BY <1>1, <1>2, <2>2, <2>4, TaskNames DEF HistoryDbInv
    <2> QED BY <2>2, <2>6, <2>7 DEF HistoryInv
  <1> QED BY <1>3, <1>4, <1>5, <1>6, PollerKinds

-----------------------------------------------------------------------------
(* What the manager does to the positions *)

\* The ledgers and the CLOB stay as they are.
LEMMA HistoryRests ==
    ASSUME HistoryDbInv, UNCHANGED <<dbVars, clob>>, writer = "manager" => manager'.pc # "idle"
    PROVE  HistoryDbInv' /\ View("manager")' = View("manager")
  BY DEF HistoryDbInv, dbVars, View

\* The manager reads, and what it takes with it is what it sees.
LEMMA ManagerScans ==
    ASSUME Inv, SharesInv, HistoryInv, UNCHANGED <<dbVars, clob>>,
           \/ CycleStart \/ Refresh \/ Hold \/ CycleAbort
           \/ \E t \in Tokens : CheckExit(t)
    PROVE  HistoryInv'
  <1> DEFINE d == View("manager")
  <1>1. /\ manager \in ManagerType /\ LinksOK(d) /\ HistoryDbInv /\ Remembers(d) /\ GoodDb(d)
        /\ writer = "manager" => manager.pc # "idle"
    BY DEF Inv, TypeOK, ManagerTypeOK, HistoryInv, HistoryDbInv, DbInv, View
  <1>2. ASSUME NEW r, manager' = r, writer = "manager" => r.pc # "idle",
               \A t \in Tokens : t \in r.todo \/ (r.pc = "refresh" /\ t = r.cur) =>
                   d.positions[t].exit \in {r.exits[t], NoOrder},
               r.pc \in {"refresh", "submit"} => Unsold(d, r.cur),
               r.pc \in {"refresh", "submit", "place"} => r.cur \notin r.todo,
               r.pc = "submit" => /\ d.positions[r.cur].status = "OPEN"
                                  /\ d.positions[r.cur].size = r.size
        PROVE  HistoryInv'
    <2>1. HistoryDbInv' /\ View("manager")' = d  BY <1>1, <1>2, HistoryRests
    <2> HIDE DEF d
    <2>2. Remembers(View("manager"))'  BY <1>2, <2>1 DEF Remembers
    <2> QED BY <2>1, <2>2 DEF HistoryInv
  <1>3. CASE CycleStart
    <2> DEFINE r == [ManagerIdle EXCEPT !.pc = "scan", !.todo = OpenPositions(db),
                                        !.exits = [t \in Tokens |-> db.positions[t].exit]]
    <2>1. manager' = r /\ manager.pc = "idle"  BY <1>3 DEF CycleStart
    <2>2. r.pc = "scan" /\ \A t \in Tokens : r.exits[t] = db.positions[t].exit
      BY DEF ManagerIdle
    <2>3. d = db  BY <1>1, <2>1 DEF View
    <2> HIDE DEF r, d
    <2> QED BY <1>2, <2>1, <2>2, <2>3
  <1>4. CASE CycleAbort
    <2>1. manager' = ManagerIdle /\ writer # "manager"  BY <1>4 DEF CycleAbort, LockedOut
    <2>2. ManagerIdle.pc = "idle" /\ ManagerIdle.todo = {}  BY DEF ManagerIdle
    <2> HIDE DEF d
    <2> QED BY <1>2, <2>1, <2>2
  <1>5. ASSUME manager' = NextPosition  PROVE  HistoryInv'
    <2>1. NextPosition.pc = "scan" /\ NextPosition.todo = manager.todo
          /\ NextPosition.exits = manager.exits
      BY <1>1 DEF NextPosition, ManagerType
    <2>2. \A t \in Tokens : t \in manager.todo => d.positions[t].exit \in {manager.exits[t], NoOrder}
      BY <1>1 DEF Remembers
    <2> HIDE DEF d
    <2> QED BY <1>2, <1>5, <2>1, <2>2
  <1>6. CASE Hold  BY <1>5, <1>6 DEF Hold
  <1>7. CASE Refresh
    <2>1. CASE d.positions[manager.cur].status = "OPEN"
      <3> DEFINE r == [manager EXCEPT !.pc = "submit", !.size = d.positions[manager.cur].size]
      <3>1. manager' = r /\ manager.pc = "refresh"  BY <1>7, <2>1 DEF Refresh
      <3>2. /\ r.pc = "submit" /\ r.todo = manager.todo /\ r.exits = manager.exits
            /\ r.cur = manager.cur /\ r.size = d.positions[manager.cur].size
        BY <1>1 DEF ManagerType
      <3>3. /\ \A t \in Tokens : t \in manager.todo =>
                   d.positions[t].exit \in {manager.exits[t], NoOrder}
            /\ Unsold(d, manager.cur) /\ manager.cur \notin manager.todo
        BY <1>1, <3>1 DEF Remembers
      <3> HIDE DEF r, d
      <3> QED BY <1>2, <2>1, <3>1, <3>2, <3>3
    <2>2. CASE d.positions[manager.cur].status # "OPEN"
      BY <1>5, <1>7, <2>2 DEF Refresh
    <2> QED BY <2>1, <2>2
  <1>8. ASSUME NEW t \in Tokens, CheckExit(t)  PROVE  HistoryInv'
    <2>1. /\ t \in manager.todo /\ manager.pc = "scan"
          /\ \A u \in Tokens : u \in manager.todo =>
                 d.positions[u].exit \in {manager.exits[u], NoOrder}
      BY <1>1, <1>8 DEF CheckExit, Remembers
    <2>2. CASE InFlight(d, manager.exits[t])
      <3> DEFINE r == [manager EXCEPT !.todo = @ \ {t}]
      <3>1. manager' = r  BY <1>8, <2>2 DEF CheckExit
      <3>2. r.pc = "scan" /\ r.todo = manager.todo \ {t} /\ r.exits = manager.exits
        BY <1>1, <2>1 DEF ManagerType
      <3> HIDE DEF r, d
      <3> QED BY <1>2, <2>1, <3>1, <3>2
    <2>3. CASE ~InFlight(d, manager.exits[t])
      <3> DEFINE r == [manager EXCEPT !.todo = @ \ {t}, !.pc = "refresh", !.cur = t]
      <3>1. manager' = r  BY <1>8, <2>3 DEF CheckExit
      <3>2. r.pc = "refresh" /\ r.todo = manager.todo \ {t} /\ r.exits = manager.exits /\ r.cur = t
        BY <1>1 DEF ManagerType
      <3>3. Unsold(d, t)
        <4> SUFFICES ASSUME NEW o \in SellIds, d.orders[o].status \in NonTerminal,
                            d.orders[o].token = t
                     PROVE  FALSE
          BY DEF Unsold
        <4>1. d.positions[t].exit = o  BY <1>1 DEF LinksOK
        <4>2. o # NoOrder  BY DbAssumption DEF OrderIds
        <4>3. manager.exits[t] = o  BY <2>1, <4>1, <4>2
        <4> QED BY <2>3, <4>2, <4>3 DEF InFlight
      <3> HIDE DEF r, d
      <3> QED BY <1>2, <2>1, <3>1, <3>2, <3>3
    <2> QED BY <2>2, <2>3
  <1> QED BY <1>3, <1>4, <1>6, <1>7, <1>8

\* What the manager's transaction starts from.
LEMMA ManagerView ==
    ASSUME Inv, SharesInv, HistoryInv, writer \in {NoTask, "manager"}
    PROVE  /\ View("manager") = tx
           /\ \A o \in OrderIds : db.orders[o].status # "ABSENT" => tx.orders[o] = db.orders[o]
           /\ Submits(db, tx)
  <1>1. CASE writer = "manager"
    BY <1>1 DEF View, HistoryInv, HistoryDbInv, Submits
  <1>2. CASE writer = NoTask
    <2>1. tx = db /\ View("manager") = tx
      BY <1>2, TaskNames DEF SharesInv, LedgersInv, View
    <2> QED BY <2>1 DEF Submits
  <1> QED BY <1>1, <1>2

\* An exit for what is left of an OPEN position that nothing is selling.
LEMMA ExitHistory ==
    ASSUME Inv, SharesInv, HistoryInv, NEW o \in SellIds, Exit(o)
    PROVE  HistoryInv' /\ db' = db
  <1> DEFINE t == manager.cur
  <1>1. /\ t \in Tokens /\ manager.pc = "submit" /\ manager \in ManagerType
        /\ GoodDb(tx) /\ LinksOK(tx) /\ LinksOK(db) /\ o \in OrderIds
        /\ tx.orders[o].status = "ABSENT" /\ UNCHANGED clob
        /\ \A m \in PmIds : clob[m].matched <= clob[m].size
    BY DEF Exit, Inv, ManagerInv, TypeOK, ManagerTypeOK, DbInv, SubmitExit, IsNextRow,
           HistoryInv, HistoryDbInv, OrderIds
  <1>2. PICK policy \in {"ride", "cancel"}, price \in Prices :
            Write("manager", InsertExit(tx, t, o, manager.size, price, policy))
    BY DEF Exit, SubmitExit
  <1> DEFINE e == InsertExit(tx, t, o, manager.size, price, policy)
  <1>3. /\ e.orders[o].status = "PENDING_SUBMIT" /\ e.orders[o].token = t
        /\ e.orders[o].size = manager.size /\ e.orders[o].price = price
        /\ \A x \in OrderIds \ {o} : e.orders[x] = tx.orders[x]
        /\ e.positions[t].exit = o
        /\ e.positions[t].status = tx.positions[t].status
        /\ e.positions[t].size = tx.positions[t].size
        /\ e.positions[t].partial = tx.positions[t].partial
        /\ e.positions[t].pnl = tx.positions[t].pnl
        /\ \A u \in Tokens \ {t} : e.positions[u] = tx.positions[u]
    BY <1>1, InsertExitRows
  <1>4. tx' = e /\ db' = db /\ writer' = "manager" /\ writer \in {NoTask, "manager"}
    BY <1>2 DEF Write
  <1> HIDE DEF e
  <1>5. /\ View("manager") = tx /\ Submits(db, tx) /\ View("manager")' = e
        /\ \A x \in OrderIds : db.orders[x].status # "ABSENT" => tx.orders[x] = db.orders[x]
    <2>1. View("manager")' = e  BY <1>4 DEF View
    <2> QED BY <1>4, <2>1, ManagerView
  <1>6. /\ Unsold(tx, t) /\ tx.positions[t].status = "OPEN" /\ tx.positions[t].size = manager.size
        /\ t \notin manager.todo
        /\ \A u \in Tokens : u \in manager.todo =>
               tx.positions[u].exit \in {manager.exits[u], NoOrder}
    BY <1>1, <1>5 DEF HistoryInv, Remembers
  <1>7. LinksOK(e)
    <2>1. ASSUME NEW x \in SellIds, e.orders[x].status \in NonTerminal
          PROVE  LET y == e.positions[e.orders[x].token]
                 IN  y.status = "OPEN" /\ y.exit = x /\ y.size = e.orders[x].size
      <3>1. CASE x = o  BY SMTT(30), <1>3, <1>6, <3>1
      <3>2. CASE x # o
        <4>1. e.orders[x] = tx.orders[x]  BY <1>3, <3>2 DEF OrderIds
        <4>2. tx.orders[x].token # t  BY <1>6, <2>1, <4>1 DEF Unsold
        <4>3. tx.orders[x].token \in Tokens
          BY <2>1, <4>1 DEF SharesInv, LedgersInv, Sound, RowsOK, Rows, NonTerminal
        <4>4. e.positions[tx.orders[x].token] = tx.positions[tx.orders[x].token]
          BY <1>3, <4>2, <4>3
        <4> QED BY <1>1, <2>1, <4>1, <4>4 DEF LinksOK
      <3> QED BY <3>1, <3>2
    <2>2. ASSUME NEW x \in SellIds
          PROVE  IF e.orders[x].status = "ABSENT" THEN e.orders[x].filled = 0
                 ELSE e.orders[x].price \in Prices
      <3>1. CASE x = o  BY <1>3, <3>1
      <3>2. CASE x # o
        <4>1. e.orders[x] = tx.orders[x]  BY <1>3, <3>2 DEF OrderIds
        <4> QED BY SMTT(30), <1>1, <4>1 DEF LinksOK
      <3> QED BY <3>1, <3>2
    <2>3. ASSUME NEW u \in Tokens, e.positions[u].status = "ABSENT"
          PROVE  e.positions[u] = NoPosition
      BY <1>1, <1>3, <1>6, <2>3 DEF LinksOK
    <2> QED BY <2>1, <2>2, <2>3 DEF LinksOK
  <1>8. Submits(db, e)
    <2>1. ASSUME NEW x \in OrderIds, db.orders[x].status # "ABSENT"
          PROVE  e.orders[x] = db.orders[x]
      BY <1>1, <1>3, <1>5, <2>1
    <2>2. ASSUME NEW u \in Tokens
          PROVE  LET p == db.positions[u]
                     q == e.positions[u]
                 IN  /\ q.status = p.status /\ q.size = p.size /\ q.partial = p.partial
                     /\ q.pnl = p.pnl
                     /\ q.exit # p.exit => p.status = "OPEN" /\ Unsold(db, u)
      <3>1. CASE u # t
        <4>1. e.positions[u] = tx.positions[u]  BY <1>3, <3>1
        <4> QED BY <1>5, <4>1 DEF Submits
      <3>2. CASE u = t
        <4>1. Unsold(db, t)
          <5> SUFFICES ASSUME NEW x \in SellIds, db.orders[x].status \in NonTerminal
                       PROVE  db.orders[x].token # t
            BY DEF Unsold
          <5>1. tx.orders[x] = db.orders[x]  BY <1>5 DEF NonTerminal, OrderIds
          <5> QED BY <1>6, <5>1 DEF Unsold
        <4> QED BY <1>3, <1>5, <1>6, <3>2, <4>1 DEF Submits
      <3> QED BY <3>1, <3>2
    <2> QED BY <2>1, <2>2 DEF Submits
  <1>9. /\ manager'.pc = "place" /\ manager'.todo = manager.todo /\ manager'.exits = manager.exits
        /\ manager'.cur = t
    BY <1>1 DEF Exit, ManagerType
  <1>10. Remembers(View("manager"))'
    <2>1. \A u \in Tokens : u \in manager.todo => e.positions[u].exit \in {manager.exits[u], NoOrder}
      BY <1>3, <1>6
    <2> QED BY <1>5, <1>6, <1>9, <2>1 DEF Remembers
  <1>11. HistoryDbInv'
    BY <1>1, <1>4, <1>7, <1>8, <1>9, TaskNames DEF HistoryDbInv
  <1> QED BY <1>4, <1>10, <1>11 DEF HistoryInv

\* The CLOB's answer reaches the row that this transaction inserted.
LEMMA PlaceHistory ==
    ASSUME Inv, SharesInv, HistoryInv, Place
    PROVE  HistoryInv' /\ db' = db
  <1> DEFINE o == manager.row
  <1>1. /\ o \in SellIds /\ o \in OrderIds /\ Fresh(tx, o) /\ manager.pc = "place"
        /\ manager \in ManagerType /\ writer = "manager" /\ GoodDb(tx)
        /\ LinksOK(tx) /\ LinksOK(db) /\ clob \in [PmIds -> ClobOrder]
        /\ \A m \in PmIds : clob[m].matched <= clob[m].size
        /\ manager' = NextPosition
    BY DEF Place, Inv, ManagerInv, TypeOK, ManagerTypeOK, DbTypeOK, DbInv,
           HistoryInv, HistoryDbInv, OrderIds
  <1>2. /\ View("manager") = tx /\ Submits(db, tx)
        /\ \A x \in OrderIds : db.orders[x].status # "ABSENT" => tx.orders[x] = db.orders[x]
    BY <1>1, ManagerView
  <1>3. db.orders[o].status = "ABSENT"
    BY <1>1, <1>2 DEF SharesInv, PendingInv, Fresh
  <1>4. ASSUME NEW e, AnswerOf(tx, e, o), Write("manager", e),
               \A m \in PmIds : clob'[m].matched <= clob'[m].size
        PROVE  HistoryInv' /\ db' = db
    <2>1. /\ tx' = e /\ db' = db /\ writer' = "manager" /\ View("manager")' = e
      BY <1>4 DEF Write, View
    <2>2. /\ e.positions = tx.positions /\ \A x \in OrderIds \ {o} : e.orders[x] = tx.orders[x]
          /\ e.orders[o].token = tx.orders[o].token /\ e.orders[o].size = tx.orders[o].size
          /\ e.orders[o].price = tx.orders[o].price /\ e.orders[o].status # "ABSENT"
          /\ tx.orders[o].status \in NonTerminal /\ tx.orders[o].status # "ABSENT"
      BY <1>1, <1>4 DEF AnswerOf, Fresh, NonTerminal
    <2>3. LinksOK(e)
      <3>1. \A x \in SellIds : x \in OrderIds /\ (x # o => e.orders[x] = tx.orders[x])
        BY Zenon, <2>2 DEF OrderIds
      <3>2. ASSUME NEW x \in SellIds, e.orders[x].status \in NonTerminal
            PROVE  LET p == e.positions[e.orders[x].token] IN
                   p.status = "OPEN" /\ p.exit = x /\ p.size = e.orders[x].size
        <4>1. /\ tx.orders[x].status \in NonTerminal
              /\ e.orders[x].token = tx.orders[x].token /\ e.orders[x].size = tx.orders[x].size
          BY SMTT(30), <2>2, <3>1, <3>2
        <4> QED BY <1>1, <2>2, <4>1 DEF LinksOK
      <3>3. ASSUME NEW x \in SellIds
            PROVE  IF e.orders[x].status = "ABSENT" THEN e.orders[x].filled = 0
                   ELSE e.orders[x].price \in Prices
        BY SMTT(30), <1>1, <2>2, <3>1 DEF LinksOK
      <3>4. \A t \in Tokens : e.positions[t].status = "ABSENT" => e.positions[t] = NoPosition
        BY <1>1, <2>2 DEF LinksOK
      <3> QED BY <3>2, <3>3, <3>4 DEF LinksOK
    <2>4. Submits(db, e)  BY <1>2, <1>3, <2>2 DEF Submits
    <2>5. /\ manager'.pc = "scan" /\ manager'.todo = manager.todo
          /\ manager'.exits = manager.exits
      BY <1>1 DEF NextPosition, ManagerType
    <2>6. Remembers(View("manager"))'
      <3>1. \A u \in Tokens : u \in manager.todo =>
                e.positions[u].exit \in {manager.exits[u], NoOrder}
        BY <1>2, <2>2 DEF HistoryInv, Remembers
      <3> QED BY <2>1, <2>5, <3>1 DEF Remembers
    <2>7. HistoryDbInv'  BY <1>1, <1>4, <2>1, <2>3, <2>4, <2>5, TaskNames DEF HistoryDbInv
    <2> QED BY <2>1, <2>6, <2>7 DEF HistoryInv
  <1>5. \A m : AnswerOf(tx, Acked(tx, o, m), o) /\ AnswerOf(tx, Refused(tx, o), o)
    BY <1>1, AnswerRows
  <1>6. CASE Write("manager", Refused(tx, o)) /\ UNCHANGED clob
    BY <1>1, <1>4, <1>5, <1>6
  <1>7. ASSUME NEW m \in SellPms,
               NEW k \in {Listed(tx.orders[o].token, tx.orders[o].size),
                          Unheard(tx.orders[o].token, tx.orders[o].size)},
               clob' = [clob EXCEPT ![m] = k],
               Write("manager", Acked(tx, o, m)) \/ Write("manager", Refused(tx, o))
        PROVE  HistoryInv' /\ db' = db
    <2>1. \A q \in PmIds : clob'[q].matched <= clob'[q].size
      <3>1. m \in PmIds  BY DEF PmIds
      <3>2. /\ tx.orders[o].size \in 0 .. Lot /\ tx.orders[o].token \in Tokens \cup {NoToken}
            /\ Lot \in Nat
        <4>1. tx.orders[o] \in OrderRow /\ Lot \in Nat
          BY <1>1, DbAssumption DEF GoodDb, Database
        <4> QED BY <4>1 DEF OrderRow
      <3>3. k.matched <= k.size
        <4>1. k.matched = 0 /\ k.size = tx.orders[o].size  BY <1>7, <3>2, ListedOrders
        <4> QED BY <3>2, <4>1
      <3>4. clob'[m] = k /\ \A q \in PmIds \ {m} : clob'[q] = clob[q]
        BY <1>1, <1>7, <3>1
      <3> QED BY <1>1, <3>3, <3>4
    <2> QED BY <1>4, <1>5, <1>7, <2>1
  <1> QED BY <1>6, <1>7 DEF Place, PlaceOrder

\* Every step of the manager keeps the invariant, and what it commits are submissions.
LEMMA ManagerHistory ==
    ASSUME Inv, SharesInv, HistoryInv, ManagerCycle
    PROVE  HistoryInv' /\ (db' = db \/ Submits(db, db'))
  <1>1. CASE CycleStart \/ Refresh \/ Hold \/ CycleAbort \/ \E t \in Tokens : CheckExit(t)
    <2>1. UNCHANGED dbVars /\ UNCHANGED clob
      BY <1>1 DEF CycleStart, Refresh, Hold, CycleAbort, CheckExit
    <2> QED BY <1>1, <2>1, ManagerScans DEF dbVars
  <1>2. CASE CycleCommit
    <2>1. /\ manager' = ManagerIdle /\ UNCHANGED clob /\ Commit("manager")
      BY <1>2 DEF CycleCommit
    <2>2. Remembers(View("manager"))'  BY <2>1 DEF Remembers, ManagerIdle
    <2>3. CASE writer = "manager"
      <3>1. db' = tx /\ tx' = tx /\ writer' = NoTask  BY <2>1, <2>3 DEF Commit, View
      <3>2. HistoryDbInv'  BY <2>1, <3>1, TaskNames DEF HistoryInv, HistoryDbInv
      <3> QED BY <2>2, <2>3, <3>1, <3>2 DEF HistoryInv, HistoryDbInv
    <2>4. CASE writer # "manager"
      <3>1. UNCHANGED dbVars  BY <2>1, <2>4 DEF Commit, View, dbVars
      <3>2. HistoryDbInv'  BY <2>1, <2>4, <3>1, HistoryRests DEF HistoryInv
      <3> QED BY <2>2, <3>1, <3>2 DEF HistoryInv, dbVars
    <2> QED BY <2>3, <2>4
  <1> QED BY <1>1, <1>2, ExitHistory, PlaceHistory DEF ManagerCycle

-----------------------------------------------------------------------------
(* Without requests: the invariant, and what becomes of the ledger *)

\* Every step keeps the invariant; the ledger changes by a poll or by submissions.
LEMMA NextHistory ==
    ASSUME Inv, SharesInv, HistoryInv, [Next]_vars, Closers = {}
    PROVE  HistoryInv' /\ (db' = db \/ Advances(db, db') \/ Submits(db, db'))
  <1>1. CASE PollerNext /\ UNCHANGED managerVars  BY <1>1, PollerHistory
  <1>2. CASE ManagerNext  BY <1>2, ManagerHistory DEF ManagerNext
  <1>3. ASSUME UNCHANGED <<dbVars, managerVars>>,
               UNCHANGED clob \/ \E m \in PmIds : Match(m) \/ Delist(m)
        PROVE  HistoryInv' /\ db' = db
    <2>1. \A m \in PmIds : clob'[m].matched <= clob'[m].size
      BY <1>3, MatchedFits DEF HistoryInv, HistoryDbInv
    <2>2. View("manager")' = View("manager") /\ UNCHANGED manager
      BY <1>3 DEF View, dbVars, managerVars
    <2>3. Remembers(View("manager"))'  BY <2>2, StillRemembers DEF HistoryInv
    <2>4. HistoryDbInv'  BY <1>3, <2>1, <2>2 DEF HistoryInv, HistoryDbInv, dbVars
    <2> QED BY <1>3, <2>3, <2>4 DEF HistoryInv, dbVars
  <1>4. CASE (Exchange \/ Lock \/ Unlock) /\ UNCHANGED <<pollerVars, managerVars>>
    <2>1. /\ UNCHANGED <<dbVars, managerVars>>
          /\ UNCHANGED clob \/ \E m \in PmIds : Match(m) \/ Delist(m)
      BY <1>4 DEF Exchange, Match, Delist, Lock, Unlock
    <2> QED BY <1>3, <2>1
  <1>5. CASE Restart
    <2>0. \A m \in PmIds : clob'[m].matched <= clob'[m].size
      BY <1>5, RestartTrades DEF SameTrades, HistoryInv, HistoryDbInv
    <2>1. /\ db' = db /\ tx' = db /\ writer' = NoTask
          /\ manager' = ManagerIdle
      BY <1>5, NothingToReconcile DEF Restart
    <2>2. Remembers(View("manager"))'  BY <2>1 DEF Remembers, ManagerIdle
    <2>3. HistoryDbInv'  BY <2>0, <2>1, TaskNames DEF HistoryInv, HistoryDbInv
    <2> QED BY <2>1, <2>2, <2>3 DEF HistoryInv
  <1>6. CASE UNCHANGED vars
    <2>1. UNCHANGED <<dbVars, managerVars>> /\ UNCHANGED clob
      BY <1>6 DEF vars, dbVars, managerVars
    <2> QED BY <1>3, <2>1
  <1> QED BY <1>1, <1>2, <1>4, <1>5, <1>6 DEF Next

\* At first nothing is sold.
LEMMA InitHistory ==
    ASSUME Init
    PROVE  HistoryInv
  <1>1. /\ tx = db /\ writer = NoTask /\ manager = ManagerIdle
        /\ \A o \in SellIds : db.orders[o] = NoRow
        /\ \A t \in Tokens : db.positions[t] = NoPosition
    BY DbAssumption DEF Init, DbInit, ManagerInit, OrderIds
  <1>2. NoRow.status = "ABSENT" /\ NoRow.filled = 0 /\ "ABSENT" \notin NonTerminal
    BY DEF NoRow, NonTerminal
  <1>3. LinksOK(db)  BY <1>1, <1>2 DEF LinksOK
  <1>4. \A m \in PmIds : clob[m].matched <= clob[m].size
    <2>1. Lot \in Nat /\ 0 <= Lot  BY DbAssumption
    <2>2. \A t : Listed(t, Lot).matched <= Listed(t, Lot).size  BY <2>1 DEF Listed
    <2>3. NotListed.matched <= NotListed.size  BY DEF NotListed
    <2> QED BY <2>2, <2>3 DEF Init, DbInit
  <1>5. Remembers(View("manager"))  BY <1>1 DEF Remembers, ManagerIdle
  <1> QED BY <1>1, <1>3, <1>4, <1>5, TaskNames DEF HistoryInv, HistoryDbInv

\* Without close requests, exits are linked and what the manager remembers is true.
THEOREM HistoryInvariance ==
    ASSUME Closers = {}
    PROVE  Spec => []HistoryInv
  <1>1. Init => HistoryInv  BY InitHistory
  <1>2. Inv /\ SharesInv /\ HistoryInv /\ [Next]_vars => HistoryInv'  BY NextHistory
  <1> QED BY <1>1, <1>2, Invariance, SharesInvariance, PTL DEF Spec

\* Every SELL in flight is the exit of a position that is still OPEN, whatever fills,
\* cancels, crashes and lost answers come in between (position_manager.py:259).
THEOREM ExitsAreLinked ==
    ASSUME Closers = {}
    PROVE  Spec => []ExitLinked
  <1>1. HistoryInv => ExitLinked
    BY DEF HistoryInv, HistoryDbInv, LinksOK, ExitLinked
  <1> QED BY <1>1, HistoryInvariance, PTL

\* The rows of a position with the same fields are the same.
LEMMA SamePosition ==
    ASSUME NEW p \in PositionRow, NEW q \in PositionRow, q.status = p.status, q.size = p.size,
           q.exit = p.exit, q.partial = p.partial, q.pnl = p.pnl
    PROVE  q = p
  BY DEF PositionRow

\* A finished order and a closed position are never written again, and no fill that was
\* recorded is lost (trading.py:485-592).
THEOREM HistoryIsKept ==
    ASSUME Closers = {}
    PROVE  Spec => HistoryStands
  <1>1. ASSUME Inv, Inv', SharesInv, HistoryInv, [Next]_vars
        PROVE  /\ \A o \in OrderIds :
                     /\ db.orders[o].status \in Terminal => db'.orders[o] = db.orders[o]
                     /\ db'.orders[o].filled >= db.orders[o].filled
               /\ \A t \in Tokens :
                     db.positions[t].status = "CLOSED" => db'.positions[t] = db.positions[t]
    <2>1. /\ GoodDb(db) /\ GoodDb(db') /\ "ABSENT" \notin Terminal /\ Tokens \cap SellIds = {}
          /\ \A o \in OrderIds : db'.orders[o].filled \in Nat /\ db.orders[o].filled \in Nat
      <3>1. GoodDb(db) /\ GoodDb(db') /\ Lot \in Nat /\ Tokens \cap SellIds = {}
        BY <1>1, DbAssumption DEF Inv, DbInv
      <3>2. \A o \in OrderIds : db.orders[o] \in OrderRow /\ db'.orders[o] \in OrderRow
        BY <3>1 DEF GoodDb, Database
      <3>3. \A o \in OrderIds : db'.orders[o].filled \in Nat /\ db.orders[o].filled \in Nat
        BY <3>1, <3>2 DEF OrderRow
      <3> QED BY <3>1, <3>3 DEF Terminal
    <2>2. CASE db' = db  BY <2>1, <2>2
    <2>3. CASE Advances(db, db')
      <3>1. ASSUME NEW t \in Tokens, db.positions[t].status = "CLOSED"
            PROVE  db'.positions[t] = db.positions[t]
        BY <2>3, <3>1 DEF Advances, PositionAdvances, NoPosition, SoldOff
      <3> QED BY <2>3, <3>1 DEF Advances, RowAdvances
    <2>4. CASE Submits(db, db')
      <3>1. ASSUME NEW o \in OrderIds, db.orders[o].status = "ABSENT"
            PROVE  db.orders[o].filled = 0
        <4>1. o \in SellIds
          BY <1>1, <3>1 DEF SharesInv, LedgersInv, Sound, RowsOK, OrderIds
        <4> QED BY <1>1, <3>1, <4>1 DEF HistoryInv, HistoryDbInv, LinksOK
      <3>2. ASSUME NEW t \in Tokens, db.positions[t].status = "CLOSED"
            PROVE  db'.positions[t] = db.positions[t]
        <4>1. db.positions[t] \in PositionRow /\ db'.positions[t] \in PositionRow
          BY <2>1 DEF GoodDb, Database
        <4>2. /\ db'.positions[t].status = db.positions[t].status
              /\ db'.positions[t].size = db.positions[t].size
              /\ db'.positions[t].exit = db.positions[t].exit
              /\ db'.positions[t].partial = db.positions[t].partial
              /\ db'.positions[t].pnl = db.positions[t].pnl
          BY <2>4, <3>2 DEF Submits
        <4> QED BY <4>1, <4>2, SamePosition
      <3>3. ASSUME NEW o \in OrderIds  PROVE  db'.orders[o].filled >= db.orders[o].filled
        <4>1. CASE db.orders[o].status = "ABSENT"  BY <2>1, <3>1, <4>1
        <4>2. CASE db.orders[o].status # "ABSENT"  BY <2>1, <2>4, <4>2 DEF Submits
        <4> QED BY <4>1, <4>2
      <3> QED BY <2>1, <2>4, <3>2, <3>3 DEF Submits
    <2> QED BY <1>1, <2>2, <2>3, <2>4, NextHistory
  <1> QED BY <1>1, Invariance, SharesInvariance, HistoryInvariance, PTL DEF Spec, HistoryStands

\* An exit is only ever linked to a position that is committed as OPEN
\* (position_manager.py:372-378).
THEOREM OnlyOpenPositionsAreSold ==
    ASSUME Closers = {}
    PROVE  Spec => ExitsOnlyOpenPositions
  <1>1. ASSUME Inv, SharesInv, HistoryInv, [Next]_vars
        PROVE  \A t \in Tokens :
                   db'.positions[t].exit \in SellIds \ {db.positions[t].exit}
                       => db.positions[t].status = "OPEN"
    <2>1. NoOrder \notin SellIds /\ \A n : OpenPosition(n).exit = NoOrder
      BY DbAssumption DEF OrderIds, OpenPosition, NoPosition
    <2>2. CASE db' = db  BY <2>2
    <2>3. CASE Advances(db, db')
      BY <2>1, <2>3 DEF Advances, PositionAdvances, SoldOff
    <2>4. CASE Submits(db, db')  BY <2>4 DEF Submits
    <2> QED BY <1>1, <2>2, <2>3, <2>4, NextHistory
  <1> QED BY <1>1, Invariance, SharesInvariance, HistoryInvariance, PTL
          DEF Spec, ExitsOnlyOpenPositions

-----------------------------------------------------------------------------
(* The refinement *)

\* What the ledger holds of a position, as a portfolio.
LEMMA HoldingIs ==
    ASSUME NEW p
    PROVE  /\ p.status = "ABSENT" /\ p.partial = 0 => Holding(p) = Ledger!Absent
           /\ p.status = "OPEN" => Holding(p) = [status |-> "OPEN", size |-> p.size,
                                                 profit |-> p.partial]
           /\ p.status = "CLOSED" => Holding(p) = [status |-> "CLOSED", size |-> 0,
                                                   profit |-> p.pnl]
  BY DEF Holding, Ledger!Absent

\* A position that is bought or sold off is a holding that is.
LEMMA HoldingSteps ==
    ASSUME GoodDb(db), GoodDb(db'), LinksOK(db), NEW t \in Tokens, PositionAdvances(db, db', t)
    PROVE  LET h == Holding(db.positions[t])
               g == Holding(db'.positions[t])
           IN  h = g \/ Ledger!Buy(h, g) \/ \E n \in 1 .. Lot : Ledger!Sell(h, g, n)
  <1> DEFINE p == db.positions[t]
             q == db'.positions[t]
  <1>1. /\ p \in PositionRow /\ q \in PositionRow /\ Lot \in Nat /\ p.size \in 0 .. Lot
    <2>1. p \in PositionRow /\ q \in PositionRow /\ Lot \in Nat
      BY DbAssumption DEF GoodDb, Database
    <2> QED BY <2>1 DEF PositionRow
  <1>2. CASE q = p  BY <1>2
  <1>3. CASE p = NoPosition /\ q = OpenPosition(db'.orders[t].filled) /\ db'.orders[t].filled > 0
    <2> DEFINE n == db'.orders[t].filled
    <2>1. n \in 0 .. Lot
      <3>1. db'.orders[t] \in OrderRow  BY DEF GoodDb, Database, OrderIds
      <3> QED BY <3>1 DEF OrderRow
    <2>2. n \in 1 .. Lot  BY <1>1, <1>3, <2>1
    <2>3. q.status = "OPEN" /\ q.size = n /\ q.partial = 0
      BY <1>3 DEF OpenPosition, NoPosition
    <2>4. p.status = "ABSENT" /\ p.partial = 0  BY <1>3 DEF NoPosition
    <2> HIDE DEF p, q, n
    <2>5. Ledger!Buy(Holding(p), Holding(q))  BY <2>2, <2>3, <2>4, HoldingIs DEF Ledger!Buy
    <2> QED BY <2>5 DEF p, q
  <1>4. ASSUME NEW o \in SellIds, NEW n, db.orders[o].status \in NonTerminal,
               SoldOff(p, q, db.orders[o].price, n)
        PROVE  \E k \in 1 .. Lot : Ledger!Sell(Holding(p), Holding(q), k)
    <2> DEFINE price == db.orders[o].price
    <2>1. price \in Prices  BY <1>4 DEF LinksOK, NonTerminal
    <2>2. n \in 1 .. p.size /\ n \in 1 .. Lot /\ p.status = "OPEN"  BY <1>1, <1>4 DEF SoldOff
    <2>3. p.size \in Nat /\ n \in Nat /\ p.size - p.size = 0  BY <1>1, <2>2
    <2>4. SoldOff(p, q, price, n)  BY <1>4
    <2> HIDE DEF p, q, price
    <2>5. Holding(p) = [status |-> "OPEN", size |-> p.size, profit |-> p.partial]
      BY <2>2, HoldingIs
    <2>6. CASE n = p.size
      <3>1. Holding(q) = [status |-> "CLOSED", size |-> 0, profit |-> p.partial + (price - Entry) * n]
        BY <2>4, <2>6, HoldingIs DEF SoldOff
      <3> QED BY <2>1, <2>2, <2>3, <2>5, <2>6, <3>1 DEF Ledger!Sell
    <2>7. CASE n # p.size
      <3>1. Holding(q) = [status |-> "OPEN", size |-> p.size - n,
                          profit |-> p.partial + (price - Entry) * n]
        BY <2>4, <2>7, HoldingIs DEF SoldOff
      <3> QED BY <2>1, <2>2, <2>3, <2>5, <2>7, <3>1 DEF Ledger!Sell
    <2> QED BY <2>6, <2>7
  <1> QED BY <1>2, <1>3, <1>4 DEF PositionAdvances

\* What is committed is a portfolio: each position is bought once, sold off in parts by
\* SELL orders that filled, and closed with the profit of all of them.
THEOREM LedgerIsPortfolio ==
    ASSUME Closers = {}
    PROVE  Spec => ImplementsPortfolio
  <1>1. Init => Ledger!Init
    <2>1. NoPosition.status = "ABSENT" /\ NoPosition.partial = 0  BY DEF NoPosition
    <2>2. Holding(NoPosition) = Ledger!Absent  BY <2>1, HoldingIs
    <2>3. Init => Holdings = [t \in Tokens |-> Ledger!Absent]
      BY <2>2 DEF Init, DbInit, Holdings
    <2> QED BY <2>3 DEF Ledger!Init
  <1>2. ASSUME Inv, Inv', SharesInv, HistoryInv, [Next]_vars
        PROVE  [Ledger!Next]_Holdings
    <2>1. GoodDb(db) /\ GoodDb(db') /\ LinksOK(db)
      BY <1>1, <1>2 DEF Inv, DbInv, HistoryInv, HistoryDbInv
    <2>2. /\ \A t \in Tokens : /\ Holdings[t] = Holding(db.positions[t])
                               /\ Holdings'[t] = Holding(db'.positions[t])
          /\ DOMAIN Holdings' = Tokens
      BY DEF Holdings
    <2>3. CASE db' = db  BY <2>3 DEF Holdings
    <2>4. CASE Advances(db, db')
      <3>1. \A t \in Tokens : PositionAdvances(db, db', t)  BY <2>4 DEF Advances
      <3> QED BY <2>1, <2>2, <3>1, HoldingSteps DEF Ledger!Next
    <2>5. CASE Submits(db, db')
      <3>1. ASSUME NEW t \in Tokens  PROVE  Holding(db'.positions[t]) = Holding(db.positions[t])
        BY <2>5 DEF Submits, Holding
      <3> QED BY <2>2, <3>1 DEF Ledger!Next
    <2> QED BY <1>2, <2>3, <2>4, <2>5, NextHistory
  <1> QED BY <1>1, <1>2, Invariance, SharesInvariance, HistoryInvariance, PTL
          DEF Spec, ImplementsPortfolio, Ledger!Spec

-----------------------------------------------------------------------------
(* The books *)

\* The numbers of a row.
LEMMA RowNumbers ==
    ASSUME NEW d, GoodDb(d), NEW o \in OrderIds
    PROVE  d.orders[o].filled \in Nat /\ d.orders[o].price - Entry \in Int
  <1>1. d.orders[o] \in OrderRow /\ Lot \in Nat /\ Entry \in Int /\ Prices \subseteq Int
    BY DbAssumption DEF GoodDb, Database
  <1>2. d.orders[o].price \in Prices \cup {Entry} /\ d.orders[o].filled \in 0 .. Lot
    BY <1>1 DEF OrderRow
  <1>3. d.orders[o].price \in Int  BY <1>1, <1>2
  <1> QED BY <1>1, <1>2, <1>3

\* When one more SELL is finished, what it earned is earned.
LEMMA OneRowEarned ==
    ASSUME NEW d, GoodDb(d), IsFiniteSet(Rows(d)), NEW e, GoodDb(e), NEW o \in OrderIds,
           \A x \in OrderIds \ {o} : e.orders[x] = d.orders[x],
           d.orders[o].status \notin Terminal, NEW t
    PROVE  /\ Earned(d, t) \in Int
           /\ IF o \in SellIds /\ e.orders[o].token = t /\ e.orders[o].status \in Terminal
              THEN Earned(e, t) = Gain(e.orders[o]) + Earned(d, t)
              ELSE Earned(e, t) = Earned(d, t)
  <1> DEFINE F == Finished(d, t)
             G == Finished(e, t)
             f == [x \in SellIds |-> Gain(d.orders[x])]
             g == [x \in SellIds |-> Gain(e.orders[x])]
  <1>1. IsFiniteSet(F)  BY SoldInt
  <1>2. ASSUME NEW c, GoodDb(c), NEW x \in SellIds  PROVE  Gain(c.orders[x]) \in Int
    <2>1. c.orders[x].filled \in Nat /\ c.orders[x].price - Entry \in Int
      BY <1>2, RowNumbers DEF OrderIds
    <2> QED BY <2>1 DEF Gain
  <1>3. /\ \A x \in F : f[x] \in Int
        /\ \A x \in F \cup {o} : o \in SellIds => g[x] \in Int
    <2>1. F \subseteq SellIds  BY DEF Finished
    <2> QED BY <1>2, <2>1
  <1>4. o \notin F  BY DEF Finished
  <1>5. \A x \in SellIds \ {o} : (x \in F <=> x \in G) /\ f[x] = g[x]
    BY DEF Finished, OrderIds
  <1>6. F \subseteq SellIds /\ G \subseteq SellIds  BY DEF Finished
  <1>7. /\ Earned(d, t) = SumFunctionOnSet(f, F) /\ Earned(e, t) = SumFunctionOnSet(g, G)
        /\ o \in SellIds => g[o] = Gain(e.orders[o])
    BY DEF Earned
  <1>8. (o \in SellIds /\ e.orders[o].token = t /\ e.orders[o].status \in Terminal) <=> o \in G
    BY DEF Finished
  <1> HIDE DEF F, G, f, g
  <1>9. SumFunctionOnSet(f, F) \in Int  BY <1>1, <1>3, SumTake
  <1>10. \A x \in F : f[x] = g[x]  BY <1>4, <1>5, <1>6
  <1>11. SumFunctionOnSet(f, F) = SumFunctionOnSet(g, F)  BY <1>1, <1>10, SumAgree
  <1>12. CASE o \in G
    <2>1. G = F \cup {o}  BY <1>4, <1>5, <1>6, <1>12
    <2>2. \A x \in F \cup {o} : g[x] \in Int  BY <1>3, <1>6, <1>12
    <2>3. SumFunctionOnSet(g, F \cup {o}) = g[o] + SumFunctionOnSet(g, F)
      BY <1>1, <1>4, <2>2, SumAdd
    <2> QED BY <1>6, <1>7, <1>8, <1>9, <1>11, <1>12, <2>1, <2>3
  <1>13. CASE o \notin G
    <2>1. \A x \in SellIds : x \in F <=> x \in G  BY <1>4, <1>5, <1>13
    <2>2. G = F  BY <1>6, <2>1
    <2> QED BY <1>7, <1>8, <1>9, <1>11, <1>13, <2>2
  <1> QED BY <1>12, <1>13

\* A change of one row that is not finished, and of no position but in its links,
\* leaves the books balanced unless it sells something.
LEMMA BalanceKept ==
    ASSUME NEW d, GoodDb(d), Balanced(d), IsFiniteSet(Rows(d)), NEW e, GoodDb(e),
           NEW o \in SellIds, \A x \in OrderIds \ {o} : e.orders[x] = d.orders[x],
           d.orders[o].status \notin Terminal,
           e.orders[o].status \in Terminal => e.orders[o].filled = 0,
           \A t \in Tokens : /\ e.positions[t].status = d.positions[t].status
                             /\ e.positions[t].size = d.positions[t].size
                             /\ e.positions[t].partial = d.positions[t].partial
                             /\ e.positions[t].pnl = d.positions[t].pnl
    PROVE  Balanced(e)
  <1>1. o \in OrderIds /\ Tokens \cap SellIds = {}  BY DbAssumption DEF OrderIds
  <1>2. ASSUME NEW t \in Tokens  PROVE  Sold(e, t) = Sold(d, t) /\ Earned(e, t) = Earned(d, t)
    <2>1. Sold(d, t) \in Int /\ Earned(d, t) \in Int  BY <1>1, SoldInt, OneRowEarned
    <2>2. e.orders[o].status \in Terminal => Gain(e.orders[o]) = 0
      <3>2. e.orders[o].price - Entry \in Int  BY <1>1, RowNumbers
      <3>3. \A i \in Int : i * 0 = 0  OBVIOUS
      <3> QED BY <3>2, <3>3 DEF Gain
    <2>3. Sold(e, t) = 0 + Sold(d, t) \/ Sold(e, t) = Sold(d, t)  BY <1>1, OneRowSold
    <2>4. Earned(e, t) = 0 + Earned(d, t) \/ Earned(e, t) = Earned(d, t)
      BY <1>1, <2>2, OneRowEarned
    <2> QED BY <2>1, <2>3, <2>4
  <1>3. \A t \in Tokens : e.orders[t] = d.orders[t]  BY <1>1 DEF OrderIds
  <1> QED BY <1>2, <1>3 DEF Balanced

\* A record of the poller that is not the giving up of a stale order.
LEMMA MarkBalanced ==
    ASSUME Inv, SharesInv, HistoryInv, Balanced(tx), NEW o \in poller.todo, NEW e, NEW n,
           Reports(o, e, n), "noEcho" \notin Faults \/ stale = {}
    PROVE  Balanced(e)
  <1> DEFINE r == tx.orders[o]
             s == e.orders[o]
             t == r.token
             p == tx.positions[t]
             q == e.positions[t]
  <1>1. /\ Alive(tx, o) /\ Sound(tx, clob) /\ o \in OrderIds /\ Tokens \cap SellIds = {}
        /\ \A x \in OrderIds \ {o} : e.orders[x] = tx.orders[x]
        /\ s.token = t /\ s.price = r.price /\ r.status \in NonTerminal /\ r.status \notin Terminal
        /\ GoodDb(tx) /\ GoodDb(e) /\ IsFiniteSet(Rows(tx)) /\ LinksOK(tx) /\ Lot \in Nat
        /\ \A m \in PmIds : clob[m].matched <= clob[m].size
    BY TodoNamed, DbAssumption
       DEF SharesInv, TodoInv, LedgersInv, Reports, Marks, RowMarked, Alive, NonTerminal, Terminal,
           Inv, DbInv, Sound, RowsOK, HistoryInv, HistoryDbInv
  <1>2. /\ t \in Tokens
        /\ \A u \in Tokens \ {t} : e.positions[u] = tx.positions[u]
        /\ \/ q = p
           \/ /\ o \in Tokens /\ s.status = "FILLED" /\ p = NoPosition
              /\ q = OpenPosition(s.filled) /\ s.filled > 0
           \/ /\ o \in SellIds /\ s.status \in Terminal
              /\ SoldOff(p, q, r.price, s.filled)
    BY <1>1, MarkEffect
  <1>3. \A u : /\ Sold(tx, u) \in Int /\ Earned(tx, u) \in Int
               /\ o \in SellIds /\ s.status \in Terminal /\ u = t =>
                      Sold(e, u) = s.filled + Sold(tx, u) /\ Earned(e, u) = Gain(s) + Earned(tx, u)
               /\ ~(o \in SellIds /\ s.status \in Terminal /\ u = t) =>
                      Sold(e, u) = Sold(tx, u) /\ Earned(e, u) = Earned(tx, u)
    BY <1>1, SoldInt, OneRowSold, OneRowEarned
  <1>4. /\ s.filled \in Nat /\ p.size \in Nat /\ p.partial \in Int /\ p.pnl \in Int
        /\ tx.orders[t].filled \in Nat /\ r.price - Entry \in Int
    <2>1. p \in PositionRow  BY <1>1, <1>2 DEF GoodDb, Database
    <2>2. /\ s.filled \in Nat /\ tx.orders[t].filled \in Nat /\ r.price - Entry \in Int
      BY <1>1, <1>2, RowNumbers DEF OrderIds
    <2> QED BY <1>1, <2>1, <2>2 DEF PositionRow
  <1>5. Gain(s) = (r.price - Entry) * s.filled /\ Gain(s) \in Int
    BY <1>1, <1>4 DEF Gain
  <1>6. ASSUME NEW u \in Tokens \ {t}
        PROVE  /\ e.positions[u] = tx.positions[u] /\ e.orders[u].filled = tx.orders[u].filled
               /\ Sold(e, u) = Sold(tx, u) /\ Earned(e, u) = Earned(tx, u)
    <2>1. u # o /\ u \in OrderIds  BY <1>1 DEF Sound, RowsOK, OrderIds
    <2> QED BY <1>1, <1>2, <1>3, <2>1
  <1>7. CASE o \in Tokens
    <2>1. t = o /\ p.status = "ABSENT"
      BY <1>1, <1>7 DEF Sound, RowsOK, PositionsOK
    <2>2. Finished(tx, t) = {}
      <3>1. Finished(tx, t) \subseteq Rows(tx)  BY <1>1, SoldInt
      <3>2. \A x \in Rows(tx) : tx.positions[tx.orders[x].token].status # "ABSENT"
        BY <1>1 DEF Sound, PositionsOK
      <3> QED BY <2>1, <3>1, <3>2 DEF Finished
    <2>3. Sold(tx, t) = 0 /\ Earned(tx, t) = 0
      BY <2>2, SumEmpty DEF Sold, Earned
    <2>4. Sold(e, t) = 0 /\ Earned(e, t) = 0  BY <1>1, <1>3, <1>7, <2>3
    <2>5. q.status = "ABSENT" \/ (q.status = "OPEN" /\ q.size = s.filled /\ q.partial = 0)
      BY <1>1, <1>2, <1>7, <2>1 DEF OpenPosition, NoPosition
    <2> QED BY <1>4, <1>6, <2>1, <2>4, <2>5 DEF Balanced
  <1>8. CASE o \in SellIds
    <2>1. /\ p.status = "OPEN" /\ p.exit = o /\ Linked(tx, o) /\ e.orders[t] = tx.orders[t]
          /\ p.size + Sold(tx, t) = tx.orders[t].filled /\ p.partial = Earned(tx, t)
      BY <1>1, <1>2, <1>8 DEF LinksOK, Linked, Balanced, OrderIds
    <2>2. CASE s.status \notin Terminal
      <3>1. q = p  BY <1>1, <1>2, <1>8, <2>2
      <3> QED BY <1>3, <1>6, <2>1, <2>2, <3>1 DEF Balanced
    <2>3. CASE s.status \in Terminal /\ SoldOff(p, q, r.price, s.filled)
      <3>1. Sold(e, t) = s.filled + Sold(tx, t) /\ Earned(e, t) = Gain(s) + Earned(tx, t)
        BY <1>3, <1>8, <2>3
      <3>2. /\ q.status = "CLOSED" => Sold(e, t) = tx.orders[t].filled /\ q.pnl = Earned(e, t)
            /\ q.status = "OPEN" => /\ q.size + Sold(e, t) = tx.orders[t].filled
                                    /\ q.partial = Earned(e, t)
        <4> DEFINE gain == Gain(s)
        <4>1. gain = (r.price - Entry) * s.filled /\ gain \in Int  BY <1>5
        <4>2. \/ s.filled = p.size /\ q.status = "CLOSED" /\ q.pnl = p.partial + gain
              \/ q.status = "OPEN" /\ q.partial = p.partial + gain /\ q.size = p.size - s.filled
          BY <1>5, <2>3 DEF SoldOff
        <4>3. Earned(e, t) = gain + Earned(tx, t)  BY <3>1
        <4> HIDE DEF gain
        <4> QED BY <1>3, <1>4, <2>1, <3>1, <4>1, <4>2, <4>3
      <3>3. q.status # "ABSENT"  BY <2>3 DEF SoldOff
      <3> QED BY <1>6, <2>1, <3>2 DEF Balanced
    <2>4. CASE s.status \in Terminal /\ q = p
      <3>1. s.filled = 0
        <4>1. s.status = "FILLED" \/ s.status = "CANCELLED"
          BY <1>1, <2>4 DEF Reports, Terminal
        <4>2. CASE s.status = "FILLED"
          <5>1. /\ n > 0 /\ q = ClosePosition(p, r.price, n)
            BY <1>1, <1>8, <2>1, <4>2 DEF Reports, Marks, PositionMarked, NonTerminal, Linked
          <5> QED BY <2>1, <2>4, <5>1 DEF ClosePosition
        <4>3. CASE s.status = "CANCELLED"
          <5>1. /\ s.filled = n /\ n \in 0 .. Lot
                /\ n > 0 => q = ReducePosition(p, r.price, n)
            BY <1>1, <1>8, <2>1, <4>3 DEF Reports
          <5>2. p \in PositionRow  BY <1>1, <1>2 DEF GoodDb, Database
          <5>3. ASSUME n > 0  PROVE FALSE
            <6>1. CASE p.size = Lesser(n, p.size)
              BY <2>1, <2>4, <5>1, <5>2, <5>3, <6>1, SellOff
            <6>2. CASE p.size # Lesser(n, p.size)
              <7>1. p.exit = NoOrder  BY <2>4, <5>1, <5>2, <5>3, <6>2, SellOff
              <7> QED BY <1>8, <2>1, <7>1, DbAssumption DEF OrderIds
            <6> QED BY <6>1, <6>2
          <5> QED BY <1>1, <5>1, <5>3
        <4> QED BY <4>1, <4>2, <4>3
      <3>2. Gain(s) = 0
        <4>1. \A i \in Int : i * 0 = 0  OBVIOUS
        <4> QED BY <1>4, <1>5, <3>1, <4>1
      <3>3. Sold(e, t) = Sold(tx, t) /\ Earned(e, t) = Earned(tx, t)
        <4>1. Sold(e, t) = 0 + Sold(tx, t) /\ Earned(e, t) = 0 + Earned(tx, t)
          BY <1>3, <1>8, <2>4, <3>1, <3>2
        <4> QED BY <1>3, <4>1
      <3> QED BY <1>6, <2>1, <2>4, <3>3 DEF Balanced
    <2> QED BY <1>1, <1>2, <1>8, <2>2, <2>3, <2>4
  <1> QED BY <1>1, <1>7, <1>8 DEF OrderIds

\* A step of the poller keeps the books: it gives no order up that may have sold something.
LEMMA PollerBooks ==
    ASSUME Inv, SharesInv, HistoryInv, BooksInv, PollerNext, ~({"noEcho", "age"} \subseteq Faults)
    PROVE  BooksInv'
  <1>1. "age" \notin Faults => stale' = {}
    BY DEF BooksInv, PollerNext, PollerCycle, PollerShutdown, PollStart, PollCommit, PollAbort,
           CancelAcked, CancelNotAcked, PollNoEcho, PollCanceled, PollFilled, PollLive,
           ShutdownStart, SweepEnd, SweepAcked, SweepNotAcked, Age
  <1>2. ASSUME db' \in {db, tx}, tx' \in {db, tx}  PROVE  BooksInv'
    BY <1>1, <1>2 DEF BooksInv
  <1>3. CASE UNCHANGED dbVars  BY <1>2, <1>3 DEF dbVars
  <1>4. CASE Commit("poller")  BY <1>2, <1>4 DEF Commit, View
  <1>5. CASE Rollback("poller")  BY <1>2, <1>5 DEF Rollback
  <1>6. ASSUME NEW o \in poller.todo, NEW e, Write("poller", e), Records(o, e)
        PROVE  BooksInv'
    <2>1. PICK n : Reports(o, e, n)  BY <1>6, RecordsReports
    <2>2. db' = db /\ tx' = e  BY <1>6 DEF Write
    <2>3. Balanced(tx) /\ ("noEcho" \notin Faults \/ stale = {})  BY DEF BooksInv
    <2>4. Balanced(e)  BY <2>1, <2>3, MarkBalanced
    <2> QED BY <1>1, <2>2, <2>4 DEF BooksInv
  <1> QED BY <1>3, <1>4, <1>5, <1>6, PollerKinds

\* A submission and its answer sell nothing yet.
LEMMA TaskBooks ==
    ASSUME Inv, Inv', SharesInv, BooksInv, ManagerNext, UNCHANGED stale
    PROVE  BooksInv'
  <1>1. /\ GoodDb(tx) /\ GoodDb(tx)' /\ IsFiniteSet(Rows(tx))
        /\ Balanced(db) /\ Balanced(tx)
    BY DEF Inv, DbInv, SharesInv, LedgersInv, Sound, RowsOK, BooksInv
  <1>2. ASSUME db' \in {db, tx}, tx' \in {db, tx}  PROVE  BooksInv'
    BY <1>2 DEF BooksInv
  <1>3. ASSUME NEW task, NEW e, Write(task, e), NEW o \in SellIds,
               \A x \in OrderIds \ {o} : e.orders[x] = tx.orders[x],
               tx.orders[o].status \notin Terminal,
               e.orders[o].status \in Terminal => e.orders[o].filled = 0,
               \A t \in Tokens : /\ e.positions[t].status = tx.positions[t].status
                                 /\ e.positions[t].size = tx.positions[t].size
                                 /\ e.positions[t].partial = tx.positions[t].partial
                                 /\ e.positions[t].pnl = tx.positions[t].pnl
        PROVE  BooksInv'
    <2>1. db' = db /\ tx' = e  BY <1>3 DEF Write
    <2>2. GoodDb(e)  BY <1>1, <2>1
    <2>3. Balanced(e)  BY <1>1, <1>3, <2>2, BalanceKept
    <2> QED BY <1>1, <2>1, <2>3 DEF BooksInv
  <1>4. CASE UNCHANGED <<dbVars, clob>>  BY <1>2, <1>4 DEF dbVars
  <1>5. ASSUME NEW task, Commit(task)  PROVE  BooksInv'
    BY <1>2, <1>5 DEF Commit, View
  <1>6. ASSUME NEW task, NEW t \in Tokens, NEW o \in SellIds, NEW n, NEW policy,
               SubmitExit(task, t, o, n, policy)
        PROVE  BooksInv'
    <2>1. PICK price \in Prices : Write(task, InsertExit(tx, t, o, n, price, policy))
      BY <1>6 DEF SubmitExit
    <2> DEFINE e == InsertExit(tx, t, o, n, price, policy)
    <2>2. /\ e.orders[o].status = "PENDING_SUBMIT"
          /\ \A x \in OrderIds \ {o} : e.orders[x] = tx.orders[x]
          /\ e.positions[t].status = tx.positions[t].status
          /\ e.positions[t].size = tx.positions[t].size
          /\ e.positions[t].partial = tx.positions[t].partial
          /\ e.positions[t].pnl = tx.positions[t].pnl
          /\ \A u \in Tokens \ {t} : e.positions[u] = tx.positions[u]
      BY <1>1, InsertExitRows
    <2>3. tx.orders[o].status = "ABSENT"  BY <1>6 DEF SubmitExit, IsNextRow
    <2> HIDE DEF e
    <2>4. \A u \in Tokens : /\ e.positions[u].status = tx.positions[u].status
                            /\ e.positions[u].size = tx.positions[u].size
                            /\ e.positions[u].partial = tx.positions[u].partial
                            /\ e.positions[u].pnl = tx.positions[u].pnl
      BY <2>2
    <2>5. Write(task, e)  BY <2>1 DEF e
    <2> QED BY <1>3, <2>2, <2>3, <2>4, <2>5 DEF Terminal
  <1>7. ASSUME NEW task, NEW o \in SellIds, Fresh(tx, o), PlaceOrder(task, o)
        PROVE  BooksInv'
    <2>1. PICK e : AnswerOf(tx, e, o) /\ Write(task, e)
      <3>1. \A m : AnswerOf(tx, Acked(tx, o, m), o) /\ AnswerOf(tx, Refused(tx, o), o)
        BY <1>1, AnswerRows DEF OrderIds
      <3> QED BY <1>7, <3>1 DEF PlaceOrder
    <2>2. tx.orders[o].status \notin Terminal /\ tx.orders[o].filled = 0
      BY <1>7 DEF Fresh, Terminal
    <2> QED BY <1>3, <2>1, <2>2 DEF AnswerOf
  <1> QED BY <1>4, <1>5, <1>6, <1>7, TaskKinds

\* Every step keeps the books.
LEMMA NextBooks ==
    ASSUME Inv, Inv', SharesInv, HistoryInv, BooksInv, [Next]_vars,
           ~({"noEcho", "age"} \subseteq Faults)
    PROVE  BooksInv'
  <1>1. CASE PollerNext  BY <1>1, PollerBooks
  <1>2. CASE ManagerNext /\ UNCHANGED pollerVars  BY <1>2, TaskBooks DEF pollerVars
  <1>3. ASSUME db' = db, tx' \in {db, tx}, UNCHANGED stale  PROVE  BooksInv'
    BY <1>3 DEF BooksInv
  <1>4. CASE (Exchange \/ Lock \/ Unlock) /\ UNCHANGED <<pollerVars, managerVars>>
    BY <1>3, <1>4 DEF Exchange, Match, Delist, Lock, Unlock, dbVars, pollerVars
  <1>5. CASE Restart  BY <1>3, <1>5, NothingToReconcile DEF Restart
  <1>6. CASE UNCHANGED vars  BY <1>3, <1>6 DEF vars
  <1> QED BY <1>1, <1>2, <1>4, <1>5, <1>6 DEF Next

\* The books balance, in what is committed and in what is being written.
LEMMA BooksInvariance ==
    ASSUME Closers = {}, ~({"noEcho", "age"} \subseteq Faults)
    PROVE  Spec => []BooksInv
  <1>1. Init => BooksInv
    <2>1. NoPosition.status = "ABSENT"  BY DEF NoPosition
    <2>2. ASSUME Init  PROVE  Balanced(db) /\ tx = db /\ stale = {}
      <3>1. \A t \in Tokens : db.positions[t] = NoPosition  BY <2>2 DEF Init, DbInit
      <3> QED BY <2>1, <2>2, <3>1 DEF Balanced, Init, DbInit, PollerInit
    <2> QED BY <2>2 DEF BooksInv
  <1>2. Inv /\ Inv' /\ SharesInv /\ HistoryInv /\ BooksInv /\ [Next]_vars => BooksInv'
    BY NextBooks
  <1> QED BY <1>1, <1>2, Invariance, SharesInvariance, HistoryInvariance, PTL DEF Spec

\* Without close requests, and as long as no order is given up that its CLOB cannot be
\* asked about, the fills of a position's finished SELLs and the shares it still holds
\* add up to the fill of its BUY, and its profit is what those SELLs earned.
THEOREM BooksAreBalanced ==
    ASSUME Closers = {}, ~({"noEcho", "age"} \subseteq Faults)
    PROVE  Spec => []BooksBalance
  <1>1. BooksInv => BooksBalance  BY DEF BooksInv, Balanced, BooksBalance
  <1> QED BY <1>1, BooksInvariance, PTL

-----------------------------------------------------------------------------
(* What is on offer *)

\* A BUY keeps its name, whatever is committed.
BuysNamed == \A t \in Tokens : db.orders[t].pm = t

\* What is committed is what was written.
LEMMA CommitsWritten ==
    ASSUME Inv, SharesInv, [Next]_vars
    PROVE  db' \in {db, tx}
  <1>1. CASE PollerNext
    BY <1>1, PollerKinds DEF dbVars, Commit, View, Rollback, Write
  <1>2. CASE ManagerNext
    <2>1. \A task, t, o, n, policy : SubmitExit(task, t, o, n, policy) => db' = db
      BY DEF SubmitExit, Write
    <2>2. \A task, o : PlaceOrder(task, o) => db' = db  BY DEF PlaceOrder, Write
    <2> QED BY <1>2, <2>1, <2>2, TaskKinds DEF dbVars, Commit, View
  <1>3. CASE Exchange \/ Lock \/ Unlock
    BY <1>3 DEF Exchange, Match, Delist, Lock, Unlock, dbVars
  <1>4. CASE Restart  BY <1>4, NothingToReconcile DEF Restart
  <1>5. CASE UNCHANGED vars  BY <1>5 DEF vars
  <1> QED BY <1>1, <1>2, <1>3, <1>4, <1>5 DEF Next

LEMMA NextNamed ==
    ASSUME Inv, SharesInv, BuysNamed, [Next]_vars
    PROVE  BuysNamed'
  <1>1. \A t \in Tokens : t # NoPm /\ t \in OrderIds
    BY DbAssumption DEF PmIds, OrderIds
  <1>2. KeepsIds(db, tx)  BY DEF Inv, DbInv
  <1> QED BY <1>1, <1>2, CommitsWritten DEF BuysNamed, KeepsIds

\* A position that is OPEN is sold by at most one SELL, for no more than its size.
LEMMA OneOffer ==
    ASSUME Inv, SharesInv, HistoryInv, NEW t \in Tokens
    PROVE  LET p == db.positions[t] IN
           /\ OnOffer(t) \in Nat
           /\ OnOffer(t) # 0 => p.status = "OPEN" /\ OnOffer(t) <= p.size
  <1> DEFINE p == db.positions[t]
             f == [o \in SellIds |-> Offered(clob[db.orders[o].pm])]
             x == p.exit
  <1>1. /\ GoodDb(db) /\ LinksOK(db) /\ NamesOK(db, clob) /\ clob \in [PmIds -> ClobOrder]
        /\ \A m \in PmIds : clob[m].matched <= clob[m].size
    BY DEF Inv, DbInv, TypeOK, DbTypeOK, SharesInv, LedgersInv, Sound, HistoryInv, HistoryDbInv
  <1>2. \A o \in Offering(t) : o = x /\ p.status = "OPEN" /\ p.size = db.orders[o].size
    BY <1>1 DEF Offering, LinksOK
  <1>3. ASSUME NEW o \in Offering(t)
        PROVE  f[o] \in Nat /\ f[o] <= p.size
    <2> DEFINE m == db.orders[o].pm
    <2>1. o \in SellIds /\ m # NoPm /\ o \in Rows(db) /\ o \in OrderIds
      BY <1>3 DEF Offering, Rows, NonTerminal, OrderIds
    <2>2. m \in PmIds
      <3>1. db.orders[o] \in OrderRow  BY <1>1, <2>1 DEF GoodDb, Database
      <3> QED BY <2>1, <3>1 DEF OrderRow
    <2>3. clob[m].size = p.size  BY <1>1, <1>2, <1>3, <2>1 DEF NamesOK
    <2>4. clob[m] \in ClobOrder /\ Lot \in Nat  BY <1>1, <2>2, DbAssumption
    <2>5. clob[m].size \in Nat /\ clob[m].matched \in Nat  BY <2>4 DEF ClobOrder
    <2>6. clob[m].matched <= clob[m].size  BY <1>1, <2>2
    <2>7. f[o] = Offered(clob[m])  BY <2>1
    <2> HIDE DEF m
    <2> QED BY <2>3, <2>5, <2>6, <2>7 DEF Offered
  <1>4. OnOffer(t) = SumFunctionOnSet(f, Offering(t))  BY DEF OnOffer
  <1> HIDE DEF f
  <1>5. CASE Offering(t) = {}
    <2>1. OnOffer(t) = 0  BY <1>4, <1>5, SumEmpty
    <2> QED BY <2>1
  <1>6. CASE Offering(t) # {}
    <2>1. x \in Offering(t) /\ Offering(t) = {} \cup {x}  BY <1>2, <1>6
    <2>2. f[x] \in Nat /\ f[x] <= p.size /\ p.status = "OPEN"  BY <1>2, <1>3, <2>1
    <2>3. IsFiniteSet({}) /\ SumFunctionOnSet(f, {}) = 0  BY FS_EmptySet, SumEmpty
    <2>4. SumFunctionOnSet(f, {} \cup {x}) = f[x] + SumFunctionOnSet(f, {})
      <3>1. x \notin {} /\ \A y \in {} \cup {x} : f[y] \in Int  BY <2>2
      <3> HIDE DEF x
      <3> QED BY <2>3, <3>1, SumAdd
    <2>5. OnOffer(t) = f[x]  BY <1>4, <2>1, <2>2, <2>3, <2>4
    <2> QED BY <2>2, <2>5
  <1> QED BY <1>5, <1>6

\* The one SELL under way is for what the books leave.
LEMMA OfferedIsHeld ==
    ASSUME Inv, SharesInv, HistoryInv, BooksInv, BuysNamed
    PROVE  NoOversell
  <1> SUFFICES ASSUME NEW t \in Tokens  PROVE  Sold(db, t) + OnOffer(t) <= clob[t].matched
    BY DEF NoOversell
  <1> DEFINE p == db.positions[t]
  <1>1. /\ GoodDb(db) /\ PositionsOK(db) /\ IsFiniteSet(Rows(db)) /\ Balanced(db)
        /\ Behind(db, clob) /\ t \in OrderIds /\ t \in PmIds /\ t # NoPm
        /\ clob \in [PmIds -> ClobOrder] /\ db.orders[t].pm = t
    BY DbAssumption DEF Inv, DbInv, TypeOK, DbTypeOK, SharesInv, LedgersInv, Sound, RowsOK,
       BooksInv, BuysNamed, OrderIds, PmIds
  <1>2. /\ db.orders[t].filled \in Nat /\ db.orders[t].filled <= clob[t].matched
        /\ clob[t].matched \in Nat
    <2>1. clob[t] \in ClobOrder /\ Lot \in Nat  BY <1>1, DbAssumption
    <2>2. clob[t].matched \in Nat  BY <2>1 DEF ClobOrder
    <2>3. db.orders[t].filled <= clob[t].matched  BY <1>1 DEF Behind
    <2> QED BY <1>1, <2>2, <2>3, RowNumbers
  <1>3. Sold(db, t) \in Int  BY <1>1, SoldInt
  <1>4. p \in PositionRow /\ p.size \in Nat
    <2>1. p \in PositionRow /\ Lot \in Nat  BY <1>1, DbAssumption DEF GoodDb, Database
    <2> QED BY <2>1 DEF PositionRow
  <1>5. OnOffer(t) \in Nat /\ (OnOffer(t) # 0 => p.status = "OPEN" /\ OnOffer(t) <= p.size)
    BY OneOffer
  <1>6. CASE p.status = "ABSENT"
    <2>1. \A x \in Rows(db) : db.positions[db.orders[x].token].status # "ABSENT"
      BY <1>1 DEF PositionsOK
    <2>2. Finished(db, t) \subseteq Rows(db)  BY <1>1, SoldInt
    <2>3. Finished(db, t) = {}  BY <1>6, <2>1, <2>2 DEF Finished
    <2>4. Sold(db, t) = 0  BY <2>3, SumEmpty DEF Sold
    <2> QED BY <1>2, <1>5, <1>6, <2>4
  <1>7. CASE p.status = "CLOSED"
    <2>1. Sold(db, t) = db.orders[t].filled  BY <1>1, <1>7 DEF Balanced
    <2> QED BY <1>2, <1>5, <1>7, <2>1
  <1>8. CASE p.status = "OPEN"
    <2>1. p.size + Sold(db, t) = db.orders[t].filled  BY <1>1, <1>8 DEF Balanced
    <2> QED BY <1>2, <1>3, <1>4, <1>5, <2>1
  <1> QED BY <1>4, <1>6, <1>7, <1>8 DEF PositionRow

\* Without close requests, and as long as no order is given up that its CLOB cannot be
\* asked about, what the SELLs in flight sold or may still sell at the CLOB and what is
\* on record as sold is within what the CLOB bought, however fills, polls, stale
\* cancels, lost answers, crashes and shutdowns interleave.
THEOREM NothingOversold ==
    ASSUME Closers = {}, ~({"noEcho", "age"} \subseteq Faults)
    PROVE  Spec => []NoOversell
  <1>1. ASSUME Init  PROVE  BuysNamed
    <2>1. db.orders = [o \in OrderIds |-> IF o \in Tokens THEN EntryRow(o) ELSE NoRow]
      BY <1>1 DEF Init, DbInit
    <2>2. \A t \in Tokens : EntryRow(t).pm = t  BY DEF EntryRow, NoRow
    <2> QED BY <2>1, <2>2 DEF OrderIds, BuysNamed
  <1>2. Inv /\ SharesInv /\ BuysNamed /\ [Next]_vars => BuysNamed'  BY NextNamed
  <1>3. Inv /\ SharesInv /\ HistoryInv /\ BooksInv /\ BuysNamed => NoOversell
    BY OfferedIsHeld
  <1> QED BY <1>1, <1>2, <1>3, Invariance, SharesInvariance, HistoryInvariance, BooksInvariance,
             PTL DEF Spec
===============================================================================
