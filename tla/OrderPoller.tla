----------------------------- MODULE OrderPoller -----------------------------
(***************************************************************************)
(* TradingEngine._order_poller: every 3 s the live orders are read from    *)
(* the database once, asked for at the CLOB one after the other, and what  *)
(* the answers say is committed at the end.  Also the sweep that cancels   *)
(* the live orders on a graceful shutdown.                                 *)
(*                                                                          *)
(* An answer and the writes it causes are one step: the session flushes    *)
(* them with its next statement, and until then nobody else writes these   *)
(* rows.  The answer and a cancel that follows it are two steps.           *)
(***************************************************************************)
EXTENDS TradeDb

VARIABLES
    poller,  \* what the poller task holds between two awaits
    stale    \* orders submitted more than ORDER_STALE_TIMEOUT_S ago
pollerVars == <<poller, stale>>

PollerIdle == [pc |-> "idle", todo |-> {}, cur |-> NoOrder, seen |-> 0]

PollerType == [pc : {"idle", "poll", "cancel", "sweep"}, todo : SUBSET OrderIds,
               cur : OrderIds \cup {NoOrder}, seen : 0 .. Lot]

PollerTypeOK ==
    /\ poller \in PollerType
    /\ stale \in SUBSET OrderIds

PollerInit == poller = PollerIdle /\ stale = {}

LiveRowsCancelled(d) ==                   \* mutant: cancelled orders are polled on
    {o \in OrderIds : /\ d.orders[o].status \in {"SUBMITTED", "PARTIAL", "CANCELLED"}
                      /\ d.orders[o].pm # NoPm}

LiveRows(d) ==
    {o \in OrderIds : /\ d.orders[o].status \in {"SUBMITTED", "PARTIAL"}
                      /\ d.orders[o].pm # NoPm}

CancelsWhenStaleSells(o) ==               \* mutant: a BUY has no exit policy
    o \in stale \ Tokens /\ tx.orders[o].policy = "cancel"

CancelsWhenStale(o) ==
    /\ o \in stale
    /\ o \in Tokens \/ tx.orders[o].policy = "cancel"

\* Ten minutes pass for an order that is committed as submitted.
Age(o) ==
    /\ "age" \in Faults
    /\ o \in LiveRows(db) \ stale
    /\ stale' = stale \cup {o}
    /\ UNCHANGED <<dbVars, clob, vault, poller, phase>>

\* Submitted before: the BUYs, of which any may be the first, then SELL by SELL.
Older(o, q) ==
    \/ o \in Tokens /\ q \in SellIds
    \/ {o, q} \subseteq SellIds /\ o < q

NewestOf(rows) ==                         \* mutant: order_by(submitted_at.desc())
    {batch \in SUBSET rows :
        /\ Cardinality(batch) = Lesser(PollLimit, Cardinality(rows))
        /\ \A o \in batch, q \in rows \ batch : ~Older(o, q)}

\* What ORDER BY submitted_at LIMIT 20 may return.
OldestOf(rows) ==
    {batch \in SUBSET rows :
        /\ Cardinality(batch) = Lesser(PollLimit, Cardinality(rows))
        /\ \A o \in batch, q \in rows \ batch : ~Older(q, o)}

PollStart ==
    /\ phase = "running" /\ poller.pc = "idle" /\ vault
    /\ \E batch \in OldestOf(LiveRows(db)) :
          poller' = [PollerIdle EXCEPT !.pc = "poll", !.todo = batch]
    /\ UNCHANGED <<dbVars, clob, vault, stale, phase>>

-----------------------------------------------------------------------------
Done(o) == [PollerIdle EXCEPT !.pc = poller.pc, !.todo = poller.todo \ {o}]

AtClob(o) == clob[tx.orders[o].pm]

Polls(o) == poller.pc = "poll" /\ o \in poller.todo /\ vault

\* get_order found nothing or raised.  A stale order is given up locally.
PollNoEcho(o) ==
    /\ "noEcho" \in Faults
    /\ Polls(o)
    /\ Write("poller", IF CancelsWhenStale(o) THEN MarkCancelled(tx, o) ELSE tx)
    /\ poller' = Done(o)
    /\ UNCHANGED <<clob, vault, stale, phase>>

PollCanceled(o) ==
    /\ Polls(o)
    /\ AtClob(o).state = "canceled"
    /\ Write("poller", MarkPartialCancelled(tx, o, AtClob(o).matched))
    /\ poller' = Done(o)
    /\ UNCHANGED <<clob, vault, stale, phase>>

PollFilled(o) ==
    /\ Polls(o)
    /\ AtClob(o).state = "filled"
    /\ Write("poller", MarkFilled(tx, o, AtClob(o).matched))
    /\ poller' = Done(o)
    /\ UNCHANGED <<clob, vault, stale, phase>>

\* Progress is recorded; a stale order is to be cancelled with the fill that
\* this answer reported.
PollLive(o) ==
    /\ Polls(o)
    /\ AtClob(o).state = "live"
    /\ Write("poller", MarkPartial(tx, o, AtClob(o).matched))
    /\ poller' = IF CancelsWhenStale(o)
                 THEN [poller EXCEPT !.pc = "cancel", !.cur = o, !.seen = AtClob(o).matched]
                 ELSE Done(o)
    /\ UNCHANGED <<clob, vault, stale, phase>>

\* cancel_order answers that the order is canceled ...
Canceling(o) ==
    /\ AtClob(o).state = "live"
    /\ clob' = [clob EXCEPT ![tx.orders[o].pm].state = "canceled"]

CancelAcked ==
    /\ poller.pc = "cancel" /\ vault
    /\ Canceling(poller.cur)
    /\ Write("poller", MarkPartialCancelled(tx, poller.cur, poller.seen))
    /\ poller' = [Done(poller.cur) EXCEPT !.pc = "poll"]
    /\ UNCHANGED <<vault, stale, phase>>

\* ... or that it is not, or the call raises before or after taking effect.
CancelNotAcked ==
    /\ poller.pc = "cancel" /\ vault
    /\ Canceling(poller.cur) \/ UNCHANGED clob
    /\ poller' = [Done(poller.cur) EXCEPT !.pc = "poll"]
    /\ UNCHANGED <<dbVars, vault, stale, phase>>

PollCommit ==
    /\ poller.pc = "poll" /\ poller.todo = {}
    /\ Commit("poller")
    /\ poller' = PollerIdle
    /\ UNCHANGED <<clob, vault, stale, phase>>

\* VaultLocked from the credentials, or "database is locked" after 5 s: the
\* whole poll is rolled back, what it did at the CLOB is not.
PollAbort ==
    /\ \/ poller.pc = "poll" /\ poller.todo # {} /\ (~vault \/ LockedOut("poller"))
       \/ poller.pc = "cancel" /\ ~vault
    /\ Rollback("poller")
    /\ poller' = PollerIdle
    /\ UNCHANGED <<clob, vault, stale, phase>>

-----------------------------------------------------------------------------
\* stop() and then run()'s finally: the poller is cancelled where it awaits (a
\* cancel already in a thread may still reach the CLOB), and the live orders are swept.
ShutdownStart ==
    /\ "shutdown" \in Faults
    /\ phase = "running"
    /\ Rollback("poller")
    /\ \/ UNCHANGED clob
       \/ poller.pc = "cancel" /\ Canceling(poller.cur)
    /\ IF vault
       THEN /\ poller' = [PollerIdle EXCEPT !.pc = "sweep", !.todo = LiveRows(db)]
            /\ phase' = "stopping"
       ELSE poller' = PollerIdle /\ phase' = "stopped"
    /\ UNCHANGED <<vault, stale>>

SweepAcked(o) ==
    /\ poller.pc = "sweep" /\ o \in poller.todo /\ vault
    /\ Canceling(o)
    /\ Write("poller", MarkPartialCancelled(tx, o, tx.orders[o].filled))
    /\ poller' = Done(o)
    /\ UNCHANGED <<vault, stale, phase>>

SweepNotAcked(o) ==
    /\ poller.pc = "sweep" /\ o \in poller.todo /\ vault
    /\ Canceling(o) \/ UNCHANGED clob
    /\ poller' = Done(o)
    /\ UNCHANGED <<dbVars, vault, stale, phase>>

SweepEnd ==
    /\ poller.pc = "sweep"
    /\ \/ poller.todo = {} /\ Commit("poller")
       \/ poller.todo # {} /\ (~vault \/ LockedOut("poller")) /\ Rollback("poller")
    /\ poller' = PollerIdle
    /\ phase' = "stopped"
    /\ UNCHANGED <<clob, vault, stale>>

PollerCycle ==
    \/ PollStart \/ PollCommit \/ PollAbort \/ CancelAcked \/ CancelNotAcked
    \/ \E o \in OrderIds : PollNoEcho(o) \/ PollCanceled(o) \/ PollFilled(o) \/ PollLive(o)

PollerShutdown ==
    \/ ShutdownStart \/ SweepEnd
    \/ \E o \in OrderIds : SweepAcked(o) \/ SweepNotAcked(o)

PollerNext == PollerCycle \/ PollerShutdown \/ \E o \in OrderIds : Age(o)
=============================================================================
