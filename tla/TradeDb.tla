------------------------------- MODULE TradeDb -------------------------------
(***************************************************************************)
(* The state every trading task of the backend shares: the `orders` and    *)
(* `positions` tables in SQLite, the order book of the Polymarket CLOB, and *)
(* the vault that must be unlocked for any CLOB call to be signed.          *)
(*                                                                          *)
(* Sizes and prices are small integers, the entry price is the same for     *)
(* every token, and a fill happens at the order's limit price.              *)
(***************************************************************************)
EXTENDS Sessions, Integers, FiniteSets

CONSTANTS
    Tokens,    \* outcome tokens; the BUY that enters token t is the row t
    SellIds,   \* row ids for SELL orders, given in this order
    SellPms,   \* ids the CLOB may give to SELL orders
    Lot,       \* shares of an entry order
    Entry,     \* price of an entry order
    Prices,    \* bids an exit may be priced at
    Closers,   \* requests to POST /positions/{id}/close
    PollLimit, \* orders that one poll takes
    Faults,    \* what the environment may do, see AllFaults
    NoOrder, NoPm, NoToken

AllFaults == {"age", "noEcho", "ambiguous", "crash", "shutdown", "lock", "delist"}

OrderIds == Tokens \cup SellIds
PmIds    == Tokens \cup SellPms
Tasks    == {"poller", "manager"} \cup Closers

ASSUME DbAssumption ==
    /\ Tokens \cap SellIds = {} /\ Tokens \cap SellPms = {}
    /\ NoOrder \notin OrderIds /\ NoPm \notin PmIds
    /\ NoToken \notin Tokens /\ NoTask \notin Tasks
    /\ "poller" \notin Closers /\ "manager" \notin Closers
    /\ Lot \in Nat \ {0} /\ Entry \in Nat /\ Prices \subseteq Nat
    /\ SellIds \subseteq Nat /\ PollLimit \in Nat \ {0}
    /\ Faults \subseteq AllFaults

VARIABLES
    clob,    \* the orders at the exchange, by the id it gave them
    vault,   \* VaultState.is_unlocked()
    phase    \* of the process: "running", "stopping", "stopped"

NonTerminal == {"PENDING_SUBMIT", "SUBMITTED", "PARTIAL"}
Terminal    == {"FILLED", "CANCELLED", "FAILED"}

OrderRow ==
    [status : NonTerminal \cup Terminal \cup {"ABSENT"},
     token : Tokens \cup {NoToken}, pm : PmIds \cup {NoPm},
     size : 0 .. Lot, filled : 0 .. Lot, price : Prices \cup {Entry},
     policy : {"ride", "cancel"}]

PositionRow ==
    [status : {"ABSENT", "OPEN", "CLOSED"}, size : 0 .. Lot,
     exit : SellIds \cup {NoOrder}, partial : Int, pnl : Int]

Database == [orders : [OrderIds -> OrderRow], positions : [Tokens -> PositionRow]]

\* stray, a ghost: the answer to it was lost, or its row went with a crash
ClobOrder == [state : {"unknown", "live", "canceled", "filled"}, size : 0 .. Lot,
              matched : 0 .. Lot, token : Tokens \cup {NoToken}, stray : BOOLEAN]

NoRow == [status |-> "ABSENT", token |-> NoToken, pm |-> NoPm, size |-> 0,
          filled |-> 0, price |-> Entry, policy |-> "cancel"]
NoPosition == [status |-> "ABSENT", size |-> 0, exit |-> NoOrder,
               partial |-> 0, pnl |-> 0]

\* The desk is taken over after the TradingEngine's commit of one BUY per token.
EntryRow(t) == [NoRow EXCEPT !.status = "SUBMITTED", !.token = t, !.pm = t, !.size = Lot]
NotListed   == [state |-> "unknown", size |-> 0, matched |-> 0, token |-> NoToken, stray |-> FALSE]
Listed(t, n) == [state |-> "live", size |-> n, matched |-> 0, token |-> t, stray |-> FALSE]
Unheard(t, n) == [Listed(t, n) EXCEPT !.stray = TRUE]

DbInit ==
    /\ db = [orders |-> [o \in OrderIds |-> IF o \in Tokens THEN EntryRow(o) ELSE NoRow],
             positions |-> [t \in Tokens |-> NoPosition]]
    /\ tx = db
    /\ writer = NoTask
    /\ clob = [m \in PmIds |-> IF m \in Tokens THEN Listed(m, Lot) ELSE NotListed]
    /\ vault = TRUE
    /\ phase = "running"

-----------------------------------------------------------------------------
(***************************************************************************)
(* What the handlers of the order poller write, as functions on databases. *)
(***************************************************************************)
SetOrder(d, o, row)    == [d EXCEPT !.orders = [@ EXCEPT ![o] = row]]
SetPosition(d, t, row) == [d EXCEPT !.positions = [@ EXCEPT ![t] = row]]

Lesser(m, n) == IF m < n THEN m ELSE n

\* select(Position).where(Position.exit_order_id == order.id) finds a row
Linked(d, o) == d.orders[o].token \in Tokens /\ d.positions[d.orders[o].token].exit = o

MarkPartial(d, o, n) ==
    IF n = 0 THEN d
    ELSE SetOrder(d, o, [d.orders[o] EXCEPT !.status = "PARTIAL", !.filled = n])

\* BUY: a new OPEN position.  SELL: the linked position closes, at whatever
\* size was filled; a SELL nobody is linked to only updates its own row.
OpenPosition(n) == [NoPosition EXCEPT !.status = "OPEN", !.size = n]

ClosePositionForgetting(p, price, n) ==   \* mutant: drops the partial fills
    [p EXCEPT !.status = "CLOSED", !.pnl = (price - Entry) * Lesser(n, p.size)]

ClosePosition(p, price, n) ==
    [p EXCEPT !.status = "CLOSED",
              !.pnl = p.partial + (price - Entry) * Lesser(n, p.size)]

MarkFilled(d, o, n) ==
    LET r == d.orders[o]
        e == SetOrder(d, o, [r EXCEPT !.status = "FILLED", !.filled = n])
    IN  IF o \in Tokens THEN SetPosition(e, o, OpenPosition(n))
        ELSE IF Linked(d, o)
             THEN SetPosition(e, r.token, ClosePosition(d.positions[r.token], r.price, n))
             ELSE e

\* The position keeps what the cancelled SELL did not sell and is free for
\* another exit; when nothing is left it closes.
ReducePositionForgetting(p, price, n) ==  \* mutant: overwrites what was realized
    LET sold == Lesser(n, p.size)
    IN  IF p.size = sold
        THEN [p EXCEPT !.status = "CLOSED", !.pnl = (price - Entry) * sold]
        ELSE [p EXCEPT !.partial = (price - Entry) * sold, !.size = p.size - sold, !.exit = NoOrder]

ReducePositionWhole(p, price, n) ==       \* mutant: any partial fill closes
    [p EXCEPT !.status = "CLOSED", !.pnl = p.partial + (price - Entry) * p.size]

ReducePosition(p, price, n) ==
    LET sold     == Lesser(n, p.size)
        realized == p.partial + (price - Entry) * sold
    IN  IF p.size = sold
        THEN [p EXCEPT !.partial = realized, !.status = "CLOSED", !.pnl = realized]
        ELSE [p EXCEPT !.partial = realized, !.size = p.size - sold, !.exit = NoOrder]

MarkPartialCancelledAsked(d, o, n) ==     \* mutant: no fill reported reads as all
    SetOrder(d, o, [d.orders[o] EXCEPT !.status = "CANCELLED",
                                       !.filled = IF n > 0 THEN n ELSE d.orders[o].size])

MarkPartialCancelledUnfilled(d, o, n) ==  \* mutant: only the status is written
    SetOrder(d, o, [d.orders[o] EXCEPT !.status = "CANCELLED"])

MarkPartialCancelled(d, o, n) ==
    LET r == d.orders[o]
        e == SetOrder(d, o, [r EXCEPT !.status = "CANCELLED",
                                      !.filled = IF n > 0 THEN n ELSE r.filled])
    IN  IF o \in SellIds /\ n > 0 /\ Linked(d, o)
        THEN SetPosition(e, r.token, ReducePosition(d.positions[r.token], r.price, n))
        ELSE e

MarkCancelled(d, o) == SetOrder(d, o, [d.orders[o] EXCEPT !.status = "CANCELLED"])

-----------------------------------------------------------------------------
(***************************************************************************)
(* submit_exit_order: the row is inserted and linked, then the CLOB is     *)
(* called with the write lock held; both are committed only by the caller. *)
(***************************************************************************)
InsertExitRoundedUp(d, t, o, n, price, policy) ==  \* mutant: sells a share too many
    LET row == [status |-> "PENDING_SUBMIT", token |-> t, pm |-> NoPm, size |-> n + 1,
                filled |-> 0, price |-> price, policy |-> policy]
    IN  SetPosition(SetOrder(d, o, row), t, [d.positions[t] EXCEPT !.exit = o])

InsertExit(d, t, o, n, price, policy) ==
    LET row == [status |-> "PENDING_SUBMIT", token |-> t, pm |-> NoPm, size |-> n,
                filled |-> 0, price |-> price, policy |-> policy]
    IN  SetPosition(SetOrder(d, o, row), t, [d.positions[t] EXCEPT !.exit = o])

IsNextRow(o) ==
    /\ tx.orders[o].status = "ABSENT"
    /\ \A q \in SellIds : q < o => tx.orders[q].status # "ABSENT"

SubmitExit(task, t, o, n, policy) ==
    /\ vault
    /\ IsNextRow(o)
    /\ \E price \in Prices : Write(task, InsertExit(tx, t, o, n, price, policy))

AckedNameless(d, o, m) ==                 \* mutant: the CLOB's id is not kept
    SetOrder(d, o, [d.orders[o] EXCEPT !.status = "SUBMITTED"])

Acked(d, o, m) == SetOrder(d, o, [d.orders[o] EXCEPT !.status = "SUBMITTED", !.pm = m])
Refused(d, o) == SetOrder(d, o, [d.orders[o] EXCEPT !.status = "FAILED"])

\* The CLOB lists the order and says so; or it refuses it, or the vault was
\* locked or the wallet deleted meanwhile; or it lists the order and the
\* answer never arrives, which place_limit_order reports as a failure.
PlaceOrder(task, o) ==
    \/ /\ vault
       /\ \E m \in SellPms :
             /\ clob[m].state = "unknown"
             /\ LET r == tx.orders[o]
                IN  \/ /\ clob' = [clob EXCEPT ![m] = Listed(r.token, r.size)]
                       /\ Write(task, Acked(tx, o, m))
                    \/ /\ "ambiguous" \in Faults
                       /\ clob' = [clob EXCEPT ![m] = Unheard(r.token, r.size)]
                       /\ Write(task, Refused(tx, o))
    \/ Write(task, Refused(tx, o)) /\ UNCHANGED clob

-----------------------------------------------------------------------------
(***************************************************************************)
(* The CLOB: a live order is matched share by share, or canceled by the    *)
(* exchange itself (a market that is resolved or delisted).                *)
(***************************************************************************)
Match(m) ==
    /\ clob[m].state = "live"
    /\ clob' = [clob EXCEPT ![m].matched = @ + 1,
                            ![m].state = IF clob[m].matched + 1 = clob[m].size
                                         THEN "filled" ELSE "live"]
    /\ UNCHANGED <<dbVars, vault, phase>>

Delist(m) ==
    /\ "delist" \in Faults
    /\ clob[m].state = "live"
    /\ clob' = [clob EXCEPT ![m].state = "canceled"]
    /\ UNCHANGED <<dbVars, vault, phase>>

\* VaultState.unlock at login, VaultState.lock at logout.
Unlock == ~vault /\ vault' = TRUE /\ UNCHANGED <<dbVars, clob, phase>>
Lock   == "lock" \in Faults /\ vault /\ vault' = FALSE /\ UNCHANGED <<dbVars, clob, phase>>

DbTypeOK ==
    /\ db \in Database /\ tx \in Database
    /\ writer \in Tasks \cup {NoTask}
    /\ clob \in [PmIds -> ClobOrder]
    /\ vault \in BOOLEAN
    /\ phase \in {"running", "stopping", "stopped"}
=============================================================================
