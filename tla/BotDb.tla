-------------------------------- MODULE BotDb --------------------------------
(***************************************************************************)
(* The tables the entry side works on: the BUY lots (a BUY order together  *)
(* with the position its fill opens and whether that has an exit in         *)
(* flight), the BotState row, and the loss realized today; and the risk     *)
(* limits over them (positions/risk.py).                                    *)
(***************************************************************************)
EXTENDS Sessions, Integers, FiniteSets, Functions

CONSTANTS
    Tokens,
    Decisions,      \* how many BUY rows decision_log gets
    TokenOf,        \* [1 .. Decisions -> Tokens]
    StakeOf,        \* [1 .. Decisions -> Nat], master stake clamped to the ask depth
    BatchLimit,     \* decisions that one cycle looks at
    LotIds,         \* row ids for BUY orders
    MaxConcurrent, MaxExposure, MaxDrawdown,
    Balances,       \* what get_usdc_balance may answer
    Losses,         \* what closing a position may lose
    MaxPlaced,      \* bound: BUYs the CLOB accepts for one token
    Faults,         \* what may happen around the engine, see AllFaults
    NoLot, NoToken

\* ambiguous: the answer to an order that the CLOB took is lost
AllFaults == {"crash", "ambiguous", "lock", "busy", "patch", "cancel", "close", "newDay"}

Tasks == {"engine", "monitor", "user", "poller"}

ASSUME BotAssumption ==
    /\ Decisions \in Nat /\ BatchLimit \in Nat \ {0}
    /\ TokenOf \in [1 .. Decisions -> Tokens]
    /\ StakeOf \in [1 .. Decisions -> Nat \ {0}]
    /\ MaxConcurrent \in Nat /\ MaxExposure \in Nat /\ MaxDrawdown \in Nat \ {0}
    /\ MaxPlaced \in Nat
    /\ Balances \subseteq Nat /\ Losses \subseteq Nat
    /\ NoLot \notin LotIds /\ NoToken \notin Tokens /\ NoTask \notin Tasks
    /\ IsFiniteSet(LotIds)
    /\ Faults \subseteq AllFaults

VARIABLES
    placed,  \* BUY orders the CLOB accepted, per token
    dropped, \* ghost: those of them whose row went with a crash before it was committed
    vault    \* VaultState.is_unlocked()

\* SUBMITTED stands for PARTIAL too.  A BUY that is FILLED has its position:
\* the lot is HELD while that is OPEN and SOLD when it is CLOSED.  UNHEARD is
\* FAILED for the program: that the CLOB took the order nobody heard.
InFlight  == {"PENDING_SUBMIT", "SUBMITTED"}
LotStatus == InFlight \cup {"ABSENT", "HELD", "SOLD", "CANCELLED", "FAILED", "UNHEARD"}

LotRow == [status : LotStatus, token : Tokens \cup {NoToken}, decision : 0 .. Decisions,
           notional : Nat, exiting : BOOLEAN]
BotRow == [is_running : BOOLEAN, paused : BOOLEAN]   \* paused: last_pause_reason is set

Database == [lots : [LotIds -> LotRow], bot : BotRow, lost : Nat]

NoLotRow == [status |-> "ABSENT", token |-> NoToken, decision |-> 0,
             notional |-> 0, exiting |-> FALSE]

BotDbInit ==
    /\ db = [lots |-> [o \in LotIds |-> NoLotRow],
             bot |-> [is_running |-> TRUE, paused |-> FALSE], lost |-> 0]
    /\ tx = db
    /\ writer = NoTask
    /\ placed = [t \in Tokens |-> 0] /\ dropped = placed
    /\ vault = TRUE

BotDbTypeOK ==
    /\ db \in Database /\ tx \in Database
    /\ writer \in Tasks \cup {NoTask}
    /\ placed \in [Tokens -> 0 .. MaxPlaced] /\ dropped \in [Tokens -> Nat]
    /\ vault \in BOOLEAN

-----------------------------------------------------------------------------
PendingBuys(d) == {o \in LotIds : d.lots[o].status \in InFlight}
Held(d)        == {o \in LotIds : d.lots[o].status = "HELD"}
Exits(d)       == {o \in LotIds : d.lots[o].exiting}
Active(d)      == PendingBuys(d) \cup Held(d)

\* The lots of a token whose order the CLOB took
Accepted(d, t) ==
    {o \in LotIds : d.lots[o].token = t /\ d.lots[o].status \notin {"ABSENT", "PENDING_SUBMIT", "FAILED"}}

Notional(d, lots) == SumFunctionOnSet([o \in LotIds |-> d.lots[o].notional], lots)

SetLot(d, o, row) == [d EXCEPT !.lots = [@ EXCEPT ![o] = row]]
SetBot(d, bot)    == [d EXCEPT !.bot = bot]
SetStatus(d, o, s) == SetLot(d, o, [d.lots[o] EXCEPT !.status = s])

(***************************************************************************)
(* check_risk.  It reads the OPEN positions first, then the pending BUYs    *)
(* and the day's losses, with an await between: held and heldNotional are   *)
(* what the first read saw, d is the database at the second.                *)
(***************************************************************************)
TooMany(d, held, intended) ==
    held + Cardinality(PendingBuys(d)) + (IF intended > 0 THEN 1 ELSE 0) > MaxConcurrent
Drawdown(d) == d.lost >= MaxDrawdown
Projected(d, heldNotional, intended) == heldNotional + Notional(d, PendingBuys(d)) + intended
TooExposed(d, heldNotional, intended) == Projected(d, heldNotional, intended) > MaxExposure
Overdrawn(d, heldNotional, intended, balance) ==
    balance # {} /\ \A b \in balance : Projected(d, heldNotional, intended) > b

SeriousExposure(d, held, heldNotional, intended, balance) ==   \* mutant: no drawdown
    \/ TooExposed(d, heldNotional, intended)
    \/ Overdrawn(d, heldNotional, intended, balance)
    \/ intended > 0 /\ TooMany(d, held, intended)

\* enforce_risk pauses on any of them, on CONCURRENT only with an order intended
Serious(d, held, heldNotional, intended, balance) ==
    \/ Drawdown(d) \/ TooExposed(d, heldNotional, intended)
    \/ Overdrawn(d, heldNotional, intended, balance)
    \/ intended > 0 /\ TooMany(d, held, intended)

\* The session writes only what differs from the row it loaded.
Pause(d) == SetBot(d, [is_running |-> FALSE, paused |-> TRUE])
==============================================================================
