----------------------------- MODULE ExitManager -----------------------------
(***************************************************************************)
(* PositionManager._cycle, which every 15 s walks over the OPEN positions  *)
(* and submits a SELL for each one that a stop-loss, the kickoff or the    *)
(* convergence of the price wants out, and manual_close_position, which    *)
(* does the same for one position on a user's request.  Both end in        *)
(* submit_exit_order.  One step per await: what was read before it may be  *)
(* old when it is used after it.                                           *)
(***************************************************************************)
EXTENDS TradeDb

VARIABLES manager, closer
managerVars == <<manager, closer>>

ManagerIdle == [pc |-> "idle", todo |-> {}, exits |-> [t \in Tokens |-> NoOrder],
                cur |-> NoToken, size |-> 0, row |-> NoOrder]
CloserIdle  == [pc |-> "idle", cur |-> NoToken, exit |-> NoOrder, size |-> 0, row |-> NoOrder]

ManagerType ==
    [pc : {"idle", "scan", "refresh", "submit", "place"}, todo : SUBSET Tokens,
     exits : [Tokens -> SellIds \cup {NoOrder}], cur : Tokens \cup {NoToken},
     size : 0 .. Lot, row : SellIds \cup {NoOrder}]
CloserType ==
    [pc : {"idle", "check", "submit", "place", "commit", "done"}, cur : Tokens \cup {NoToken},
     exit : SellIds \cup {NoOrder}, size : 0 .. Lot, row : SellIds \cup {NoOrder}]

ManagerTypeOK ==
    /\ manager \in ManagerType
    /\ closer \in [Closers -> CloserType]

ManagerInit == manager = ManagerIdle /\ closer = [c \in Closers |-> CloserIdle]

OpenPositions(d) == {t \in Tokens : d.positions[t].status = "OPEN"}

InFlightUntouched(d, e) ==                \* mutant: a PARTIAL exit is forgotten
    e # NoOrder /\ d.orders[e].status \in {"PENDING_SUBMIT", "SUBMITTED"}

\* an exit_order_id whose order is still in flight
InFlight(d, e) == e # NoOrder /\ d.orders[e].status \in NonTerminal

-----------------------------------------------------------------------------
\* The positions, with their exit_order_id, are loaded once for the cycle.
CycleStart ==
    /\ phase = "running" /\ manager.pc = "idle"
    /\ manager' = [ManagerIdle EXCEPT !.pc = "scan", !.todo = OpenPositions(db),
                                      !.exits = [t \in Tokens |-> db.positions[t].exit]]
    /\ UNCHANGED <<dbVars, clob, vault, phase, closer>>

NextPosition == [manager EXCEPT !.pc = "scan", !.cur = NoToken, !.size = 0, !.row = NoOrder]

CheckExit(t) ==
    /\ manager.pc = "scan" /\ t \in manager.todo
    /\ manager' = IF InFlight(View("manager"), manager.exits[t])
                  THEN [manager EXCEPT !.todo = @ \ {t}]
                  ELSE [manager EXCEPT !.todo = @ \ {t}, !.pc = "refresh", !.cur = t]
    /\ UNCHANGED <<dbVars, clob, vault, phase, closer>>

RefreshTrusting ==                        \* mutant: the row as first loaded
    /\ manager.pc = "refresh"
    /\ manager' = [manager EXCEPT !.pc = "submit", !.size = View("manager").positions[manager.cur].size]
    /\ UNCHANGED <<dbVars, clob, vault, phase, closer>>

\* _evaluate_position: refresh, and leave a position that is no longer OPEN.
Refresh ==
    /\ manager.pc = "refresh"
    /\ LET p == View("manager").positions[manager.cur]
       IN  manager' = IF p.status = "OPEN"
                      THEN [manager EXCEPT !.pc = "submit", !.size = p.size]
                      ELSE NextPosition
    /\ UNCHANGED <<dbVars, clob, vault, phase, closer>>

\* No bid, no match, no fair price or no reason to exit, or a locked vault.
Hold ==
    /\ manager.pc = "submit"
    /\ manager' = NextPosition
    /\ UNCHANGED <<dbVars, clob, vault, phase, closer>>

\* Stop-loss exits are cancelled when stale, the others ride.
Exit(o) ==
    /\ manager.pc = "submit"
    /\ \E policy \in {"ride", "cancel"} : SubmitExit("manager", manager.cur, o, manager.size, policy)
    /\ manager' = [manager EXCEPT !.pc = "place", !.row = o]
    /\ UNCHANGED <<clob, vault, phase, closer>>

Place ==
    /\ manager.pc = "place"
    /\ PlaceOrder("manager", manager.row)
    /\ manager' = NextPosition
    /\ UNCHANGED <<vault, phase, closer>>

CycleCommit ==
    /\ manager.pc = "scan" /\ manager.todo = {}
    /\ Commit("manager")
    /\ manager' = ManagerIdle
    /\ UNCHANGED <<clob, vault, phase, closer>>

\* "database is locked" while waiting to insert the first exit of the cycle.
CycleAbort ==
    /\ manager.pc = "submit" /\ LockedOut("manager")
    /\ manager' = ManagerIdle
    /\ UNCHANGED <<dbVars, clob, vault, phase, closer>>

ManagerCycle ==
    \/ CycleStart \/ Refresh \/ Hold \/ Place \/ CycleCommit \/ CycleAbort
    \/ \E t \in Tokens : CheckExit(t)
    \/ \E o \in SellIds : Exit(o)

-----------------------------------------------------------------------------
CloserAt(c, pc) == closer[c].pc = pc

CloserDone(c) == closer' = [closer EXCEPT ![c] = [CloserIdle EXCEPT !.pc = "done"]]

\* The position is loaded and refreshed; require_auth wants the vault unlocked.
CloseRead(c, t) ==
    /\ phase = "running" /\ CloserAt(c, "idle") /\ vault
    /\ LET p == db.positions[t]
       IN  IF p.status = "OPEN"
           THEN closer' = [closer EXCEPT ![c] = [CloserIdle EXCEPT
                              !.pc = "check", !.cur = t, !.exit = p.exit, !.size = p.size]]
           ELSE CloserDone(c)
    /\ UNCHANGED <<dbVars, clob, vault, phase, manager>>

\* Then the order it links to is looked up.
CloseCheck(c) ==
    /\ CloserAt(c, "check")
    /\ IF InFlight(db, closer[c].exit)
       THEN CloserDone(c)
       ELSE closer' = [closer EXCEPT ![c].pc = "submit"]
    /\ UNCHANGED <<dbVars, clob, vault, phase, manager>>

CloseSubmit(c, o) ==
    /\ CloserAt(c, "submit")
    /\ SubmitExit(c, closer[c].cur, o, closer[c].size, "ride")
    /\ closer' = [closer EXCEPT ![c].pc = "place", ![c].row = o]
    /\ UNCHANGED <<clob, vault, phase, manager>>

\* No bid, a locked vault, or "database is locked".
CloseGiveUp(c) ==
    /\ CloserAt(c, "submit")
    /\ CloserDone(c)
    /\ UNCHANGED <<dbVars, clob, vault, phase, manager>>

ClosePlace(c) ==
    /\ CloserAt(c, "place")
    /\ PlaceOrder(c, closer[c].row)
    /\ closer' = [closer EXCEPT ![c].pc = "commit"]
    /\ UNCHANGED <<vault, phase, manager>>

CloseCommit(c) ==
    /\ CloserAt(c, "commit")
    /\ Commit(c)
    /\ CloserDone(c)
    /\ UNCHANGED <<clob, vault, phase, manager>>

CloserNext(c) ==
    \/ CloseCheck(c) \/ CloseGiveUp(c) \/ ClosePlace(c) \/ CloseCommit(c)
    \/ \E t \in Tokens : CloseRead(c, t)
    \/ \E o \in SellIds : CloseSubmit(c, o)

ManagerNext == ManagerCycle \/ \E c \in Closers : CloserNext(c)
=============================================================================
