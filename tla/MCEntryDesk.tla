----------------------------- MODULE MCEntryDesk -----------------------------
EXTENDS EntryDesk, TLC

CONSTANTS a, b

\* which token each decision is for, and its stake
Single   == <<a>>
Double   == <<a, b>>
Again    == <<a, b, a, a>>
One   == <<1>>
Two   == <<1, 1>>
Four  == <<1, 1, 1, 1>>

Symmetric == Permutations(LotIds)

-----------------------------------------------------------------------------
(***************************************************************************)
(* What comments of the code say and the code does not keep; no run checks *)
(* these, README.md says how to see each of them violated.                 *)
(***************************************************************************)
\* No two BUYs for a token are in flight or held at once (trading.py:7).
OneLotPerToken ==
    \A o, p \in Active(db) : o # p => db.lots[o].token # db.lots[p].token

\* Nor is one that the CLOB took and the program takes for failed.
OneOrderPerToken ==
    \A o, p \in Active(db) \cup {q \in LotIds : db.lots[q].status = "UNHEARD"} :
        o # p => db.lots[o].token # db.lots[p].token

\* The exposure of the BUYs in flight and of the positions stays within
\* max_total_exposure_usd (risk.py:1, 12-13).
ExposureLimit == Notional(db, Active(db)) <= MaxExposure

\* When is_running is off the engine never sends an order (models.py:262).
PausedSendsNothing == [][placed' # placed => db.bot.is_running]_vars

\* A bot that runs shows no pause banner (api/bot.py:105-109).
RunningIsNotPaused == db.bot.is_running => ~db.bot.paused
==============================================================================
