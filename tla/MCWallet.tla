------------------------------- MODULE MCWallet -------------------------------
EXTENDS Wallet
(* What the code does not keep: see the README. *)

\* The wallet endpoints wipe the cache so that the next reading is of the new wallet
\* (clob_client.py:244-247): a fetch that ran across the change brings the old one back.
BalanceIsCurrent ==
    (cache.fresh /\ \A q \in Requests : request[q].pc # "invalidate") =>
        row # Nothing /\ cache.of = row.address

\* "Returns None when the vault is locked" (clob_client.py:264).
LockedAnswersNothing == cache.fresh => IsUnlocked

\* "Returns None when ... everything fails" (clob_client.py:264-265).
FailureIsNone == cache.amount # "zero"

\* The address and the key of the row come from one request (wallet.py:101-109).
RowIsOneWallet == row # Nothing => row.address = row.secret

\* Either the vault can be set up or a password opens it (auth.py:58-73).
VaultOpens == ~IsSetup \/ \E p \in Passwords : Opens(p)
===============================================================================
