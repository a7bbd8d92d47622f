-------------------------------- MODULE Wallet --------------------------------
(***************************************************************************)
(* The vault (vault.py), login (auth.py), the wallet endpoints (wallet.py) *)
(* and the balance cache of get_usdc_balance (clob_client.py).             *)
(*                                                                          *)
(* A key is the password and the salt it is derived from.  setup, unlock   *)
(* and lock run without an await: a request is cut there only by a crash.  *)
(***************************************************************************)
EXTENDS Integers, FiniteSets

CONSTANTS
    Passwords, Salts, Wallets,
    Readers,    \* callers of get_usdc_balance: trading engine, risk monitor, GET /api/risk
    Requests,   \* PUT and DELETE /api/wallet in flight
    Nothing,    \* no file, no key, no row, no wallet
    Torn        \* a file write_bytes opened and did not fill

Keys == Passwords \X Salts
Rows == [address : Wallets, secret : Wallets, under : Keys]

ASSUME WalletAssumption ==
    /\ Nothing # Torn
    /\ {Nothing, Torn} \cap (Passwords \cup Salts \cup Wallets \cup Keys \cup Rows) = {}

VARIABLES
    saltFile, verifierFile,   \* the two files
    fernet,                   \* VaultState._fernet
    token,                    \* a token signed by this process is out
    row,                      \* wallet_config: whose address and secret, encrypted under which key
    cache,                    \* _BALANCE_CACHE
    reader, request
vaultVars == <<saltFile, verifierFile, fernet, token>>
vars == <<vaultVars, row, cache, reader, request>>

Uncached == [of |-> Nothing, amount |-> "none", fresh |-> FALSE, raced |-> FALSE]
Absent == [pc |-> "idle", of |-> Nothing, aged |-> FALSE, raced |-> FALSE]
NoRequest == [pc |-> "idle", want |-> Nothing, under |-> Nothing, saw |-> Nothing]

\* The key in memory is the one the verifier was written with.
TypeOK ==
    /\ saltFile \in Salts \cup {Nothing, Torn}
    /\ verifierFile \in Keys \cup {Nothing, Torn}
    /\ fernet \in {Nothing, verifierFile} /\ fernet # Torn
    /\ token \in BOOLEAN
    /\ row \in Rows \cup {Nothing}
    /\ cache \in [of : Wallets \cup {Nothing}, amount : {"none", "held", "zero"},
                  fresh : BOOLEAN, raced : BOOLEAN]
    /\ reader \in [Readers -> [pc : {"idle", "load", "fetch"}, of : Wallets \cup {Nothing},
                               aged : BOOLEAN, raced : BOOLEAN]]
    /\ request \in [Requests -> [pc : {"idle", "load", "commit", "invalidate"},
                                 want : Wallets \cup {Nothing}, under : Keys \cup {Nothing},
                                 saw : Rows \cup {Nothing}]]

MemoryReset ==
    /\ fernet' = Nothing /\ token' = FALSE /\ cache' = Uncached
    /\ reader' = [r \in Readers |-> Absent] /\ request' = [q \in Requests |-> NoRequest]

Init ==
    /\ saltFile = Nothing /\ verifierFile = Nothing /\ fernet = Nothing /\ token = FALSE
    /\ row = Nothing /\ cache = Uncached
    /\ reader = [r \in Readers |-> Absent] /\ request = [q \in Requests |-> NoRequest]

-----------------------------------------------------------------------------
(* The vault and its endpoints *)

IsSetupUnlocked == fernet # Nothing      \* mutant: asks whether the vault is open

IsSetup == saltFile # Nothing /\ verifierFile # Nothing

IsUnlocked == fernet # Nothing
Authorised == token /\ IsUnlocked

FreshSalts == Salts \ {saltFile}

Setup(p) ==
    /\ ~IsSetup
    /\ \E s \in FreshSalts :
          saltFile' = s /\ verifierFile' = <<p, s>> /\ fernet' = <<p, s>>
    /\ token' = TRUE
    /\ UNCHANGED <<row, cache, reader, request>>

\* The process dies in setup: at the salt, or at the verifier.
SetupCrashes(p) ==
    /\ ~IsSetup
    /\ \/ saltFile' = Torn /\ UNCHANGED verifierFile
       \/ saltFile' \in FreshSalts /\ verifierFile' \in {verifierFile, Torn}
    /\ MemoryReset /\ UNCHANGED row

OpensUnchecked(p) == verifierFile # Torn   \* mutant: the verifier is not decrypted

Opens(p) == verifierFile = <<p, saltFile>>

Login(p) ==
    /\ IsSetup /\ Opens(p)
    /\ fernet' = <<p, saltFile>> /\ token' = TRUE
    /\ UNCHANGED <<saltFile, verifierFile, row, cache, reader, request>>

\* lock() and nothing else: tokens, the cache and calls in flight stay.
Logout ==
    /\ IsUnlocked /\ fernet' = Nothing
    /\ UNCHANGED <<saltFile, verifierFile, token, row, cache, reader, request>>

TokenExpires ==
    /\ token /\ token' = FALSE
    /\ UNCHANGED <<saltFile, verifierFile, fernet, row, cache, reader, request>>

\* A new process has another JWT secret and an empty memory.
Restart == MemoryReset /\ UNCHANGED <<saltFile, verifierFile, row>>

-----------------------------------------------------------------------------
(* PUT and DELETE /api/wallet *)

Put(q, w) ==
    /\ request[q].pc = "idle" /\ Authorised
    /\ request' = [request EXCEPT ![q] = [NoRequest EXCEPT !.pc = "load", !.want = w, !.under = fernet]]
    /\ UNCHANGED <<vaultVars, row, cache, reader>>

Delete(q) ==
    /\ request[q].pc = "idle" /\ Authorised
    /\ request' = [request EXCEPT ![q].pc = "load"]
    /\ UNCHANGED <<vaultVars, row, cache, reader>>

IsDelete(q) == request[q].want = Nothing

LoadRow(q) ==
    /\ request[q].pc = "load"
    /\ request' = [request EXCEPT ![q].saw = row,
                       ![q].pc = IF IsDelete(q) /\ row = Nothing THEN "invalidate" ELSE "commit"]
    /\ UNCHANGED <<vaultVars, row, cache, reader>>

\* An UPDATE writes the columns that differ from the row as it was loaded.
Written(q) ==
    LET r == request[q]
    IN  IF IsDelete(q) THEN Nothing
        ELSE [address |-> IF r.saw # Nothing /\ r.saw.address = r.want THEN row.address ELSE r.want,
              secret |-> r.want, under |-> r.under]

\* INSERT needs no row to be there, UPDATE needs one.
Commits(q) == IsDelete(q) \/ (request[q].saw = Nothing) = (row = Nothing)

Commit(q) ==
    /\ request[q].pc = "commit" /\ Commits(q)
    /\ row' = Written(q)
    /\ reader' = [r \in Readers |-> [reader[r] EXCEPT !.raced = @ \/ reader[r].pc = "fetch"]]
    /\ request' = [request EXCEPT ![q].pc = "invalidate"]
    /\ UNCHANGED <<vaultVars, cache>>

\* It found the row gone, or another one there, or the database busy.
CommitFails(q) ==
    /\ request[q].pc = "commit"
    /\ request' = [request EXCEPT ![q] = NoRequest]
    /\ UNCHANGED <<vaultVars, row, cache, reader>>

WipedByPut(q) == ~IsDelete(q) /\ row # Nothing   \* mutant: DELETE leaves the cache alone

\* PUT's refresh raises, before the cache is wiped, when the row is gone again.
Wiped(q) == IsDelete(q) \/ row # Nothing

Invalidate(q) ==
    /\ request[q].pc = "invalidate"
    /\ cache' = IF Wiped(q) THEN Uncached ELSE cache
    /\ request' = [request EXCEPT ![q] = NoRequest]
    /\ UNCHANGED <<vaultVars, row, reader>>

-----------------------------------------------------------------------------
(* get_usdc_balance *)

\* Answered from the cache unless it is empty or 30 s old; that changes nothing.
Ask(r) ==
    /\ reader[r].pc = "idle" /\ ~cache.fresh /\ IsUnlocked
    /\ reader' = [reader EXCEPT ![r].pc = "load"]
    /\ UNCHANGED <<vaultVars, row, cache, request>>

LoadCredentials(r) ==
    /\ reader[r].pc = "load"
    /\ reader' = [reader EXCEPT ![r] =
                     IF row = Nothing \/ ~IsUnlocked THEN Absent
                     ELSE [@ EXCEPT !.pc = "fetch", !.of = row.address]]
    /\ UNCHANGED <<vaultVars, row, cache, request>>

\* "zero": the CLOB answered 0 and the direct read of the chain failed.
Fetched(r, amount) ==
    /\ reader[r].pc = "fetch"
    /\ cache' = IF amount = "none" THEN cache
                ELSE [of |-> reader[r].of, amount |-> amount,
                      fresh |-> ~reader[r].aged, raced |-> reader[r].raced]
    /\ reader' = [reader EXCEPT ![r] = Absent]
    /\ UNCHANGED <<vaultVars, row, request>>

\* 30 s pass since the clock was read, which is before the fetch.
CacheAges ==
    /\ cache.fresh /\ cache' = [cache EXCEPT !.fresh = FALSE]
    /\ UNCHANGED <<vaultVars, row, reader, request>>

FetchAges(r) ==
    /\ reader[r].pc # "idle" /\ ~reader[r].aged
    /\ reader' = [reader EXCEPT ![r].aged = TRUE]
    /\ UNCHANGED <<vaultVars, row, cache, request>>

Next ==
    \/ \E p \in Passwords : Setup(p) \/ SetupCrashes(p) \/ Login(p)
    \/ Logout \/ TokenExpires \/ Restart
    \/ \E q \in Requests :
          \/ \E w \in Wallets : Put(q, w)
          \/ Delete(q) \/ LoadRow(q) \/ Commit(q) \/ CommitFails(q) \/ Invalidate(q)
    \/ \E r \in Readers :
          \/ Ask(r) \/ LoadCredentials(r) \/ FetchAges(r)
          \/ \E amount \in {"none", "held", "zero"} : Fetched(r, amount)
    \/ CacheAges

Spec == Init /\ [][Next]_vars

-----------------------------------------------------------------------------
\* Whatever crashes, restarts and requests race, the secrets that are stored can be
\* decrypted by whoever can log in: setup never orphans them (vault.py:48-64).
SecretsOpen ==
    row # Nothing =>
        /\ row.under = verifierFile
        /\ \E p \in Passwords : Opens(p)

\* A balance that is answered is the current wallet's (wallet.py:112-114), but for a
\* change whose cache wipe is still to come and a fetch that ran across a change.
CacheIsOfWallet ==
    cache.fresh =>
        \/ row # Nothing /\ cache.of = row.address
        \/ cache.raced
        \/ \E q \in Requests : request[q].pc = "invalidate"
===============================================================================
