----------------------------- MODULE WalletProofs -----------------------------
(***************************************************************************)
(* Proofs about Wallet, for every set of passwords, salts, wallets, readers *)
(* and requests: its type invariant, that stored secrets can be decrypted,  *)
(* and whose balance the cache answers with.                                *)
(***************************************************************************)
EXTENDS Wallet, TLAPS

(***************************************************************************)
(* The inductive invariant.                                                *)
(***************************************************************************)
\* A setup that got as far as the verifier got past the salt, and a verifier that
\* is whole was written with the salt that is on disk.
VaultInv ==
    /\ verifierFile # Nothing => saltFile \in Salts
    /\ verifierFile \in Keys => \E p \in Passwords : Opens(p)

\* What is stored, or about to be, is encrypted with the verifier's key.
SealedInv ==
    /\ row # Nothing => row.under = verifierFile
    /\ \A q \in Requests :
          request[q].want # Nothing => request[q].under = verifierFile /\ verifierFile \in Keys

\* A fetch that no change ran across is the current wallet's; the cache is too, or
\* a request that will wipe it is on its way.
CurrentInv ==
    /\ \A r \in Readers :
          reader[r].pc = "fetch" =>
              reader[r].raced \/ (row # Nothing /\ reader[r].of = row.address)
    /\ cache.fresh =>
          \/ row # Nothing /\ cache.of = row.address
          \/ cache.raced
          \/ \E q \in Requests : request[q].pc = "invalidate" /\ Wiped(q)

Inv == TypeOK /\ VaultInv /\ SealedInv /\ CurrentInv
-----------------------------------------------------------------------------
\* The null values and the keys are distinct.
LEMMA Distinct ==
    /\ Nothing # Torn
    /\ Nothing \notin Keys /\ Torn \notin Keys
    /\ Nothing \notin Salts /\ Torn \notin Salts
    /\ Nothing \notin Wallets /\ Nothing \notin Rows
  BY WalletAssumption

\* A set-up vault whose verifier is whole is never set up again.
LEMMA WholeIsSetup ==
    ASSUME Inv, verifierFile \in Keys
    PROVE  IsSetup
  BY Distinct DEF Inv, VaultInv, IsSetup

\* An open vault holds the verifier's key.
LEMMA OpenIsWhole ==
    ASSUME Inv, IsUnlocked
    PROVE  fernet = verifierFile /\ verifierFile \in Keys
  BY Distinct DEF Inv, TypeOK, IsUnlocked

\* Nobody has stored or is about to store anything in a vault that is not set up.
LEMMA NothingSealed ==
    ASSUME Inv, ~IsSetup
    PROVE  row = Nothing /\ \A q \in Requests : request[q].want = Nothing
  <1>1. verifierFile \notin Keys  BY WholeIsSetup
  <1>2. row \in Rows \cup {Nothing}  BY DEF Inv, TypeOK
  <1>3. row # Nothing => row.under \in Keys  BY <1>2 DEF Rows
  <1> QED BY <1>1, <1>3 DEF Inv, SealedInv

\* A memory that is empty.
LEMMA ResetInv ==
    ASSUME Inv, MemoryReset, UNCHANGED row, row # Nothing => UNCHANGED verifierFile,
           saltFile' \in Salts \cup {Nothing, Torn}, verifierFile' \in Keys \cup {Nothing, Torn},
           VaultInv'
    PROVE  Inv'
  <1>1. Uncached \in [of : Wallets \cup {Nothing}, amount : {"none", "held", "zero"},
                      fresh : BOOLEAN, raced : BOOLEAN] /\ ~Uncached.fresh
    BY DEF Uncached
  <1>2. Absent \in [pc : {"idle", "load", "fetch"}, of : Wallets \cup {Nothing},
                    aged : BOOLEAN, raced : BOOLEAN] /\ Absent.pc = "idle"
    BY DEF Absent
  <1>3. NoRequest \in [pc : {"idle", "load", "commit", "invalidate"},
                       want : Wallets \cup {Nothing}, under : Keys \cup {Nothing},
                       saw : Rows \cup {Nothing}]
        /\ NoRequest.want = Nothing
    BY DEF NoRequest
  <1>4. TypeOK'
    <2> HIDE DEF Uncached, Absent, NoRequest
    <2>1. fernet' = Nothing /\ token' = FALSE /\ Nothing # Torn  BY Distinct DEF MemoryReset
    <2>2. row' \in Rows \cup {Nothing}  BY DEF Inv, TypeOK
    <2> QED BY ZenonT(60), <1>1, <1>2, <1>3, <2>1, <2>2 DEF MemoryReset, TypeOK
  <1>5. SealedInv'  BY <1>3 DEF MemoryReset, Inv, SealedInv
  <1>6. CurrentInv'  BY <1>1, <1>2 DEF MemoryReset, CurrentInv
  <1> QED BY <1>4, <1>5, <1>6 DEF Inv

-----------------------------------------------------------------------------
(* The vault and its endpoints *)

\* Only the vault changed, and the verifier only if nothing is sealed with it.
LEMMA VaultStepInv ==
    ASSUME Inv, UNCHANGED <<row, cache, reader, request>>,
           UNCHANGED verifierFile \/ ~IsSetup,
           saltFile' \in Salts \cup {Nothing, Torn}, verifierFile' \in Keys \cup {Nothing, Torn},
           fernet' \in {Nothing, verifierFile'}, fernet' # Torn, token' \in BOOLEAN,
           VaultInv'
    PROVE  Inv'
  <1>1. TypeOK'  BY DEF Inv, TypeOK
  <1>2. SealedInv'
    <2>1. CASE UNCHANGED verifierFile  BY <2>1 DEF Inv, SealedInv
    <2>2. CASE ~IsSetup  BY <2>2, NothingSealed DEF SealedInv
    <2> QED BY <2>1, <2>2
  <1>3. CurrentInv'  BY DEF Inv, CurrentInv, Wiped, IsDelete
  <1> QED BY <1>1, <1>2, <1>3 DEF Inv

\* setup
LEMMA SetupInv ==
    ASSUME Inv, NEW p \in Passwords, Setup(p)
    PROVE  Inv'
  <1>1. PICK s \in Salts : saltFile' = s /\ verifierFile' = <<p, s>> /\ fernet' = <<p, s>>
    BY DEF Setup, FreshSalts
  <1>2. <<p, s>> \in Keys  BY DEF Keys
  <1>3. VaultInv'  BY <1>1 DEF VaultInv, Opens
  <1> QED BY <1>1, <1>2, <1>3, Distinct, VaultStepInv DEF Setup

\* A crash in setup leaves no whole verifier.
LEMMA SetupCrashesInv ==
    ASSUME Inv, NEW p \in Passwords, SetupCrashes(p)
    PROVE  Inv'
  <1>1. /\ ~IsSetup /\ MemoryReset /\ UNCHANGED row
        /\ \/ saltFile' = Torn /\ verifierFile' = verifierFile
           \/ saltFile' \in Salts /\ verifierFile' \in {verifierFile, Torn}
    BY DEF SetupCrashes, FreshSalts
  <1>2. verifierFile = Nothing
    BY <1>1, Distinct DEF Inv, VaultInv, IsSetup
  <1>3. VaultInv'  BY <1>1, <1>2, Distinct DEF VaultInv
  <1>4. row = Nothing  BY <1>1, NothingSealed
  <1> QED BY <1>1, <1>2, <1>3, <1>4, ResetInv

\* unlock takes the key that the verifier was written with.
LEMMA LoginInv ==
    ASSUME Inv, NEW p \in Passwords, Login(p)
    PROVE  Inv'
  <1>1. /\ IsSetup /\ verifierFile = <<p, saltFile>> /\ fernet' = verifierFile /\ token' = TRUE
        /\ UNCHANGED <<saltFile, verifierFile, row, cache, reader, request>>
    BY DEF Login, Opens
  <1>2. saltFile \in Salts  BY <1>1 DEF Inv, VaultInv, IsSetup
  <1>3. verifierFile \in Keys  BY <1>1, <1>2 DEF Keys
  <1>4. VaultInv'  BY <1>1 DEF Inv, VaultInv, Opens
  <1> QED BY <1>1, <1>3, <1>4, Distinct, VaultStepInv DEF Inv, TypeOK

\* lock, and the expiry of a token
LEMMA LogoutInv ==
    ASSUME Inv, Logout \/ TokenExpires
    PROVE  Inv'
  <1>1. VaultInv'  BY DEF Inv, VaultInv, Opens, Logout, TokenExpires
  <1> QED BY <1>1, Distinct, VaultStepInv DEF Inv, TypeOK, Logout, TokenExpires

\* A new process finds the files and the row of the old one.
LEMMA RestartInv ==
    ASSUME Inv, Restart
    PROVE  Inv'
  <1>1. VaultInv'  BY DEF Inv, VaultInv, Opens, Restart
  <1> QED BY <1>1, ResetInv DEF Inv, TypeOK, Restart

-----------------------------------------------------------------------------
(* PUT and DELETE /api/wallet *)

RequestType ==
    [pc : {"idle", "load", "commit", "invalidate"}, want : Wallets \cup {Nothing},
     under : Keys \cup {Nothing}, saw : Rows \cup {Nothing}]

\* One request moved, the row stayed, and the cache was wiped if it did invalidate.
LEMMA RequestStepInv ==
    ASSUME Inv, NEW q \in Requests, NEW r \in RequestType,
           request' = [request EXCEPT ![q] = r], UNCHANGED <<vaultVars, row, reader>>,
           cache' = Uncached \/ (UNCHANGED cache /\ (request[q].pc # "invalidate" \/ ~Wiped(q))),
           r.want # Nothing => r.under = verifierFile /\ verifierFile \in Keys
    PROVE  Inv'
  <1>1. /\ Uncached \in [of : Wallets \cup {Nothing}, amount : {"none", "held", "zero"},
                         fresh : BOOLEAN, raced : BOOLEAN]
        /\ ~Uncached.fresh
    BY DEF Uncached
  <1>2. request' \in [Requests -> RequestType]  BY DEF Inv, TypeOK, RequestType
  <1>3. TypeOK'  BY <1>1, <1>2 DEF Inv, TypeOK, vaultVars, RequestType
  <1>4. VaultInv'  BY DEF Inv, VaultInv, Opens, vaultVars
  <1>5. SealedInv'  BY DEF Inv, SealedInv, TypeOK, vaultVars
  <1>6. CurrentInv'
    <2>1. CASE cache' = Uncached  BY <1>1, <2>1 DEF Inv, CurrentInv
    <2>2. CASE UNCHANGED cache /\ (request[q].pc # "invalidate" \/ ~Wiped(q))
      <3>1. ASSUME NEW k \in Requests, request[k].pc = "invalidate", Wiped(k)
            PROVE  request'[k].pc = "invalidate" /\ Wiped(k)'
        BY <2>2, <3>1 DEF Inv, TypeOK, Wiped, IsDelete
      <3> QED BY <2>2, <3>1 DEF Inv, CurrentInv
    <2> QED BY <2>1, <2>2
  <1> QED BY <1>3, <1>4, <1>5, <1>6 DEF Inv

\* PUT encrypts with the key in memory, DELETE has nothing to encrypt.
LEMMA AskedInv ==
    ASSUME Inv, NEW q \in Requests, Delete(q) \/ \E w \in Wallets : Put(q, w)
    PROVE  Inv'
  <1>1. request[q] \in RequestType /\ request[q].pc = "idle" /\ fernet = verifierFile
        /\ verifierFile \in Keys
    BY OpenIsWhole DEF Inv, TypeOK, RequestType, Delete, Put, Authorised
  <1>2. CASE Delete(q)
    <2> DEFINE r == [request[q] EXCEPT !.pc = "load"]
    <2>1. /\ r \in RequestType /\ r.want = request[q].want /\ r.under = request[q].under
          /\ request' = [request EXCEPT ![q] = r]
          /\ UNCHANGED <<vaultVars, row, cache, reader>>
      BY <1>1, <1>2 DEF Delete, RequestType
    <2> HIDE DEF r
    <2> QED BY <1>1, <2>1, RequestStepInv DEF Inv, SealedInv
  <1>3. ASSUME NEW w \in Wallets, Put(q, w)
        PROVE  Inv'
    <2> DEFINE r == [NoRequest EXCEPT !.pc = "load", !.want = w, !.under = fernet]
    <2>1. /\ r \in RequestType /\ r.under = fernet
          /\ request' = [request EXCEPT ![q] = r]
          /\ UNCHANGED <<vaultVars, row, cache, reader>>
      BY <1>1, <1>3 DEF Put, RequestType, NoRequest
    <2> HIDE DEF r
    <2> QED BY <1>1, <2>1, RequestStepInv
  <1> QED BY <1>2, <1>3

\* The row as it was loaded.
LEMMA LoadRowInv ==
    ASSUME Inv, NEW q \in Requests, LoadRow(q)
    PROVE  Inv'
  <1> DEFINE next == IF IsDelete(q) /\ row = Nothing THEN "invalidate" ELSE "commit"
             r    == [request[q] EXCEPT !.saw = row, !.pc = next]
  <1>1. request[q] \in RequestType /\ row \in Rows \cup {Nothing}
    BY DEF Inv, TypeOK, RequestType
  <1>2. /\ r \in RequestType /\ r.want = request[q].want /\ r.under = request[q].under
    BY <1>1 DEF RequestType
  <1>3. /\ request' = [request EXCEPT ![q] = r]
        /\ request[q].pc = "load" /\ UNCHANGED <<vaultVars, row, cache, reader>>
    BY DEF LoadRow
  <1> HIDE DEF r
  <1> QED BY <1>2, <1>3, RequestStepInv DEF Inv, SealedInv

\* The end of a request: it failed, or wiped the cache.
LEMMA RequestEndsInv ==
    ASSUME Inv, NEW q \in Requests, CommitFails(q) \/ Invalidate(q)
    PROVE  Inv'
  <1>1. NoRequest \in RequestType /\ NoRequest.want = Nothing
    BY DEF NoRequest, RequestType
  <1>2. CASE CommitFails(q)  BY <1>1, <1>2, RequestStepInv DEF CommitFails
  <1>3. CASE Invalidate(q)
    <2>1. cache' = Uncached \/ (UNCHANGED cache /\ ~Wiped(q))  BY <1>3 DEF Invalidate
    <2> QED BY <1>1, <1>3, <2>1, RequestStepInv DEF Invalidate
  <1> QED BY <1>2, <1>3

\* A commit changes whose balance is current: the fetches that are under way are
\* marked, and what is cached is about to be wiped by this request.
LEMMA CommitInv ==
    ASSUME Inv, NEW q \in Requests, Commit(q)
    PROVE  Inv'
  <1> DEFINE r == [request[q] EXCEPT !.pc = "invalidate"]
  <1>1. /\ request[q] \in RequestType /\ row \in Rows \cup {Nothing}
        /\ reader \in [Readers -> [pc : {"idle", "load", "fetch"}, of : Wallets \cup {Nothing},
                                   aged : BOOLEAN, raced : BOOLEAN]]
        /\ request \in [Requests -> RequestType]
    BY DEF Inv, TypeOK, RequestType
  <1>2. /\ row' = Written(q) /\ UNCHANGED <<vaultVars, cache>> /\ Commits(q)
        /\ reader' = [k \in Readers |-> [reader[k] EXCEPT !.raced = @ \/ reader[k].pc = "fetch"]]
        /\ request' = [request EXCEPT ![q] = r]
    BY DEF Commit
  <1>3. r \in RequestType /\ r.want = request[q].want /\ r.under = request[q].under
        /\ r.pc = "invalidate"
    BY <1>1 DEF RequestType
  <1> HIDE DEF r
  <1>4. row' \in Rows \cup {Nothing} /\ (row' = Nothing <=> IsDelete(q))
        /\ (row' # Nothing => row'.under = verifierFile)
    <2>1. CASE IsDelete(q)
      <3>1. row' = Nothing  BY <1>2, <2>1 DEF Written
      <3> QED BY <2>1, <3>1
    <2>2. CASE ~IsDelete(q)
      <3> DEFINE a == IF request[q].saw # Nothing /\ request[q].saw.address = request[q].want
                      THEN row.address ELSE request[q].want
                 new == [address |-> a, secret |-> request[q].want, under |-> request[q].under]
      <3>1. request[q].want \in Wallets /\ request[q].under = verifierFile /\ verifierFile \in Keys
        BY <1>1, <2>2 DEF IsDelete, RequestType, Inv, SealedInv
      <3>2. a \in Wallets  BY <1>1, <1>2, <2>2, <3>1 DEF Commits, Rows
      <3> HIDE DEF a
      <3>3. new \in Rows /\ new.under = verifierFile  BY <3>1, <3>2 DEF Rows
      <3>4. row' = new  BY <1>2, <2>2 DEF Written, a
      <3>5. new # Nothing  BY <3>3, Distinct
      <3> QED BY <2>2, <3>3, <3>4, <3>5
    <2> QED BY <2>1, <2>2
  <1>5. TypeOK'
    <2>1. ASSUME NEW k \in Readers
          PROVE  reader'[k] \in [pc : {"idle", "load", "fetch"}, of : Wallets \cup {Nothing},
                                 aged : BOOLEAN, raced : BOOLEAN]
      BY <1>1, <1>2
    <2>2. request' \in [Requests -> RequestType]  BY <1>1, <1>2, <1>3
    <2> QED BY <1>2, <1>4, <2>1, <2>2 DEF Inv, TypeOK, vaultVars, RequestType
  <1>6. VaultInv'  BY <1>2 DEF Inv, VaultInv, Opens, vaultVars
  <1>7. SealedInv'  BY <1>1, <1>2, <1>3, <1>4 DEF Inv, SealedInv, vaultVars
  <1>8. CurrentInv'
    <2>1. \A k \in Readers : reader'[k].pc = "fetch" => reader'[k].raced
      BY <1>1, <1>2
    <2>2. request'[q].pc = "invalidate" /\ Wiped(q)'
      BY <1>1, <1>2, <1>3, <1>4 DEF Wiped, IsDelete
    <2> QED BY <2>1, <2>2 DEF CurrentInv
  <1> QED BY <1>5, <1>6, <1>7, <1>8 DEF Inv

-----------------------------------------------------------------------------
(* get_usdc_balance *)

ReaderType ==
    [pc : {"idle", "load", "fetch"}, of : Wallets \cup {Nothing}, aged : BOOLEAN, raced : BOOLEAN]
CacheType ==
    [of : Wallets \cup {Nothing}, amount : {"none", "held", "zero"}, fresh : BOOLEAN, raced : BOOLEAN]

\* What the cache holds answers for the current wallet.
CacheCurrent(c) ==
    c.fresh => \/ row # Nothing /\ c.of = row.address
               \/ c.raced
               \/ \E q \in Requests : request[q].pc = "invalidate" /\ Wiped(q)

\* Readers and the cache changed, and both still speak of the current wallet.
LEMMA ReaderStepInv ==
    ASSUME Inv, UNCHANGED <<vaultVars, row, request>>,
           reader' \in [Readers -> ReaderType], cache' \in CacheType,
           \A r \in Readers : reader'[r].pc = "fetch" =>
               reader'[r].raced \/ (row # Nothing /\ reader'[r].of = row.address),
           CacheCurrent(cache')
    PROVE  Inv'
  <1>1. TypeOK'  BY DEF Inv, TypeOK, vaultVars, ReaderType, CacheType
  <1>2. VaultInv'  BY DEF Inv, VaultInv, Opens, vaultVars
  <1>3. SealedInv'  BY DEF Inv, SealedInv, vaultVars
  <1>4. CurrentInv'  BY DEF CurrentInv, CacheCurrent, Wiped, IsDelete
  <1> QED BY <1>1, <1>2, <1>3, <1>4 DEF Inv

\* A caller asks, or its fetch grows old.
LEMMA AskInv ==
    ASSUME Inv, NEW r \in Readers, Ask(r) \/ FetchAges(r)
    PROVE  Inv'
  <1>1. reader \in [Readers -> ReaderType] /\ cache \in CacheType /\ CacheCurrent(cache)
    BY DEF Inv, TypeOK, CurrentInv, CacheCurrent, ReaderType, CacheType
  <1>2. \A k \in Readers : reader[k].pc = "fetch" =>
            reader[k].raced \/ (row # Nothing /\ reader[k].of = row.address)
    BY DEF Inv, CurrentInv
  <1>3. CASE Ask(r)  BY <1>1, <1>2, <1>3, ReaderStepInv DEF Ask, ReaderType
  <1>4. CASE FetchAges(r)  BY <1>1, <1>2, <1>4, ReaderStepInv DEF FetchAges, ReaderType
  <1> QED BY <1>3, <1>4

\* It loads the wallet of now, or gives up.
LEMMA LoadCredentialsInv ==
    ASSUME Inv, NEW r \in Readers, LoadCredentials(r)
    PROVE  Inv'
  <1> DEFINE loaded == [reader[r] EXCEPT !.pc = "fetch", !.of = row.address]
  <1>1. /\ reader \in [Readers -> ReaderType] /\ cache \in CacheType /\ CacheCurrent(cache)
        /\ row \in Rows \cup {Nothing}
    BY DEF Inv, TypeOK, CurrentInv, CacheCurrent, ReaderType, CacheType
  <1>2. \A k \in Readers : reader[k].pc = "fetch" =>
            reader[k].raced \/ (row # Nothing /\ reader[k].of = row.address)
    BY DEF Inv, CurrentInv
  <1>3. Absent \in ReaderType /\ Absent.pc # "fetch"  BY DEF Absent, ReaderType
  <1>4. row # Nothing => loaded \in ReaderType /\ loaded.of = row.address
    BY <1>1 DEF ReaderType, Rows
  <1>5. \/ reader' = [reader EXCEPT ![r] = Absent]
        \/ row # Nothing /\ reader' = [reader EXCEPT ![r] = loaded]
    BY DEF LoadCredentials
  <1> HIDE DEF loaded
  <1> QED BY <1>1, <1>2, <1>3, <1>4, <1>5, ReaderStepInv DEF LoadCredentials

\* What it fetched is stored with what the reader knows of it.
LEMMA FetchedInv ==
    ASSUME Inv, NEW r \in Readers, NEW amount \in {"none", "held", "zero"}, Fetched(r, amount)
    PROVE  Inv'
  <1> DEFINE stored == [of |-> reader[r].of, amount |-> amount,
                        fresh |-> ~reader[r].aged, raced |-> reader[r].raced]
  <1>1. /\ reader \in [Readers -> ReaderType] /\ cache \in CacheType /\ CacheCurrent(cache)
        /\ reader[r] \in ReaderType
    BY DEF Inv, TypeOK, CurrentInv, CacheCurrent, ReaderType, CacheType
  <1>2. \A k \in Readers : reader[k].pc = "fetch" =>
            reader[k].raced \/ (row # Nothing /\ reader[k].of = row.address)
    BY DEF Inv, CurrentInv
  <1>3. Absent \in ReaderType /\ Absent.pc # "fetch"  BY DEF Absent, ReaderType
  <1>4. stored \in CacheType  BY <1>1 DEF ReaderType, CacheType
  <1>5. CacheCurrent(stored)  BY <1>2 DEF Fetched, CacheCurrent
  <1>6. cache' \in {cache, stored}  BY DEF Fetched
  <1> HIDE DEF stored
  <1> QED BY <1>1, <1>2, <1>3, <1>4, <1>5, <1>6, ReaderStepInv DEF Fetched

\* An entry that grows old is no longer answered with.
LEMMA CacheAgesInv ==
    ASSUME Inv, CacheAges
    PROVE  Inv'
  <1>1. /\ reader \in [Readers -> ReaderType] /\ cache \in CacheType
    BY DEF Inv, TypeOK, ReaderType, CacheType
  <1>2. \A k \in Readers : reader[k].pc = "fetch" =>
            reader[k].raced \/ (row # Nothing /\ reader[k].of = row.address)
    BY DEF Inv, CurrentInv
  <1>3. cache' \in CacheType /\ ~cache'.fresh  BY <1>1 DEF CacheAges, CacheType
  <1> QED BY <1>1, <1>2, <1>3, ReaderStepInv DEF CacheAges, CacheCurrent

-----------------------------------------------------------------------------
\* Nothing is set up, stored or asked for.
LEMMA InitInv ==
    ASSUME Init
    PROVE  Inv
  <1>1. TypeOK
    BY WalletAssumption DEF Init, TypeOK, Uncached, Absent, NoRequest
  <1>2. VaultInv  BY Distinct DEF Init, VaultInv
  <1> QED BY <1>1, <1>2 DEF Init, Inv, SealedInv, CurrentInv, Uncached, Absent, NoRequest

\* Every step keeps the invariant.
LEMMA NextInv ==
    ASSUME Inv, Next
    PROVE  Inv'
  <1>1. ASSUME NEW p \in Passwords, Setup(p) \/ SetupCrashes(p) \/ Login(p)
        PROVE  Inv'
    BY <1>1, SetupInv, SetupCrashesInv, LoginInv
  <1>2. ASSUME Logout \/ TokenExpires \/ Restart \/ CacheAges
        PROVE  Inv'
    BY <1>2, LogoutInv, RestartInv, CacheAgesInv
  <1>3. ASSUME NEW q \in Requests,
               \/ \E w \in Wallets : Put(q, w)
               \/ Delete(q) \/ LoadRow(q) \/ Commit(q) \/ CommitFails(q) \/ Invalidate(q)
        PROVE  Inv'
    BY <1>3, AskedInv, LoadRowInv, CommitInv, RequestEndsInv
  <1>4. ASSUME NEW r \in Readers,
               \/ Ask(r) \/ LoadCredentials(r) \/ FetchAges(r)
               \/ \E amount \in {"none", "held", "zero"} : Fetched(r, amount)
        PROVE  Inv'
    BY <1>4, AskInv, LoadCredentialsInv, FetchedInv
  <1> QED BY <1>1, <1>2, <1>3, <1>4 DEF Next

\* A step that changes nothing keeps the invariant.
LEMMA StutterInv ==
    ASSUME Inv, UNCHANGED vars
    PROVE  Inv'
  <1>1. reader \in [Readers -> ReaderType] /\ cache \in CacheType /\ CacheCurrent(cache)
    BY DEF Inv, TypeOK, CurrentInv, CacheCurrent, ReaderType, CacheType
  <1> QED BY <1>1, ReaderStepInv DEF Inv, CurrentInv, vars

-----------------------------------------------------------------------------
\* In every reachable state of the vault, the wallet requests and the balance
\* cache, wherever the process crashes, the inductive invariant holds.
THEOREM Invariance == Spec => []Inv
  <1>1. Init => Inv  BY InitInv
  <1>2. Inv /\ [Next]_vars => Inv'  BY NextInv, StutterInv
  <1> QED BY <1>1, <1>2, PTL DEF Spec

\* The key in memory is none or the verifier's, and files, row, cache, readers and
\* requests keep their types (vault.py:48-95, wallet.py, clob_client.py:244-330).
THEOREM TypeCorrect == Spec => []TypeOK
  <1>1. Inv => TypeOK  BY DEF Inv
  <1> QED BY <1>1, Invariance, PTL

\* Whatever crashes, restarts and requests race, what is stored can be decrypted by
\* whoever knows a password that logs in: a vault that holds anything is never set
\* up again (vault.py:48-64).
THEOREM StoredSecretsOpen == Spec => []SecretsOpen
  <1>1. Inv => SecretsOpen
    <2> SUFFICES ASSUME Inv, row # Nothing  PROVE  SecretsOpen
      BY DEF SecretsOpen
    <2>1. row.under \in Keys /\ row.under = verifierFile
      BY DEF Inv, TypeOK, Rows, SealedInv
    <2> QED BY <2>1 DEF Inv, VaultInv, SecretsOpen
  <1> QED BY <1>1, Invariance, PTL

\* A balance that is answered is the current wallet's, but for a change whose wipe
\* of the cache is still to come and a fetch that ran across a change, for any
\* number of callers and of requests (wallet.py:101-131, clob_client.py:244-330).
THEOREM AnswersOfWallet == Spec => []CacheIsOfWallet
  <1>1. Inv => CacheIsOfWallet  BY DEF Inv, CurrentInv, CacheIsOfWallet
  <1> QED BY <1>1, Invariance, PTL
===============================================================================
