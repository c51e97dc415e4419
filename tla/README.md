# Bastion: TLA+ models, checks and proofs

Bastion (`src/`) is a Rust HTTP server skeleton: accounts with Argon2
passwords and a lockout, sessions built on single-use refresh tokens with
four access-token formats, notes owned by their author, four database
backends behind repository traits, a middleware stack with plugins, and a
tool that moves a SQLite store to PostgreSQL.

What is hard in it is not any single function. Each request is a future
that runs a handful of database statements with `.await` between them;
requests of one process and of several processes share nothing but the
database; every request can be dropped at any `.await` (request timeout,
client gone, store error, crash). No operation of the services holds a
transaction over two statements. The models follow from that: **one action
is one statement of the store**, or one wait for a permit, with what the
caller decides from its answer, and between two actions of a request anything
may happen.

## 1. Inventory

| Component | Source (under `src/src/`) | State | Hard behaviour | What makes it correct | Module |
| --- | --- | --- | --- | --- | --- |
| Session service | `service/session_service.rs` | `refresh_tokens` | two holders of one token, revocation racing a rotation, lost answers, drops | one chain of single-use tokens per login; what is over stays over; nothing else is revoked | `Sessions` |
| Opaque access tokens | `security/opaque.rs` | `access_tokens` | a second table, no transaction with the first | end with their session | `Sessions`, `Auth`, `Issuers` |
| Token janitor | `service/token_janitor.rs`, `main.rs` | its cut-off | stale cut-off, failing sweeps, a fast clock | never too early, in the end always | `Sessions`, `Issuers` |
| Account service | `service/account_service.rs` | `users` | rows read before a slow hash and written after it | one account per address, exact lockout, bootstrap keeps credentials | `Accounts` |
| Auth service | `service/auth_service.rs` | none | halves of one operation in different components | a change of password ends the sessions of the old one | `Auth` |
| Store backends | `repository/*.rs` | the tables | MySQL's two-statement methods, MongoDB's milliseconds and many-document commands | all four keep one contract | `Stores` |
| Note service | `service/note_service.rs` | `notes` | an update racing a deletion, page and total in two statements | only the owner sees or changes a note | `Stores` |
| Password hasher, pools | `security/password.rs`, `db.rs` | a semaphore, a pool | permits of dropped requests, blocking tasks that go on | permits are accounted for, nobody waits for ever | `Admission` |
| Connections and load control | `net.rs`, `server.rs`, `api/mod.rs` | connection and route permits | handshakes, disconnects, shedding, shutdown | the same, and the process stops | `Admission` |
| Store migration | `migrate.rs`, `bin/bastion-migrate-store.rs` | one target transaction | a source written during the copy, two runs at once, partial failure, a lost COMMIT | all or nothing; spent stays spent | `Migrate` |
| Token formats | `security/jwt.rs`, `paseto.rs`, `opaque.rs`, `token.rs` | keys and clocks of each process | restarts in another format or key, clocks apart | honoured only as minted, and as long as advertised | `Issuers` |
| Configuration | `config.rs` | none | refusals in two places | only a vetted process serves | `Config`, `Serving` |
| Plugins, guards, canonical paths, headers | `plugin/`, `api/path.rs`, `api/mod.rs`, `security/headers.rs` | fixed at start-up | filters judge one spelling and routes take another; panics and stripped headers | guards bind handlers, every answer is hardened | `Pipeline`, `Serving` |

Handlers (`api/`) extract the caller (`security/extract.rs`, which calls
`verify` of the token format) and call `AuthService` or `NoteService`.
`AuthService` calls `AccountService`, then `SessionService`; `SessionService`
calls the token repository and the `TokenIssuer`. The janitor runs beside them
on its own timer with only `delete_expired` at its disposal. `main.rs` reads
the configuration, connects, bootstraps an administrator, binds, resolves the
plugins and serves until a signal. The migration program is a process of its
own over two databases.

`PROJECT.json` lists every component with its status, and every hazard with
the line where it bites and the properties that would catch it.

## 2. Modules

| Module | What it is |
| --- | --- |
| `SessionChain` | abstract specification: a login is a chain of single-use tokens, with one head or one rotation at a time |
| `Sessions` | SessionService, both token tables, the janitor, the clock; implements `SessionChain` |
| `Accounts` | AccountService over the users table |
| `Auth` | AuthService: `Accounts` and `Sessions` instantiated over one clock and one set of requests |
| `Tables` | a table as a function from ids to rows, rows as inserted, a driver's answers |
| `SqliteStore`, `PostgresStore`, `MySqlStore`, `MongoStore` | every method of every port on that backend |
| `StoreContract` | abstract specification: what the repository traits promise |
| `Stores` | callers of the ports on any of the four backends, and NoteService above them; implements `StoreContract` |
| `Migrate` | the migration program, over `SqliteStore` and `PostgresStore` |
| `Admission` | connections, requests, hashing permits, pooled connections, shutdown |
| `Config` | what `AppConfig::from_env` refuses |
| `Issuers` | access tokens across instances, formats, keys, restarts and clocks; EXTENDS `Config` |
| `Pipeline` | filters, canonical path, routes, and the onion of layers; EXTENDS `Config` |
| `Serving` | a process from its environment to its last answer; EXTENDS `Pipeline` |
| `SessionsProofs`, `AccountsProofs`, `AuthProofs`, `MigrateProofs`, `IssuersProofs`, `AdmissionProofs`, `ServingProofs`, `StoresProofs` | theorems and their proofs |
| `MC*` | model values, definitions and symmetry for TLC |

`Where`, `Change`, `Taken` and the like in `Tables` replace what SQL and the
MongoDB driver do; the four store modules then say which rows a method's
statement matches and what its answer becomes, one definition per method.

### Sessions

`req[r]` is a request slot: `pc` names the statement it runs next, the other
fields are the local variables that survive an `.await`. The refresh table
is kept by columns (`stored` the rows, `used`, `revoked`, `user_id`,
`family`, `expires_at`). The access token minted in the same `issue()` as a
refresh token bears the same name, so one set `Tokens` serves both tables.

| Action | Code |
| --- | --- |
| `StartSession` | `AuthService::login` after `authenticate`; a fresh family |
| `IssueAccess`, `InsertRefresh` | `SessionService::issue`, first and second statement |
| `PresentRefresh`, `FindRefresh`, `MarkUsed`, `RevokeReplayed` | `redeem` |
| `CheckAccount` | `AccountService::active`, between `redeem` and `resume` |
| `PresentLogout`, `FindLogout`, `LogoutFamily`, `LogoutAccess` | `revoke` |
| `BeginRevokeAll`, `RevokeAllRefresh`, `RevokeAllAccess` | `revoke_all` |
| `Drop` | `?`, the request timeout, a disconnect, a crash |
| `SweepStart`, `SweepRefresh`, `SweepAccess`, `SweepFail` | the loop of `main.rs` and `purge_expired` |

Clock readings are taken where the code takes them: `redeem` reads it before
the row, `issue` reads it after the statement before and before its own
(`\E at \in req[r].at..now`), and the sweep reads its cut-off when it starts.
Digests, secrets and the constant-time comparison are abstracted to identity:
two different tokens never have one digest. `locked` is the one thing
`Sessions` needs to know of the account; the environment sets it.

History variables, which no guard that models code reads: `issued` (every
row ever inserted), `condemned` (families revoked for reuse). `held` limits
what a client presents to what some client was given; `started` keeps the
family identifiers fresh, which is what a random UUID does.

### Accounts

`call[c]` is one call, made once. `seen` is the row it read and `at` the clock
it read; every later decision uses them, as the code does. An address is
already normalised; a password stands for its hash. `streak` and
`overlapped` are history: failures since the last success, and the
addresses whose logins have ever been under way at the same time.

### Auth

`Auth` conjoins actions of the two instances and says what travels between
them: the role read by `authenticate` or `active` into `issue`, and the order
of `update_password_hash` before `revoke_all`. Sessions' own `locked` is
instantiated to the empty set, because `CheckAccount` reads the row's lock.
A database may already hold accounts when a process starts, so `Init` allows
them. History: `era` counts replacements of an account's password, `begun[f]`
is the last era in which the password family `f` logged in with was valid,
`over` the era up to which a change was answered, `spared[f]` the last era
whose opening change could not see the family. A change is that of its own
account: `pending` in `Granted` asks whether a change of the *same* account is
still to revoke, not of any account whose era has the same number.

### Stores

A caller asks a method of a port (`Call`) and the backend runs it: `Statement`
in one statement, `MySqlWrite` and `MySqlRead` as MySQL's transaction of a write
and the read that stands for RETURNING, `MongoOne` and `MongoEnd` as MongoDB's
`update_many` and `delete_many`, document by document. The answer comes back
unless the request is dropped in between, which rolls a transaction back and
leaves a many-document command where it is. `List` and `Total` are the two
statements of a page of notes. The clock has two instants to a millisecond,
so MongoDB's truncation shows. In `StoreContract` the same call is one atomic
step, with the freedom the traits leave and no more: stored times may be up to
`loss` early, and a revocation or sweep of many rows may be seen row by row
(`Some`) but is answered (`All`) only when none of the rows that were there
when it was asked for is left. The mapping is the identity on the committed
table: a transaction under way is a call not yet answered.

### Migrate

Each copy walks `Start`, `Survey`, `Begin`, `EnsureEmpty`, then `Read` and
`Write` per table, `Verify`, and `Commit` or `RollBack`, table by table; `Fail`
is any `?`. `tx[c]` is what the copy's transaction wrote, which nobody else
sees, but whose keys make other inserts wait (`Blocked`). Beside the copies, a
server that was not stopped goes on executing requests on the file
(`Accept`, `Execute`), and somebody registers on the target (`Register`).
`COMMIT` may take effect and its answer be lost: `landed` says it did, `pc`
what the operator was told. `dead` and `quiet` are histories.

### Admission

A handler is the sequence of waits its service makes: a statement on a pooled
connection, or a hash under a permit. `Drop` is what a dropped future gives
back, `Hang` what a dropped `GuardedStream` gives back; every way a request
or a connection ends is an action built on them. The blocking task of a hash
(`tasks`) outlives the request that started it.

### Issuers, Pipeline, Serving

An environment is a record of the variables that were set. `Config.Accepted` is
the conjunction of every refusal of `from_env`, `Pipeline.PluginsAccept` of
every refusal of `Registry::resolve`. `Issuers` starts and stops instances
in any environment, with clocks of their own. `Issue` asks nobody whether the
session was ended, since `SessionService::issue` does not: a refresh that is past
`mark_used` issues also after a logout. `erased`, a history, is the set of tokens
that were out when an opaque issuer ended their session. `Pipeline` is the pure part of
the request path: a path is a sequence of segments, a layer is a name, and
`Outwards` is what a layer makes of an answer; an embedder's plugins may
strip headers, panic, or stand in any stage. `Serving` runs requests
through it after the start-up has let it.

## 3. Runs

All bounds are constants of the configurations.

| Run | Bounds | Distinct states | Shows |
| --- | --- | --- | --- |
| `sessions_chain` | 2 logins of one account, 2 tokens, 2 requests, 2 instants, opaque | 860 thousand | `TypeOK`, `HalfIssuedEnds`, `OneChain`, `AlarmIsReplay`, `DeadStaysDead`, `OtherDevicesUntouched`, refinement of `SessionChain` |
| `sessions_sweep` | 2 tokens, 1 request, 3 instants, a lockable account, fairness | 184 thousand | `RowsOutliveValidity`, `ExpiredAreSwept` |
| `accounts` | 1 address, 2 passwords, 4 calls, threshold 2, 3 instants | 571 thousand | `OneAccountPerAddress`, `BootstrapDelivers`, `BootstrapKeepsCredential`, `LockIsEarned`, `LockoutIsExact` |
| `auth` | 1 account, 2 slots, 1 login, 2 tokens, threshold 1, 2 instants, opaque | 2.0 million | `SurvivorsOverlapped` |
| `stores` | 4 backends, 4 tables, 2 callers, 2 ids, every method, pages of at most 2, 2 instants | 953 thousand | `ImplementsContract`, `OwnNoteOrNotFound`, `NothingComesBack`, `QuietPagesAgree` |
| `migrate` | 2 runs, dry or not, 2 files, a refresh and a registration still running, 1 stranger, fairness | 584 thousand | `AllOrNothing`, `SpentStaysSpent`, `OneLivePerFamily`, `QuietCopyIsExact`, `EveryRunEnds` |
| `admission` | 3 connections (1 HTTP/2) for 2 slots, 3 requests for 2 places per route, 1 hash, 1 pooled connection, fairness | 83 thousand | `PermitsAccounted`, `ServedOnLiveConnections`, `EveryRequestEnds`, `ConnectionsEnd`, `ShutdownEnds` |
| `issuers` | 2 instances, 10 environments, 1 token, 2 sessions, lifetime 2, leeway and drift 1, 5 instants | 220 thousand | `HonouredOnlyAsMinted`, `AdvertisedLifetimeKept`, `StoredRevocationHolds` |
| `serving` | 17 environments, 5 sets of plugins, 2 requests of 14 kinds | 35 thousand | `EveryAnswerHardened`, `GuardsBindHandlers`, `CredentialWorkBounded`, `OnlyVettedServes` |

Three more runs state what a document says and are violated (section 4).

Why these are enough to be worth running. A race needs two requests; two
tokens are a rotation; three instants are before, at and after an expiry, and
two suffice where the property is not about time. Addresses do not
interact in `Accounts`, and tables do not in `Stores` (no method touches two),
so one address with several calls and one table at a time are the interesting
cases. In `Migrate` the small file has one row of every state the copy must
tell apart: a spent token and its live successor, a revoked one, a locked
account; the jobs still running are the two that write to several tables.
`Admission` has one of everything that is scarce and one more who wants it.
Tokens do not interact in `Issuers`; two instances are what a difference
between clocks needs. The heads of `Serving` cover every branch of the router,
every guard's reason to refuse and every spelling the filters and the router
see differently; its environments are four good ones and each refusal once.
What the small instances cannot say about larger ones is what the theorems of
section 5 are for. Symmetry is used over sets whose members are only compared
for equality; runs with a liveness property use none.

Deadlock checking is on for `Sessions`: slots are reused, so the system never
stops. In the others calls, requests, copies or the clock are bounded and
behaviours really end; their configurations switch the check off.

## 4. Where the code does not keep what the documents say

Three are runs of one property each, which TLC violates:

| Run | Property | What happens |
| --- | --- | --- |
| `sessions_replay` | `ReplayEndsSession` | `revoke_family` runs while the request that won the race has not inserted its next token; that token arrives unrevoked and can be refreshed for ever |
| `admission_hashes` | `HashesBounded` | a request dropped while its hash runs returns its permit at once, the blocking task goes on: more hashes run than there are permits |
| `serving_policy` | `PolicyOnEveryAnswer` | a guard's rejection, the 404 of a path that is not canonical, a shed request and the 500 for a panic carry no content security policy |

The positive counterparts delimit each of these: `OneChain` still holds in
every race, `PermitsAccounted` says no permit is lost, and `EveryAnswerHardened`
says what every answer does carry.

The modelling showed more, which the models represent as the code has it and
which the properties above are stated around:

- Reuse detection revokes the refresh tokens of a family but leaves its stored
  access tokens (`session_service.rs:89`), so they live to their expiry; README
  235-239 and 438-441 read as if the session ended.
- Overlapping wrong logins read and write one counter (`account_service.rs:199`), so
  failures are lost; `config.rs:318` and README 355 count every failure.
  `LockIsEarned` says the counter errs on one side only, `LockoutIsExact` that it
  is exact for logins that do not overlap.
- A login that read the row before the lock, and then succeeds, writes NULL
  over it (`account_service.rs:210`): the lock of README 356 ends early.
- A session between two of its rows when `revoke_all` runs survives a change of
  password (`auth_service.rs:68`; README 263). `SurvivorsOverlapped` says only such
  a session can. The two halves of the change are not atomic either
  (`auth_service.rs:64-68`): a drop between them leaves the old sessions.
- `verify` of an opaque token reads the role as it was at issue
  (`opaque.rs:114-116`), not as it is (README 448).
- `Router::layer` wraps every route by itself, so the concurrency limit of
  `config.rs:132` and README 365 is one per route.
- When the answer to COMMIT is lost, the migration reports an error although
  the target is full; line 94 of the program prints "nothing was committed to the
  target". Rows written to tables that are read later are carried although they
  were written after the copy began, which the usage text (lines 31-32) excludes.
- The SQL pages of notes order by time alone, so ties may repeat or skip a note
  between pages; MongoDB breaks them by `_id`.
- Plugins of the page stage wrap outside the page's policy and cache headers,
  although `plugin/mod.rs:86` says inside.
- A panic in an embedder's `RequestFilter` unwinds above `CatchPanicLayer` and
  drops the connection (`api/mod.rs:146-147`); filters see `Authorization` before
  it is marked sensitive (`api/mod.rs:149-150`); and the request log never sees
  what filters reject, canonical 404s and panics (README 731).
- A revocation by an instance with a stateless format leaves the opaque rows
  (`token.rs:64-76`), so old opaque tokens work again after switching back;
  `StoredRevocationHolds` is about tokens an opaque issuer revoked.
- A refresh that is past `mark_used` (`session_service.rs:94`) stores its access row
  after a concurrent logout or `revoke_all` has deleted the rows, and the API
  honours it to its expiry, although the table of README 445-447 says that what an
  opaque issuer ends is gone immediately. `StoredRevocationHolds` says it of the
  tokens that were out at that moment, `SurvivorsOverlapped` bounds the rest.
- A refresh that fails between `mark_used` and the insert of its next token
  (`auth_service.rs:50-52`: a lock, a dropped request, an error of the store) has
  spent the token and ends the session of a client that did nothing wrong. When it
  had stored its access token already, that row stays; `HalfIssuedEnds` says it
  belongs to a login that can go on no more.
- A key pair whose halves do not belong together is accepted at start-up and
  refuses every token it mints.
- The janitor of an instance whose clock is ahead takes that drift from the
  lifetime of stored access tokens; `AdvertisedLifetimeKept` grants it.

## 5. Proofs

The theorems hold for every value of the constants under the named
assumptions (`SessionsAssumption`, `AccountsAssumption`, `AuthAssumption`, `IssuersAssumption`,
`StoresAssumption`, `AdmissionAssumption`, `HeadsAssumption` and `ServingAssumption`, and `MigrateAssumption`
and `SessionAssumption` of `Migrate`, which TLC evaluates on every run), with
machine-checked proofs down to the last leaf.

| Module | Theorem | Statement |
| --- | --- | --- |
| `SessionsProofs` | `Inductive` | `Spec => []IndInv` |
| | `TypeCorrect` | `Spec => []TypeOK` |
| | `ChainIsSingle` | `Spec => []OneChain` |
| | `RowsSurvive` | `Spec => []RowsOutliveValidity` |
| | `AlarmIsHonest` | `Spec => []AlarmIsReplay` |
| | `DeadIsFinal` | `Spec => DeadStaysDead` |
| | `DevicesAreSeparate` | `Spec => OtherDevicesUntouched` |
| | `HalfIssuesEnd` | `Spec => []HalfIssuedEnds` |
| | `ChainRefined` | `Spec => ImplementsChain` |
| `AccountsProofs` | `TypeCorrect` | `Spec => []TypeOK` |
| | `OneCreator` | `Spec => []OneAccountPerAddress` |
| | `BootstrapWorks` | `Spec => []BootstrapDelivers` |
| | `NoCheapLock` | `Spec => []LockIsEarned` |
| | `ExactLock` | `Spec => []LockoutIsExact` |
| | `BootstrapHarmless` | `Spec => BootstrapKeepsCredential` |
| `AuthProofs` | `ImplementsSessions` | `Spec => S!Spec` |
| | `Composed` | `Spec => []ComposedInv` |
| | `TypeCorrect` | `Spec => []TypeOK` |
| | `SurvivorsHold` | `Spec => []SurvivorsOverlapped` |
| | `SessionsAreChains` | `Spec => []S!OneChain` |
| `StoresProofs` | `Implementation` | `Spec => ImplementsContract` |
| | `TypesKept` | `Spec => []TypeOK` |
| | `NotesAreTheOwners` | `Spec => []OwnNoteOrNotFound` |
| | `DeletedStaysDeleted` | `Spec => NothingComesBack` |
| | `PagesAgree` | `Spec => QuietPagesAgree` |
| `MigrateProofs` | `TypeCorrect` | `Spec => []TypeOK` |
| | `NothingMixed` | `Spec => []AllOrNothing` |
| | `SpentStays` | `Spec => []SpentStaysSpent` |
| | `QuietExact` | `Spec => []QuietCopyIsExact` |
| | `CarriedOnce` | `Spec => []OneLivePerFamily` |
| | `RunsAreShort` | `Spec => RunsAdvance` |
| | `RunsNeverDeadlock` | `Spec => []OneIsFree` |
| `IssuersProofs` | `Minting` | `Spec => []HonouredOnlyAsMinted` |
| | `Advertised` | `Spec => []AdvertisedLifetimeKept` |
| | `RevocationHolds` | `Spec => []StoredRevocationHolds` |
| `AdmissionProofs` | `EveryPermitCounted` | `Spec => []PermitsAccounted` |
| | `NobodyServedAfterwards` | `Spec => []ServedOnLiveConnections` |
| | `NoCircularWait` | `Spec => []SomebodyCanStep` |
| | `EveryStepCounts` | `Spec => RequestsAdvance` |
| `ServingProofs` | `GuardsBind` | `Spec => []GuardsBindHandlers` |
| | `AnswersHardened` | `Spec => []EveryAnswerHardened` |
| | `WorkBounded` | `Spec => []CredentialWorkBounded` |
| | `Vetting` | `Spec => []OnlyVettedServes` |
| | `OnlyAcceptedServes` | `Spec => []ServesAccepted` |

None of the invariants is inductive alone; each module strengthens it, states
the result as the theorem `Invariant` (`Inductive` in `SessionsProofs`), and the
theorems above follow.

*Sessions.* `IndInv` adds to `OneChain`: rows name only issued tokens of begun
families (`RowsOK`); a request's local variables are what its statement needs,
and a request about to raise the alarm holds a token `mark_used` would refuse
(`JobOK`); two requests never carry the same token to their insert; the sweep's
cut-off is a past reading of the clock; a row outlives its token's validity.
Then: a token leaves `Unspent` only by `MarkUsed`, which is enabled for one
request only because `Redeemable` is tested and cleared in one statement; the
request that took it is the family's only `Rotating` one; and only a rotating
request adds an unspent token, when it stops rotating. `DeadStaysDead` and the
refinement follow step by step from the invariant: what a step does to `Live(f)`
and `Rotating(f)` is settled once per kind of action in the lemmas. `IndInv` is
stated in `SessionsProofs`, since it says nothing a reader needs beyond the
properties it proves; TLC checked it on the instance of `sessions_chain` first.

`HalfIssuedEnds` needs one thing more (`HalfInv`): a token that has a name and was
never inserted is being inserted, or its login is `Settled`, that is without an
unspent token and without a rotation. A request that is dropped before its insert
was, by `OneChain`, all that its family had (`HalfStep`), and a settled login stays
so (`SettledStays`), since only a rotation adds a token and only an unspent one
starts a rotation. `OtherDevicesUntouched` is a property of steps: the culprit is
the request whose step it is, and `RevokesMoves` shows that a step which revokes or
deletes anything is the sweep's or moves exactly one request.

*Accounts.* The difficulty is that a request decides from a copy of the row.
The strengthening says what each copy still is: an account never goes away
and its creator is one call (`PresentInv`); a copy's counter is never above the
failures recorded since the last success (`SeenInv`); and while logins of an
address have never overlapped, the copy a login holds is the row, so its
counter is exact (`AloneInv`). TLC checked the strengthened invariant on the
instance of `accounts` before it was proved.

*Auth.* `AuthProofs` instantiates the two proof modules over the shared clock and
the shared requests. Every step of the composition is a step of `Sessions`
(`ImplementsSessions`), so all that is proved of sessions holds here
without a second proof; a step leaves rows and calls as a step of `Accounts`
does, but the two components move in one step of a request, so
`AccountsHold` proves the part of Accounts' invariant that is needed again, from
its lemmas. Together they are `ComposedInv`. `AuthInv` then says how the eras
of a password relate to the sessions. Each session has one account, which is
there for good (`HomeInv`); a row read before a change was read in an earlier era
(`AgedInv`), so a login that the change overtook knows it is stale; each era is
opened by one change, whose request then does nothing but `revoke_all`
(`ChangeInv`), and is declared over only by it (`OverInv`). The heart is
`CutInv`: a family that can still be refreshed, or is being rotated, is excused
(younger than the change, or `spared` by it) from every change that has been
through `refresh_tokens`, the answered ones and those still on their way to
`access_tokens`. `AccessInv` says the same of stored access tokens and answered
changes. A session becomes active only by a login (`ActiveStep`), an era joins
the cut only by the statement that revokes (`CutStep`), and the two meet in
`CutKept`. TLC checks `AuthInv` on the instance of the run `auth`, and with two
accounts, three calls and two logins by simulation. That larger instance, and
the proof before it, refuted an earlier form of `pending` that did not ask
whose change it is; with one account the difference cannot show.

*Stores.* The callers, the calls they make, the backends, the clock and the sizes of
pages are arbitrary; `StoresAssumption` says that a call gives a method of a
port (`Ports`, from the four traits) what the trait asks for. The proof of the
refinement goes by kind of method. The lemmas from `FindReplies` to
`DocumentByDocument` put the text of the four backends next to the contract: what
one statement of any of them does is one of the outcomes the contract allows,
up to MongoDB's milliseconds, which `Rounding` bounds by less than one. `Moves`
then says once what any outcome may do to the table: rows stay whole, only an
insert brings one, an address never changes, a revocation is for good, and a
method about one account or note leaves the others alone.

A statement of the backend is then a step of the contract, and so is a document
of a many-document command (`OneByOneStep`). The hard case is MySQL, whose write
shows nothing and whose read and commit must be the whole method at one instant
(`CommitIsOutcome`). That needs the invariant: what an open transaction wrote is
what it would write now (`Standing`), stamped at some moment of the call, and an
insert that was not refused then would not be refused now. Other callers cannot
change that, because whoever writes without waiting, and whoever else holds a
transaction open, is about another row and another address (`Apart`,
`LocksApart`): InnoDB's locks are what the proof rests on (`StandingKept`). The
other parts of `StoresInv` say that ids are given out once (`IdsInv`), that a
many-document command counts no document twice, since what it took is spent
for good (`TookInv`, `SpentGrows`, `OneMoreSpent`), and that a page is as long as
the notes that were seen with it allow (`PageInv`, from `PageLength`: a page of any
order of any finite set of notes has the length offset and limit leave).
`OwnNoteOrNotFound` follows from the contract's outcomes and not from each
backend (`OutcomesOwn`). TLC checks `StoresInv` on the instance of the run `stores`,
and with three callers by simulation.

*Migrate.* The databases, the requests of the server that was not stopped and the
number of runs are arbitrary. `MigrateAssumption` says what they are: finite tables
of whole rows, requests that are sequences of statements of the repository
traits (none of which deletes a user), and ids that nobody chose before.
`SessionAssumption` says that a request issues at most one refresh token, in a
family of its own or in that of a token it has marked used before
(`session_service.rs:58-109`), and that the file starts with one usable token
per family, which is what `OneChain` of `Sessions` promises. The lemmas up to
`Executed` settle what each statement of the SQLite backend does to a table;
`Moved` what each action leaves of a run, so that the invariants deal with ten
kinds of move and two of everybody else's. `CopyInv` says what is read and
written at each place (`PlaceInv`), that keys are held by one transaction or the
target (`KeysInv`), and two things that carry `AllOrNothing`: a user is never
deleted, so what two runs read of the users is nested (`UsersInv`), and every row
needs its user, so a run that read no users and has counted them read
nothing (`OwnersInv`, `NothingInv`). Two runs that both read something therefore
share a user; the second waits, is refused, or would hold a key of the target
(`FirstCommit`). `DeadInv` follows dead tokens through the file, into what a run
reads, and into what a later run reads, since the rows of the target may be
another run's than the one that landed. `SessionInv` follows families: between a
token that is marked used and its successor no token of the family is usable
(`Cleared`), so one SELECT never sees two. TLC checks `CopyInv` and `SessionInv`
on the instance of the run `migrate`, and larger ones by simulation.

*Issuers.* The invariant relates what was minted to what is stored: a row exists
only for an issued token of an opaque instance that was never revoked, although
its session may have been ended before it was issued, and expires as the minting
clock said; and such a token has its row until a sweep may take it. Clocks never
differ by more than `Drift`. The rest is arithmetic over two clocks, which needs
`Drift <= Leeway`: the allowance for drift that `jwt.rs:68-69` makes.

*Admission.* Each counter is tied to the set of its holders: free slots plus
connections that are up, and so on, with the shape of the request records
(`AccountInv`). `HangingUp` and `Dropping` prove once that what goes back is
what was held by a set of connections or requests, by counting; every way
to end one cites them. `AdmissionAssumption` asks that `Routes` gives each route
at least one wait: a handler that waits for nothing holds no permit of a pool and
is left out of `Routes`.

*Serving.* What the filters decided about the path that was sent must still be
true of the canonical one. `CanonicalPath` says the canonical path is a prefix
and its own canonical form, `GuardsAgree` that every guard lets it pass; the
invariant carries that from routing to the answer of the handler.

How many layers an answer passes depends on what an embedder registers, so that
`EveryAnswerHardened` is a statement about sequences of any length. `Unwound` is a
recursive function over the positions of the layers, and induction over them is
done by `Least`: a set of natural numbers that is not empty has a least member, so
a claim that fails somewhere fails at a position whose neighbour satisfies it.
(The library states induction with an operator parameter; the fact it is
derived from, that `<` is well-founded on the naturals, has none.) `Unwinding`
shows that the function exists for any sequence, `OnTheWay` what all layers
preserve: none makes a panic or an error of an answer that is neither, which is
what `Error = Infallible` says of a plugin's layer. `OnionLayers` finds the fixed
layers in any onion: five outermost, and the load shedder inside
`HandleErrorLayer`. From these `OutOfOnion` says that what leaves is fit to be sent.
`WorkInv` counts: each request of a client that reached a credential handler is
matched by a slot that is taken or was given back, since the limiter is one of
the layers of the branch (`StageLayers`) and a request gets past it only while
its bucket is not empty. `ServingAssumption` says that the requests are finitely
many, that buckets have sizes in the naturals and that plugins are what
`Registry` allows.

Only model-checked: every liveness property (`ExpiredAreSwept`, `EveryRunEnds`,
`EveryRequestEnds`, `ConnectionsEnd`, `ShutdownEnds`), since liveness under
fairness is out of the prover's reach.

What two of them rest on is proved, for any number of runs and of requests. Of
`EveryRunEnds`: each step of a run of `migrate-store` leaves it fewer statements
than it had, twenty at the start, and nobody else's step gives it any back
(`RunsAreShort`); a run waits only for one that is further along, by `PlaceInv`
and the fixed order of the tables, so of the runs under way the one that is
furthest waits for nobody (`RunsNeverDeadlock`, which takes the least of a set
of naturals as `Serving` does). Of `EveryRequestEnds`: each step of a request
that has been let in takes it nearer its answer or ends it, at most twice as
many steps as its handler has waits (`EveryStepCounts`), and whenever one waits
for a connection of the pool or for a hashing permit, somebody holds one or one
is free, and who holds one waits for no other (`NoCircularWait`, from
`AccountInv`: permits are given out only to requests that hold, and there is at
least one). Fairness has to add only that whoever can step does, and that
nobody is passed over for ever. These four are stated in the proof modules.

## 6. Fairness

- `Sessions`: `spawn_token_cleanup` loops over an interval timer and survives
  every error, so a sweep that can start does (`WF` on `SweepStart`). A sweep may
  fail at any statement, but the store is assumed not to fail a statement for
  ever (`SF` on `SweepRefresh` and on `SweepAccess`): strong, because each failure
  disables the statement until the next tick. Requests get no fairness:
  clients may stop at any point.
- `Migrate`: a run that was started is never paused (`WF` on the steps of each
  copy). Nothing is assumed of the server, the stranger or a second run.
- `Admission`: tokio's semaphore and the pools are first come, first served, so
  a request that can take a permit again and again gets one (`SF` on each
  request's steps; statements and hashes end). The handshake timer, the header
  timer and the grace timer go off (`WF`). The timeout of a request is *not*
  assumed: `EveryRequestEnds` holds without it, and so says that nobody holds one
  permit while waiting for another. HTTP/2 connections have no idle timer in the
  code, and `ConnectionsEnd` leaves them out.
- The other runs check safety only and assume none.

## 7. Not modelled, and why

Cryptography (hashes, signatures, digests) is represented by its effect:
passwords verify or do not, a token opens with the key that sealed it. The
validation of request bodies field by field, the wording of errors and
`telemetry.rs` carry no state a property speaks of. The arithmetic of the rate
limiter's buckets belongs to the governor crate and appears as so many
requests and slots that come back. hyper, axum, tower and the database engines
are external and modelled from how the code sets them up and what it asks of
them; a SQL statement is atomic, InnoDB's row locks and PostgreSQL's waiting
inserts are as those servers document them. Log sampling and the set-up of the
subscriber are I/O. PostgreSQL and MySQL keep
microseconds, SQLite the text of the time it is given: sub-microsecond rounding
is abstracted. Within one process there is one clock; clocks of several
processes differ in `Issuers` only. The example front ends (`examples/`) are
clients and not part of the server.
