# KnuffelGame: verification of the backend

TLA+ models of the implemented part of the KnuffelGame backend, their TLC runs
and their TLAPS proofs. All paths below are relative to the repository; `H/`
stands for `src/backend/services/LobbyService/internal/handlers/`, `LS/` for
`src/backend/services/LobbyService/`, `AS/` for
`src/backend/services/AuthService/` and `libs/` for `src/backend/libs/`.

## 1. The system

| part | state | operations | modelled |
| --- | --- | --- | --- |
| LobbyService handlers (`H/*.go`, `LS/internal/router.go`) | one goroutine per request; its local variables, its open transaction | `POST /lobbies`, `POST /lobbies/join`, `POST /lobbies/{id}/kick`, `GET /lobbies/{id}`, `PUT /internal/lobbies/{id}/players/{id}/active` | `LobbyService` |
| Join codes (`LS/internal/joincode/generator.go`) | none; reads `lobbies` outside the caller's transaction | `GenerateJoinCode`, up to `MaxRetries` draws | `LobbyService` |
| Repository (`LS/internal/repository/postgres.go`) and schema (`00001_create_schema.sql`) | tables `users`, `lobbies`, `players`; open transactions | the statements the handlers issue, commit, rollback | `Repository`; the column `username` in `Usernames` |
| Database connections (`LS/internal/db/connection.go`, `database/sql`) | idle and used connections, PostgreSQL's limit | a connection per transaction, one more per query outside it | `ConnectionPool` |
| Start of LobbyService (`LS/cmd/LobbyService/main.go`, `LS/internal/db/migrations.go`) | schema, recorded versions, the transaction of a migration | connect, migrate, listen; crash and restart | `Startup` |
| AuthService (`AS/internal/jwt`, `AS/internal/handlers`, `AS/internal/models`) | a secret, a clock, the tokens clients hold | `POST /internal/create`, `POST /internal/validate`, restart | `AuthTokens` |
| Auth middleware (`libs/auth`) | none | accepts a request with `X-User-ID` and `X-Username`, or answers 400 | as valid and malformed requests of `LobbyService`; its name in `Usernames` |
| Logger (`libs/logger`) | a writer shared by handlers with a mutex each; attributes and groups of each; a package global | `Handle`, `WithAttrs`, `WithGroup`, `New`, `Default`, the chi middleware | `LoggerHandler`, `LogAttributes`, `DefaultLogger` |
| httpx (`libs/httpx`) | a response's header and body | `WriteJSON`, `WriteNoContent` | `HttpAnswers` |
| healthcheck | none | a constant answer | no |
| APIGateway, GameService, SSEService | – | interface descriptions without code | no |
| Frontend, docker-compose | – | project template, deployment | no |

A client's request passes the auth middleware (except the internal route), on
two routes an authorizer (`H/authorizers.go`), then its handler. All shared
state is in PostgreSQL: goroutines interact only through committed rows, row
locks, unique indexes, the connection pool and the log's writer.
`BeginTx(ctx, nil)` asks for no isolation level, so transactions run under READ
COMMITTED and each statement sees the database of its own moment. That is where
the hard behaviours come from:

* **check, then act in two statements** – capacity and membership of a join,
  the leader and membership of a kick, the free join code of a create;
* **authorization by older reads** – middleware, then handler, the second
  through the pool and not through the transaction;
* **waits** – an insert of a user or a join code waits for an uncommitted one
  of another transaction, a DELETE or UPDATE for row locks; a statement outside
  the transaction needs a second connection while the first is held;
* **failures** – of a statement, of a commit, of the commit's acknowledgement,
  of the process, between any two steps, followed by the client's retry; of a
  start half way through the migrations;
* **two clocks** – tokens carry whole seconds and are judged by a finer clock,
  by a process that may have another secret than the one that made them;
* **shared memory** – log handlers derived per request share a writer, slices
  of derived loggers may share an array, the default logger is a global that
  several goroutines assign.

What should be true of each part: tables stay consistent (codes unique,
references satisfied, each lobby led by one of its players); capacity and single
membership; only the leader removes players; only members read; an answer of
success means the effect is durable; nobody waits for ever; no connection is
lost; nobody serves on half a schema; under a proper secret a valid token was issued
here, for this identity, less than its lifetime ago; log lines are whole and say what they
were given.

## 2. Modules

| module | contents |
| --- | --- |
| `Repository` | tables, uncommitted writes `tx[p]`, one operator per function of `postgres.go`, commit and rollback |
| `LobbyService` | EXTENDS `Repository`; `pc`, `req`, `loc`, `resp` of each worker; one action per database statement of each handler; faults; fairness |
| `LobbyProperties` | safety, action and liveness properties |
| `LobbyInvariant` | the inductive invariants `TypeInv`, `LeaderInv` and `SafetyInv` |
| `LobbyMembership` | the abstract specification: lobbies and seats, one step per successful request; a stricter one for requests that do not overlap |
| `LobbyRefinement` | the refinement mapping (seats and lobbies are the committed rows) and its invariant `MembershipInv` |
| `ConnectionPool` | the connections each kind of request takes, in order, against a limit |
| `Startup` | processes that connect, migrate and listen; PostgreSQL stops and starts |
| `Usernames` | the name stored for a user, and the names answers show |
| `AuthTokens` | issue, judgement and expiry of tokens, tokens of others, restarts with another secret |
| `LoggerHandler` | who writes which piece of a log line, under which mutex |
| `LogAttributes` | derivation of loggers over shared arrays, rendering of attributes |
| `DefaultLogger` | the package global, its `sync.Once`, and the assignments around it |
| `HttpAnswers` | the order of status, body and log line |
| `MCLobby`, `MCScenarios`, `MCLobbyCase` | instances of the lobby for TLC: symmetry; several sets of bounds in one run; join codes in two spellings |
| `Services` | `ConnectionPool`, `Startup`, `Usernames` and `AuthTokens` together, each over variables of its own |
| `Libraries` | the instances of `LoggerHandler`, `LogAttributes`, `DefaultLogger` and `HttpAnswers`, likewise |
| `MCServices`, `MCLibraries` | `Services` and `Libraries` for TLC, one part at a time |
| `LobbyTypeProofs`, `LobbyLeaderProofs`, `LobbySafetyProofs`, `MembershipProofs`, `LobbyBoundsProofs` | theorems about LobbyService; each EXTENDS the one before |
| `PoolProofs`, `ServicesProofs`, `LibrariesProofs` | theorems about `ConnectionPool`, about the rest of `Services`, and about `Libraries` |

### Correspondence: LobbyService

A *worker* is a goroutine serving a request. `pc[p]` names the statement it
executes next. Action `JoinCount`, for instance, is `GetLobbyPlayerCountTx`
and everything up to `IsMemberTx`: the comparison with `maxPlayers`, the answer
409, the deferred `Rollback`. An early return is `Refuse(p, status)`, which
rolls back. `tx[p]` holds what the worker's transaction has written and not yet
committed: `users` and `lobbies` inserted, player rows `added` and `removed` (an
update is both). `removed` doubles as the row locks held.

* Reads range over committed tables. No handler reads its own uncommitted write.
* An insert with ON CONFLICT DO NOTHING, or into a unique index, is enabled only
  when no other transaction has the same key pending: that is PostgreSQL's wait.
* A DELETE or UPDATE is two steps (`KickScan`, `KickDelete`; `UpdateScan`,
  `UpdateWrite`): the rows its snapshot matches, then, when the locks are free,
  the effect on those rows that still exist. Rows inserted in between are missed,
  as under READ COMMITTED.
* `JoinDetail` runs after the commit, in a snapshot of its own, and may fail: the
  client then reads 500 for a join that has happened.
* `CommitUnacknowledged` is a commit whose answer is lost; `DBFailure` any other
  failing statement; `Crash` ends the process, and PostgreSQL aborts its
  transactions and frees their locks at once.
* Requests are drawn from all valid combinations. Ids of new rows are fresh
  (`gen_random_uuid()`). A `player_id` of the internal endpoint is any UUID: that of
  a row or that of a user.

### Correspondence: the other parts

* `ConnectionPool`: `plan[w]` is what the handler of request `w` still does with
  connections: `begin` and `commit` of its transaction, `tx` for a statement on
  it, `pool` for a query through `*sql.DB`, which takes a connection and gives it
  back when its rows are closed. The plans are read off the handlers; a create
  has one `pool` per draw of a join code. `SetMaxOpenConns` is never called, so
  `database/sql` opens a connection whenever none is idle and PostgreSQL refuses
  those beyond its limit: the request then fails and its deferred `Rollback`
  runs. It keeps at most `MaxIdle` unused ones. `limit` is what PostgreSQL of
  this behaviour allows, one of `Limits`.
* `Startup`: a process reads the recorded versions and applies what is pending,
  each migration in a transaction that also records it, under no lock (goose as
  it is called here). Any error ends the process (`os.Exit(1)`). A second
  process may find the same migration under way, waits, and fails with a
  duplicate key when the other commits. One that is pending although another
  process has recorded it meanwhile is applied again: its statements are
  `CREATE ... IF NOT EXISTS`.
* `Usernames`: `inserted[w]` is the name in the open transaction's row, `shown[w]`
  the one in the answer: the header's for a create, the table's for a join.
* `AuthTokens`: a token is judged in the order of `validator.go`: form,
  signature, expiry, issuer, claims. The secret is a key like any other: one that
  is not configured is the empty key, and the validator verifies with it, and with
  a short one, while the generator refuses both. Besides the tokens that were
  issued, `ForeignTokens` are presented, which others made, as the tests do by
  hand: with any key, algorithm, issuer, claims and expiry, or of no form at all.
  One limit is assumed (`ForeignAssumption`): a secret of accepted length is known
  to the service alone, so that no whole token of somebody else is signed with
  one. Time is counted in half seconds, as the code's clock is finer than the
  seconds of a token's dates.
* `LoggerHandler`: `mutex[h]` per handler, one per goroutine for those a request
  derives, and `Shared` ones. A `Write` hands over two pieces, which stand for
  any number; it excludes others only where the writer does so itself
  (`WriterLocks`: `os.File` does, a buffer does not).
* `LogAttributes`: a Go slice is a length and an array that other slices may
  share; `append` writes in place while the array has room. Rendering maps the
  path of each JSON value to the value, and replaces what stands in the way.
* `DefaultLogger`: `New` and each statement inside `defaultOnce.Do` are steps.
* `HttpAnswers`: `WriteHeader`, the encoding of the body, which may fail after
  the status has left, and the line of `ChiMiddleware`; a handler may panic.

### Abstractions

Usernames, timestamps (`joined_at`, `left_at`), messages and logging are left
out. A malformed request is one step to 400, before any statement. (The internal
route and the bodies of kick and join are validated after the authorizer has
read the database; those reads change nothing.) Row locks of one statement are
taken at once, when all are free: a statement that matches several rows could
in PostgreSQL hold some while it waits for others. The foreign keys are not
guards of the inserts; `ReferentialIntegrity` shows that they would never
refuse one. A lobby's status is set to `waiting` and no implemented code changes
it: the answer 409 of a join to a running lobby is modelled and not reached.

## 3. Runs

| run | instance | shows |
| --- | --- | --- |
| `lobby_races` | 2 workers, 4 rows, capacity 2; 3 users of 1 lobby, or 2 users of 2 lobbies | `LeaderIsMember`, `CapacityBound`, `DuplicateBound`, `GetOnlyForMembers` under create, join, kick, get; `OnlyLeaderRemoves`: no kick reaches a row of another lobby or user, or the leader's; `StatementsBounded`: every step brings its request nearer to the answer; `TypeOK` |
| `lobby_create` | 3 workers, 2 users, 3 lobbies, 2 codes, 2 attempts | `UniqueJoinCodes`, `ReferentialIntegrity`, `CreatedCodeWorks`, `NoLockCycle` |
| `lobby_serial` | 1 worker, 3 users, 2 lobbies, malformed requests too | `LobbyNeverOverfull` and `NoDuplicateMember` hold exactly without concurrency, also across lost acknowledgements, crashes and retries; `SerialMembershipImplemented`: every step is one of the stricter abstract specification |
| `lobby_active` | 2 workers, users `{a, b}`, rows `{b, r}`; 1 lobby with joins and updates, or 2 lobbies, 1 code and 2 attempts | `KickedRowsAreGone` when updates rewrite the rows a kick has matched; `MembershipImplemented`, the refinement with all four writing endpoints, and its invariant `MembershipInv`; `EveryRequestAnswered`, through row locks, waits for join codes and exhausted attempts |
| `services` | below | `NoneLost`, `RequestsAnswered`, `EnoughForAll` (pool); `ServesMigrated`, `EveryStartEnds`, `SomeoneListens` (start); `DetailsAgree`, `NameStays` (usernames); `ValidOnlyIfFresh`, `IssuedTokensJudgedByAge`, `TokensTypeOK` (tokens) |
| `libraries` | below | `LinesUnbroken`, `HandlersExclude`, `CallsReturn` (locking); `DerivationsIndependent`, `NothingLost` (attributes); `DefaultIsLatest`, `FallbackShared` (default logger); `LoggedAsSent` (httpx) |

Six runs end in a counterexample, each to a statement of the repository:

| run | statement | behaviour |
| --- | --- | --- |
| `overfull` | `LS/openapi.yaml`: "Lobby must not be full (< 6 players)", `maxItems: 6` | two joins count the same players, both insert (`H/join_lobby.go:97`) |
| `duplicate` | the same: "User must not already be in lobby" | two joins of one user both find no row; `players` has no `UNIQUE (lobby_id, user_id)` |
| `row_id` | the same, player id: "Player record identifier" | `H/update_player_active_status.go:86` compares it with `user_id`, the UPDATE with `id`: an existing row gives 404 |
| `letter_case` | the same: "6-character join code (case insensitive)" | the comparison is exact; a lower-case code gives 404 |
| `weak_secret` | `AS/README.md:98`: "if missing or <32 chars, service logs warnings and token operations fail" | creating a token fails, validating does not: `validator.go:44-48` verifies with whatever secret there is |
| `failed_encoding` | `libs/httpx/httpx.go:24`: "If encoding fails it logs and sends a generic 500 error JSON" | the status has been sent by then (`:27`) |

The parts of `services` and of `libraries` share no state with one another, so
one run checks them side by side: a behaviour is of one part, chosen at the
start, and the others stand still. No interleaving is lost, and the number of
states is the sum, not the product. Two parts occur more than once: the locking
with derived handlers over an `os.File`, and with one handler over a writer that
locks nothing; the default logger with and without a `New` by `main`.

### Bounds of the lobby runs

Two runs hold two scenarios each (`MCScenarios`), sets of bounds of which every
state fits one: the `CONSTRAINT InScenario`. Only a request that comes in, or the
id drawn for a lobby, leads out of the scenarios. A request under way always has
a next step within, so the constraint excludes no fair continuation of a state it
keeps, and liveness in `lobby_active` is checked of behaviours of `FairSpec`.

The bounds are the sets of the `.cfg` files and the constants `MaxPlayers` (2 or
3 for the code's 6) and `MaxRetries` (1 or 2 for the code's 5). A bound of the
exploration alone, `WithinBounds`, lets a request start only when an id is left
for each request under way. Two workers suffice for each race of a check
with an insert, a kick with a kick, a kick with an update; three are used for
lock waits, where a cycle could be longer. Capacity 2 is reached and exceeded
with three users. One worker in `lobby_serial` is the point of that run. Two
codes for three creations make codes collide before and after the check, one
code for two makes the attempts run out.

The update endpoint compares one UUID with `user_id` and with `id`, so it
succeeds only when a user's UUID is also a row's: `lobby_active` has one such
UUID, `b`, since LobbyService accepts any UUID as `X-User-ID`. In every other
instance the two kinds of id are disjoint.

Workers, users and rows are interchangeable (`Symmetry`) in the safety runs in
which no set contains another. The runs with liveness use no symmetry. Deadlock
checking is on; as a crash is always possible it says little, and what excludes
a standstill is `NoLockCycle` and `EveryRequestAnswered`.

### Bounds of the other runs

* Pool: two requests and limits of 2 and 4. With 2 every request may hold one
  connection and ask for a second; 4 is two for each, which `EnoughForAll` says
  suffice. `MaxRetries` 2 makes a create ask
  twice; `MaxIdle` 2 is the default of `database/sql`.
* Start: two processes, two migrations (the repository has one; with two a start
  can fail between them), two failures: one during a start, one during its
  repetition. `SomeoneListens` says after each number of failures what happens if
  no other follows. Migrations are numbered from 1.
* Usernames: two workers, users and names.
* Tokens: a lifetime of 4 ticks (two seconds for the code's 24 hours), issued at
  even and odd ticks, and a clock that runs to 5, beyond the expiry. One issued
  token at a time, of one user: a validation looks at one token only. Four
  secrets: none, one of 19 characters and two of accepted length, and a key that
  is no secret of the service. Names just long enough and one character short.
  Tokens of others are whole ones, expired or not, under each key but the accepted
  secrets, and under two of the secrets such as lack one thing.
* Locking: three goroutines, one shared handler and a derived one each.
* Attributes: four handlers (a logger, a derivation with room left in its array
  and two siblings derived from that), `append` leaving room for one element.
* Default logger: `main` and three callers. Answers: three goroutines, a status
  of each kind the handlers send.

`CHECK_DEADLOCK FALSE` in these two runs because some parts end: attributes at
`MaxHandlers`, the default logger when each goroutine has made its call. What
excludes a standstill of the others is `RequestsAnswered`, `EveryStartEnds`
and `CallsReturn`.

### Fairness

`FairSpec` of LobbyService assumes for each worker weak fairness of its handler
and of the delivery of its answer (the Go scheduler runs every runnable
goroutine) and strong fairness of the statements that wait for a lock
(PostgreSQL queues waiters, so a lock that is released again and again is not
withheld for ever). Failures, crashes and new requests are never assumed. The
loop of `GenerateJoinCode` needs no luck: it ends after `MaxRetries` draws.

The pool assumes weak fairness of each handler's next step (it never waits: a
connection is idle, opened or refused). The logger assumes weak fairness of each
goroutine inside `Handle`, and strong fairness of taking a mutex and of entering
`Write` (a Go mutex is handed over in starvation mode, and the lock inside
`os.File` queues).

The start assumes weak fairness of the steps of a process that runs, nothing of
its environment: `main` exits on the first error, `docker-compose.yaml` states no
restart policy, so that neither a process nor PostgreSQL need ever be started
again. Under that, `EveryStartEnds` and `SomeoneListens` say what a start does,
not that there is one; that the service comes up at all is nobody's promise (the
hazard at `LS/cmd/LobbyService/main.go:36`).

## 4. Proofs

Proved for every value of the constants that satisfies the modules' named
assumptions and what a theorem assumes itself. The assumptions are
`MaxPlayersAssumption`, `MaxRetriesAssumption`, `SpellingsAssumption` and
`OpsAssumption` for LobbyService; `WorkersAssumption`, `LimitsAssumption`,
`MaxIdleAssumption` and `MaxRetriesAssumption` for the pool; `LifetimeAssumption`,
`IdentityAssumption`, `LengthAssumption`, `SecretsAssumption` and
`ForeignAssumption` for the tokens (times and lengths are natural numbers, the
value for "nobody" is neither a user nor a name, secrets are keys, and nobody else
signs whole tokens with a secret of accepted length);
`MigrationsAssumption` (there are a natural number of them) and
`HeadersAssumption` (the value for "no name" is not a name) for the rest of
`Services`; `ConfigurationAssumption` and `HandlersAssumption` for the locking;
`MainAssumption` (`main` is none of the goroutines started later),
`StatusesAssumption` (the value for "no status" is not a status) and
`SpareAssumption` (an array has a natural number of free places) for the rest of
`Libraries`. TLC evaluates each of them on the instances of the runs.

### LobbyService

* `TypesHold`: `Spec => []TypeOK`. `TypeOK` alone is not inductive: a handler
  uses fields of its request and locals assigned by earlier statements. `TypeInv`
  adds that each statement runs on a request of its own kind (`Dispatched`)
  with its locals assigned (`Assigned`).
* `LeaderInvariant`: `Spec => []LeaderInv`, and from it
  `LeaderStays`: `Spec => []LeaderIsMember`. A committed lobby always has a row
  for its leader because (`PendingLobby`) a lobby and its leader's row are
  committed together, (`PendingRemoval`) a row leaves the table only when a kick
  matched it or an update puts a new version in its place, (`KickMatched`) the
  rows a kick has matched belong to its target, (`KickAuthorized`) the caller of
  a kick past the leader check leads the lobby and is not the target, and
  (`RowIdentity`, `LobbyIdentity`) an id never changes its meaning, whatever
  commits between the read and its use. The authorization is an old read; it
  stays true because no handler changes a lobby's leader.

* `OnlyLeadersRemove`: `Spec => OnlyLeaderRemoves`, an action property, from
  `LeaderInv`: a row disappears only by a commit, and by `PendingRemoval`,
  `KickMatched` and `KickAuthorized` that commit belongs to a kick by the leader.
* `SafetyInvariant`: `Spec => []SafetyInv`. It adds what the handlers rely on at
  each statement: the requesting user and the new lobby are in the transaction
  once inserted (`UserInserted`, `LobbyInserted`), the lobby a join found stays
  (`LobbyFound`), pending rows refer to rows that are there
  (`PendingReferences`), a user row is locked only between its insert and the
  end (`PendingUser`), codes are unique even among uncommitted lobbies
  (`UniqueKnownCodes`), a response is written last (`Unanswered`) and 201 only
  after the commit (`CreatedCommitted`). From it follow
  * `ReferencesHold` (`ReferentialIntegrity`), `CodesAreUnique`
    (`UniqueJoinCodes`), `CreatedCodesWork` (`CreatedCodeWorks`) and
    `OnlyMembersRead` (`GetOnlyForMembers`);
  * `NoDeadlock` (`NoLockCycle`): a worker that holds a join code or player rows
    is at a statement that waits for nobody, one that holds a user waits at
    most for a join code, so that no set of workers waits in a circle.


The refinement (`MembershipProofs`):

* `MembershipInvariant`: `Spec => []MembershipInv`. `MembershipInv` adds to
  `SafetyInv` that what a transaction holds at each statement is one change of
  the abstract specification (`OneChange`), that a row it is about to remove is
  still there and no other transaction's (`RowsLocked`), and that ids of seats
  and lobbies, committed or about to be, stay unique.
* `ImplementsMembership`: `Spec => MembershipImplemented`. A commit is the one
  promised step, for it is still possible then: the row locks kept the rows, no
  other lobby has the code, the leader of a lobby does not change. Every other
  step leaves the committed lobbies and players alone.
* `KicksTakeEffect`: `Spec => KickedRowsAreGone`, an action property. Between the
  matching of the rows and the commit, no update puts a new version of a matched
  row beside it (`MatchedRowsGo`).

The bounds (`LobbyBoundsProofs`), by counting the rows of a lobby, or of a user
in it, together with the requests that are past the check and may still insert:

* `DuplicatesBounded`, for finitely many workers: `[]DuplicateBound`.
* `CapacityBounded`, for finitely many workers and where `IdsApart`: nobody calls
  the update endpoint, or no UUID is both a user's and a row's, as it is with
  those of `gen_random_uuid()`. The assumption is needed: a row marked inactive is
  not counted, its place is given away, and it can be marked active again. With
  it no row is ever marked: what the handler has found to be a user's id is not
  a row's. `UpdatesNeverCommit` states that by itself; it is what the run
  `row_id` shows on an instance.
* `NoDuplicateServedAlone`, `NeverOverfullServedAlone`,
  `ImplementsMembershipServedAlone`: with one worker both bounds are exact (the
  second again where `IdsApart`), and the stricter specification is
  implemented, since what a check has read is true until the commit.
* `HandlersMoveOn`: `Spec => StatementsBounded`, an action property. `StepsLeft`
  counts what a handler may still do, attempts of `GenerateJoinCode` included;
  each step of a worker lessens its own count and touches nothing of another's.
  Together with `NoDeadlock` this is the part of `EveryRequestAnswered` that needs
  no fairness.

### The other parts

* Pool (`PoolProofs`), for finitely many requests and any limit. `NoConnectionLost`
  (`NoneLost`): the open connections are the idle ones and those of running
  requests, by an invariant that ties each plan to what its request holds.
  `TwoPerRequestSuffice` (`EnoughForAll`): under a limit of twice the number of
  requests none is refused.
* Tokens (`ServicesProofs`), for any lifetime, secrets, users, names and tokens of
  others. `ValidMeansFresh` (`ValidOnlyIfFresh`) speaks of the moments at which the
  secret in use is of accepted length; before and after, the service may have run
  under a short or missing one. Under such a secret it is false, as the run
  `weak_secret` shows. `AgeDecides` (`IssuedTokensJudgedByAge`) needs no such
  condition, nor does `TokenTypesHold` (`TokensTypeOK`). They rest on the invariant
  that issued tokens are `CreateToken`'s (`Genuine`) and an answer is the verdict of
  now (`Judged`), on `ForeignAssumption` (`ForeignRefused`), and on the arithmetic of
  the cut-off fraction (`ExpiryCut`).
* Start, for any number of processes and migrations. `ServedOnFullSchema`
  (`ServesMigrated`), from `StartInv`: a recorded version has taken effect
  (`SchemaTypes`), and whatever a process does not have pending has taken effect
  too, whichever process applied it (`Applied`). That rests on version and
  statements being committed by one transaction, which the mutant `RecordOnly`
  takes apart.
* Usernames. `DetailsShowOneName` (`DetailsAgree`) and the action property
  `FirstNameStays` (`NameStays`), from `NameInv`: a transaction holds a name only
  for a user who has none, and no two hold one for the same user.
* Locking (`LibrariesProofs`), for any number of goroutines and handlers.
  `MutexesExclude` (`HandlersExclude`), and `LinesStayWhole` (`LinesUnbroken`) where
  the writer excludes other writes or all goroutines share one handler.
* Default logger. `ConfiguredStays` (`DefaultIsLatest`): `main`'s `New` comes before
  anyone enters the `sync.Once`, so that its check finds the global set
  (`ConfiguredInv`). `FallbackIsShared` (`FallbackShared`): one goroutine is inside
  `Once` and nobody reads before it has left (`FallbackInv`).
* Answers. `LogTellsWhatWasSent` (`LoggedAsSent`), from `AnswerInv`: the wrapper saw
  a status exactly when it was sent, and no later one changes it.
* Attributes. `DerivedLoggersAreTheirOwn` (`DerivationsIndependent`), for
  derivations of any depth and any free room in the arrays of `append`. The inductive
  invariant `DerivedInv` is the property with the types of slices and arrays:
  because `WithAttrs` and `WithGroup` copy, arrays are only ever added.
  `AttributesReachTheLine` (`NothingLost`), for lists of attributes of any length:
  each `addAttr` keeps the values of other keys under the groups (`target` is a
  prefix of none of them), and the claim for the list follows for its least
  counterexample.

Each proof has lemmas on what a step does to each part of the state, a lemma per
conjunct of the invariant with one step per action, then `Init`, `Next` and the
temporal theorem.

A claim about a list (`NothingLost`) is proved by its least counterexample, with
`WFMin` and the order of the naturals: the library's induction rules take an
operator as a parameter, which the provers cannot instantiate.

### Model-checked only

Liveness: `EveryRequestAnswered`, `RequestsAnswered`, `EveryStartEnds`,
`SomeoneListens` and `CallsReturn`. Fairness and ENABLED are outside the proof system. Every invariant
and every action property that a passing run checks is a theorem, and so are both
refinements.

The six runs that end in a counterexample check what does not hold, so there is
nothing to prove; the theorems nearest to them say how far it fails
(`DuplicatesBounded`, `CapacityBounded`, `ValidMeansFresh`, `LogTellsWhatWasSent`)
or that it fails always (`UpdatesNeverCommit`).

## 5. Observations without a run

Statements of the repository that the code does not keep, or keeps by chance:

* `AS/openapi.yaml:104` says of `POST /internal/validate` that "both valid and
  invalid tokens return 200" and gives expired and badly signed ones as examples.
  The code answers these 401 (`validate_token.go:38`), as `AS/README.md:72` and the
  same file at `:150` say. `IssuedTokensJudgedByAge` therefore speaks of the reason
  in the answer and not of its status.
* `src/env.d/AuthService.env.example:1` sets a secret of 19 characters: creating a
  token fails.
* `AS/README.md:102` gives `change_me_32+chars_long_secret` as an example of a
  secret. It has 30 characters; `minSecretLen` is 32, so creating a token fails.
* `AS/internal/models/create_token.go:53`: "requires at least one non-space
  alphanumeric". The expression accepts a name of spaces alone.
* `libs/logger/handler.go:36`: "writes guarded by mutex to keep each line
  atomic". A derived handler has a mutex of its own; lines stay whole only
  because `os.Stderr`, the default writer, locks its writes. Over any other one,
  derived handlers can break each other's lines, which is why `LinesStayWhole`
  has its assumption.
* `libs/logger/README.md:86`: "Calling `logger.New()` also sets / updates the
  package global returned by `logger.Default()`". A concurrent first call of
  `Default` may overwrite what `New` has set. `main` calls `FromEnv`, and so `New`,
  before it starts goroutines, so the services are not affected (`DefaultIsLatest`).
* `LS/internal/repository/postgres.go:242` counts active players only. A player
  marked inactive, replaced and marked active again would exceed the capacity.
  While the update endpoint compares ids as it does, it cannot mark ordinary
  players at all (`UpdatesNeverCommit`).

## 6. Not modelled

* The healthcheck's constant answer, `httpx.DecodeJSON` and
  `GetMigrationStatus`, which nothing calls.
* Log levels, colours, formatting of values, request ids, client addresses; the
  wording of messages; timestamps (`joined_at`, `left_at`); limits on the size of
  bodies; defaults of the configuration; header parsing of the auth middleware
  beyond accept and refuse.
* APIGateway, GameService and SSEService have no code here, the frontend is the
  template it was created from, and docker-compose is deployment.

## 7. Possible extensions

A variant like `StatementsBounded` for the connection pool and the logger; a second
version of the membership specification with transactional checks, to which a
repair of `overfull` and `duplicate` could be compared.
