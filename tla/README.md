# A TLA+ model of the Credit Analytics API

The repository is a FastAPI service over MySQL 8: clients upload monthly plans as
Excel files and read reports that compare plans with credits and payments. The
modules here model the parts of it that hold state or run concurrently, TLC
checks them on small instances, and TLAPS proves what matters most for every
instance.

Paths below are relative to the repository's root. `PROJECT.json` maps every
definition to the lines it models, and lists runs, mutants, hazards and theorems.

## 1. Inventory

| Part | State | Operations | Interacts with | What is hard | What makes it correct |
|---|---|---|---|---|---|
| Plans upload: `api/v1/endpoints/plans.py`, `use_cases/insert_plans.py`, `repositories/plans.py`, `repositories/dictionary.py`, `db/unit_of_work.py` | tables `plans`, `dictionary`; per request a session: read view, pending rows, row locks | `POST /plans_insert`: parse, read the dictionary, look every row up, flush, commit, close, answer | parser (worker thread), database, other uploads, seeding | check and insert are separate steps; deadlocks; failure in the middle of a flush; crash; lost acknowledgement | no (period, category) twice; a sheet whole or not at all; answers say what happened; every upload ends |
| Excel parser: `infrastructure/excel/plans_parser.py` | none between calls; rows and issues of one file | `parse` | upload use case | header order, blank and narrow rows, edge values, two stages that count rows | every row kept, every bad cell reported once at its place |
| Start-up: `main.py`, `BootstrapAdminUseCase`, `seed/csv_loader.py`, `scripts/seed_from_csv.py` | all six tables | create the administrator, load the CSV files, then serve | other replicas, the script, uploads in progress, docker's restarts | check-then-insert races, crash in the middle, order of foreign keys, ids taken meanwhile | one administrator, seed data whole or not at all, a serving replica is ready, start-up ends |
| Reports: `use_cases/plans_performance.py`, `year_performance.py`, `get_user_credits.py`, `repositories/*` | read only | three `GET`s, each several SELECTs | database | several reads of one report, month boundaries, division | both reports agree with one reference and with each other |
| Request life cycle: `api/deps.py`, `db/session.py`, `db/unit_of_work.py`, the endpoints | connections of the engine's pool, threads of the executor, one session per request | body, credential, session, validation, work in a thread, first statement takes a connection, close gives it back, answer | every request, database | pool exhausted by waiters, connections held over a wait for a thread, dead connections after an outage, waiters nobody wakes | no connection is lost, requests end, a status is the one deserved |
| Authentication: `core/security.py`, `auth/authenticator.py`, `IssueAccessTokenUseCase` | table `auth_users`, the clock and the settings of each replica | issue and check JWTs, check the API key, deploy anew | every route | expiry, clocks of replicas, two modes, rolling changes of secrets | a token is honoured as long as told and hardly longer |
| Error mapping: `api/errors.py`, `domain/exceptions.py` | none | exception to status | every route | order of the map, exceptions outside it | domain errors are 4xx, anything else 500 |
| Schema: `migrations/`, `db/models.py`, `docker-compose.yml` | tables, indexes, constraints, the version stamped | `alembic upgrade head` before the API starts, `downgrade` | database, start of the API | DDL is committed statement by statement: crash, failure and races in between | the version claims only what is there; the API finds its tables |
| Schemas, DTOs, configuration, logging, sample data, build scripts | none | - | - | - | - |

Parts call each other within one process; replicas, scripts and requests meet in
the database only. Within a process, everything runs on one event loop, so the
awaits (and the worker threads of `asyncio.to_thread`, which share nothing) are
the only points where requests interleave.

The hazards of this code, at their lines and with the properties aimed at them,
are in `PROJECT.json` under `hazards`.

## 2. Plan

In order of importance. All modules are written, and every invariant a run checks
is stated by a theorem.

1. **PlanBook, PlansInsert**, `PlansInsertProofs`: the upload, the one operation that
   changes data under concurrency, against an atomic abstract specification.
2. **PlansExcelParser, PlansFile**, `PlansFileProofs`: one file, from cells to rows to
   insert; `PlansFile` extends the parser with the loop of the use case.
3. **Startup**, `StartupProofs`: replicas, scripts, uploads and restarts on one
   database.
4. **ReportDesk, Reports**, `ReportsProofs`: the SELECTs of each report as steps against
   concurrent commits, and the figures of all three against reference definitions.
5. **ErrorMapping, RequestPool**, `ErrorMappingProofs`, `RequestPoolProofs`: all requests
   of one replica against the pool, the executor and a database that comes and goes.
6. **TokenAuth**, `TokenAuthProofs`: tokens and keys across replicas.
7. **Migration**, `MigrationProofs`: alembic, statement by statement, and the start of
   the API.

Left to prove: that Reports implements ReportDesk (`KeepsTheDesk`). What is missing
is that each figure of `ReportsAreOfOneMoment` is the one of the desk's definition, from
which the step by step part follows by the same invariant.

## 3. Modules

### PlanBook
What a client of `POST /plans_insert` may count on, free of steps: a sheet is
handed in (`HandIn`), at one instant stored (`Store`, only if `Acceptable`) or
refused (`Refuse`), and later the client is told (`Tell`) or hears nothing
(`Vanish`). 201 is said of stored sheets only, 422 of refused ones only, 500
commits to nothing. A refusal needs no reason here: a server may fail. That a
*422* needs one is `RefusalJustified`.

### PlansInsert
One `pc` per upload walks through `InsertPlansUseCase.execute`:

| pc | code | actions |
|---|---|---|
| idle, parse | endpoint reads the body; `insert_plans.py:22` | `Receive`, `RejectFile`, `ParserFails`, `Parse` |
| begin | `:24` dictionary read, first statement of the session | `ReadDictionary` |
| check | `:31-65` loop, one look-up per row | `ReportRow`, `AcceptRow`, `RejectRows` |
| flush, blocked | `:70`, `plans.py:25-34`, one INSERT per row | `BeginFlush`, `Insert`, `WaitForLock`, `DuplicateKey`, `SumOutOfRange`, `LockWaitTimeout`, `DeadlockVictim` |
| commit | `:71` | `Commit`, `CommitUnacknowledged` |
| raise | `unit_of_work.py:38-50` | `Rollback` |
| respond | session closed, response sent | `Respond` |
| done, lost | answered; process died | - |

`ConnectionLost` may strike at any statement, `Crash` at any time and takes all
requests in flight with it (docker restarts the API). `SeedCategory` is a seeding
run that adds a dictionary name. The statements of the database are InnoDB's at
REPEATABLE READ, which is what MySQL 8 of `docker-compose.yml` runs by default:

- the first SELECT fixes the `view` of the transaction; look-ups read it,
- INSERTs are checked against committed rows, never against the view,
- an inserted row is locked until the transaction ends; an INSERT of the same
  key waits for it,
- when the holder rolls back, several waiters share a lock on the gap it left
  and deadlock on it, one of them being rolled back by the engine,
- an error of one statement keeps the transaction and its locks; a deadlock or
  a lost connection ends it.

A row is its (period, category) key; sums matter to no property but for being
out of range, which is a failure of its INSERT. Uploads carry an auxiliary `by`
into `plans`, so that one can say whose rows are stored.

### PlansExcelParser, PlansFile
The worksheet is a header and rows of cells; a cell is a class of values, chosen
so that each branch of the three cell parsers has one, and any cell may stand in
any column. `PlansFile` continues with the loop of the use case for one file alone,
where PlansInsert starts from parsed rows; here it matters that the parser counts
sheet rows and the loop counts parsed rows. The loop of both is that of
`insert_plans.py:31-65`. A cell's issue, if it has one, is `CellIssues`, and a row's
are those of its three cells in the order the parser looks at them (`RowIssues`).

### Startup
Each replica goes down -> bootstrap -> (hash -> flush) -> (seed -> flush) ->
serving; a script goes idle -> seed -> flush -> finished or failed. A row has a
table, an id, maybe a unique key, and the rows it refers to. The session inserts
its rows table by table in the order SQLAlchemy's unit of work derives from the
models (`FlushOrder`): classes in the order of their relationships, and by class
name where there is none. Failing, a replica goes down and is started again, a
script ends. A whole upload is one step (`Upload`): PlansInsert shows it takes
effect at one instant. `Seeding` is the set of replicas with `SEED_ON_STARTUP=true`
and the data directory `CsvRow`; another replica may be of an older deployment that
finds nothing left to load. `fault`, one of `Faults`, says what is wrong with the
rows of the files: an id that is no number fails every load (`ParseError`), a date
or a number that does not parse only while the row is not loaded, and an empty date
is refused by the column at the INSERT. The loader does not look for repeats within its
files, so a row may also clash with another of its own transaction (`Refused`).

`SeedAllOrNothing` speaks of the rows only a seeding run can store (`Seedable`): no
client uploads a plan of their key, and no other row has taken their id. The assumption
is that the tables at the start satisfy their constraints (`Sound`) and that the files
have the columns of the tables and no users of the API; the files may repeat ids and
keys and refer to nothing.

### ReportDesk and Reports
`ReportDesk` is what the three `GET`s promise: somebody asks (`Ask`), at one
instant the tables are looked at (`Look`), and the answer (`Tell`) is one of the
`Reports` of the tables as they were then, or a failure. Its operators
`PlansPerformance`, `YearPerformance` and `UserCredits` define the figures from
sets of rows, without the loops, dictionaries and running sums of the code;
`Nearest` defines rounding to hundredths of a percent by distance.

`Reports` has the use cases as they run. `view[r]` is the read view of the
transaction, made by its first SELECT (`OpenView`); later SELECTs read `Visible(r)`.

| Report | Actions | Code |
|---|---|---|
| plans_performance | `ListUpTo`, `ListNames`, `EvaluatePlan` per plan | `plans_performance.py:16-52`, `repositories/plans.py:36-43` |
| year_performance | `ListDictionary`, `ListForYear`, `CreditStats`, `PaymentStats` (and the merge of months) | `year_performance.py:16-87` |
| user_credits | `UserExists`, `ListByUser`, `ListTypes`, `ListByCredits` (and the sums) | `get_user_credits.py:14-74` |

`Record` commits the rows of an upload or of a seeding run; `ConnectionLost` fails
any SELECT; `Respond` closes the session and answers. `KeepsTheDesk` is the
refinement, with `seen <- view`. The 400 of a plan without a dictionary entry
is in `EvaluatePlan` and never taken: rows are never deleted, the plan
refers to one, and both are read from one view.

What is abstracted: days are numbers, months have `DaysInMonth` days and years
`MonthsInYear` months; sums are whole numbers; columns that are only copied are
left out. `list_by_user` orders credits by their day of issue alone: credits of one day
come in any order (`ByDate`), and the desk promises none. What a report computes with
is assumed typed (`TypedTables`): days and sums, in finite tables.

`ReportsAgree` says of two reports of the same tables what does hold between them. The
Excel parser takes plans of the first of a month only, but neither the schema nor the
loader of the CSV files asks for it (`csv_loader.py:129`), nor for amounts of at least
zero. plans_performance counts from the day a plan starts on, year_performance the
whole month, and it adds up all plans of a category in it. So the month of any plan is
in the report of the year; no less is done in it there, unless amounts are below zero;
as much, if the plan starts with the month and the month is over; the plan is the same,
if the category has none of another day of that month (`OneStart`); and the percentage
is the same if all of this is so. A CSV plan of the 15th has the two reports differ by
design of their queries, and the instance has one.

What MySQL is relied on for (`OpenView`, `Visible`) is its default isolation level,
which the code does not change.

### ErrorMapping and RequestPool
`ErrorMapping` has the class hierarchy of the exceptions a request can end with
(`Parent`, `Bases`) and how a status is found (`StatusFor`, `StatusOf`).
`RequestPool` extends it with the life of every request of one replica:

| pc | code | actions |
|---|---|---|
| idle | FastAPI reads the body of an upload or a token request, before it solves any dependency | `Receive` (and `Malformed`: 400) |
| auth, decode | `authenticator.py:26-30`, a dependency of the router, hence before the session and the parameters | `Authenticate` |
| enter, parse | parameters validated by FastAPI, `insert_plans.py:22` | `Enter` |
| decode, parse, verify | `asyncio.to_thread`: queued, then in one of `Threads` threads | `StartJob`, `FinishJob` |
| checkout, waiting, connecting | the pool of `session.py:19-22`, with the first statement | `TakeIdle`, `Unreachable`, `BeginCreate`, `Created`, `CreateFails`, `WaitForConnection`, `PoolTimeout` |
| query, insert, commit | the statements | `Query`, `SumOutOfRange`, `Insert`, `Duplicate`, `LockTimeout`, `Commit`, `Broken` |
| leave, respond | `unit_of_work.py:38-50`, `errors.py` | `Leave`, `Respond` |

The pool is SQLAlchemy's and external; what is modelled of it: idle connections
first in, first out; up to `pool_size + max_overflow` in all; a newcomer may take
what a waiter was woken for; a connect counts while it is under way and is
uncounted without a word to the waiters when it fails; `pool_timeout` has a waiter
look at the cap once more; `pool_pre_ping` replaces a dead connection on its way
out. A connection is the epoch of the database it was made in, and is dead in any
other. Where PlansInsert has every row of a sheet and every failure of the flush,
here an upload is one row, the same for all, and what counts is what it holds
while it waits. What may be asked is `Asking`: a token request always has a login and a
password, or is invalid; files come with uploads and users with reports. Four inputs are
there for what the code does not expect: a body FastAPI cannot read; a sum of NaN, which
stands for any file on which the parser raises what is no domain error; a sum the column
cannot hold, Infinity included; a password with a NUL, which bcrypt refuses for a login
there is. Credentials are those of mode jwt: an API key is compared at once, without a
thread. The exceptions of a lock wait, of a lost connection and of Infinity are of one
class (OperationalError), as they are for the handlers.

An endpoint's end is not always what is answered. The session is rolled back or closed
before the answer is sent, and on a connection that died since its last statement that
raises an OperationalError of its own (`LeftWith`); after a failed flush or a statement
that found the connection lost there is nothing left to roll back.

### TokenAuth
A log-in or a check reads everything it needs in one thread, except the row of the
user, which no code changes: each is one action (`LogIn`, `Call`). `Deploy` starts a
replica with new settings (secret, mode, key, bootstrap password), which it keeps
until the next; requests in flight there end with the old process. `Tick` is time,
`Clock(r)` that of a host: constant skews, no jumps. A token is its claims: `exp` in
whole seconds, the secret it is signed with; `told` is the expiry the client was
given, with its fraction.

### Migration
`Created` lists what `upgrade()` creates in its order; `Downgrade` is the same
reversed, as `downgrade()` has it. A run reads the version (`Read`), carries one
statement at a time out (`Execute`) or is refused (`Fail`), and stamps the version
last; a run that fails or dies (`Crash`) leaves what it did. `Start` is the API of a
deployment, after its run completed; `Retry` is an operator who brings a failed
deployment up again. Of MySQL it is relied on that DDL commits by itself, that
tables are referred to before they exist or after they are gone never, and that
an index a foreign key needs is not dropped.

### MC modules
`MCPlansInsert`, `MCPlansFile`, `MCStartup`, `MCReports`, `MCRequestPool` and
`MCTokenAuth` define the small instances; the cfg files choose among them.
`Migration` needs none.

## 4. Runs

| Run | Instance | States | Shows |
|---|---|---|---|
| plans_insert_safety | 3 uploads, 2 periods, 2 categories (1 unknown until seeded), 1 stored plan, 4 sheets | 1.1 M | no duplicate, no partial sheet, answers and refusals true, under all failures |
| plans_insert_book | 3 uploads: a shared row, two in opposite orders, a stored row | 225 k | implements PlanBook; `IInv` holds; every upload is answered, through deadlocks of both kinds |
| plans_insert_race | 2 uploads | - | *violated*: the loser of a race is told 500, not 422 |
| plans_file | all files of up to 3 rows of 13 kinds; 4 odd headers; unusable files | 14 k | rejected, reported and inserted exactly as the cells demand |
| plans_file_rows | same | - | *violated*: rows below a blank row are misnumbered |
| plans_file_nan | same | - | *violated*: NaN loses the issues collected |
| startup | a replica that seeds, one that does not, a script, 2 crashes; uploads of 2 keys, one taking the id of a row of the files; three kinds of faulty files | 71 k | one administrator, no id or key twice, seed whole or not at all, no replica serves unready; each serves in the end unless a row of its files is hopeless |
| startup_skipped | same, files without faults, 1 crash | - | *violated*: a CSV plan is skipped because its id is taken |
| reports | 2 requests of 10 queries, 2 commits, two credits of one user and day, a plan of the second day of a month that has another, months of 2 days, years of 2 months | 357 k | every report exact and of one moment; reports of one moment agree |
| request_pool | 3 requests in 6 mixtures, pool 1 + 1, 1 thread, 1 outage | 121 k | connections accounted, strangers cost nothing and are told 401 (400 of an unreadable body), statuses deserved, everybody answered |
| token_auth | 2 hosts up to 1.5 s apart, tokens of 2 s, 3 settings, 3 deployments, 2 clients | 0.3 M | honoured while told, bounded in true time, only for whom it was issued |
| migration | 3 deployments race, 1 downgrade, 1 crash | 16 k | head means whole; no API starts without its tables; upgrades fail for a reason; all come up |

**Why the bounds are enough.** Two uploads make every race over one key, two rows
make every partial flush and a two-way deadlock, a third upload makes waiters
that share a gap and a lock handed on; the theorems lift the bounds. Uploads are
symmetric in the safety run (never in a run with a temporal property); in
plans_insert_book each has its own sheets, chosen so that each kind of deadlock
occurs. In a file,
issues depend on a row and the keys above it, so three rows hold a duplicate with
a row in between and a blank row above a fault. In Startup the third process makes
a waiter that finds the first's work undone and another waiter beside it; two
crashes can hit the same or different replicas. A loaded row spoilt since must harm
nobody, a plan with a bad cell stops seeding until an upload takes its id, and a
user without a date stops it for good. In Reports, two commits fall
between any two of a report's SELECTs, and rows lie on the first and last day of
a month and of a year; sums of 1 and 3 out of 32 are exact ties of rounding; plans of
0, months without plans and a year without plans occur. Two requests suffice for
reports that never read each other's state: they are there to be compared
(`ReportsAgree`).
In RequestPool, one connection with one
of overflow fills the pool's idle queue, closes one and has a third wait; one
thread makes every wait for it; an outage before, during and after a connect leaves
dead connections in use and in the pool, and waiters behind. In one
of the mixtures a token, a token refused with a connection in its hands and an upload
compete for everything, in two others two uploads for a row, one of them with a sum out
of range or both without; the others have, beside requests that take resources, every
other way an endpoint can fail. In TokenAuth, two
ticks to a second make every fraction matter, and skews of half a second and of
one and a half lie on both sides of a second. In Migration, three deployments are a
winner and two losers that retry at different moments, and one crash or one
downgrade is all a deployment can be excused by.

**Deadlock** is checked everywhere. Systems that may stop do so in an explicit
`Rest` step, whose guard says when stopping is right: every upload answered or lost
(PlansInsert), the file decided (PlansFile), every process serving or ended
(Startup), every report or request answered (Reports, RequestPool), every API up and
every downgrade ended (Migration). In TokenAuth clients may always call.

**Mutants.** Each property of a passing run has a mutated definition, beside the
original and marked `mutant`, that breaks it: a dropped check, a missing rollback,
reads of uncommitted rows, a commit per row, a wrong flush order, and the like.

**Fairness.** PlansInsert: weak fairness of each upload's own steps
(`ServerStep`), because the event loop runs every task that is ready and the
database answers; a blocked INSERT goes on once nothing blocks it. Weak fairness
of `\E u : DeadlockVictim(u)`, because InnoDB looks for cycles as waits arise, but
promises no particular victim. None for clients, time-outs, failures and
crashes: none is needed for an upload to be answered. Startup: weak fairness of
each process's steps, `Boot` included, which is docker's restart policy; a finite
number of crashes, since nothing serves in the end under crashes for ever.
RequestPool: weak fairness of each request's own steps, which are the event loop,
the executor and the pool. Nothing obliges the database to come back, and no
time-out to strike: `AnsweredOrLeftBehind` says that only waiters behind a connect
that failed in an outage need one. `EveryRequestAnswered` assumes, in its own
statement, that `PoolTimeout` strikes who waits long enough, which SQLAlchemy does
by a timer. Migration: weak fairness of a deployment's reads, statements and
retries, which is an operator who does not give up; `EventuallyUp` excuses a run
that died, because the tables it left stop every later upgrade until they are
removed by hand.

## 5. Proofs

`PlansInsertProofs` holds theorems for any set of uploads (finite or not), any
periods, categories and sheets. The assumptions are those of `PlansInsertAssumption`:
the seeder is no upload, sheets are sequences of keys, plans present at
the start have known categories.

- `Invariance`: `Spec => []IInv`. The safety properties are not inductive: that a
  commit cannot duplicate a key rests on locks (`LockInv`: no key is inserted by two
  open transactions, or inserted and stored); that a commit is the whole sheet rests
  on what the flush has passed (`FlushInv`) and on the loop having accepted every
  row before it (`LoopInv`, `Accepted`); that answers are true rests on outcomes
  (`OutcomeInv`) and on the rows an upload has stored being its sheet without repeats
  (`StoredInv`); that a lost race was lost to an upload and not to the seed rests on
  views holding the seed (`ViewInv`, `SeedInv`). `NextIInv` has a lemma per stage of
  the use case (`EarlySteps`, `LoopSteps`, `FlushSteps`, `FailSteps`, `CommitSteps`,
  `CrashStep`, `SeedStep`); `Bystander` says once what a step of one upload leaves of
  another's invariant.
- `TypeCorrect`, `NoDuplicatePlans`, `RefusalsAreJustified`, `LostRacesAreJustified`
  are conjuncts of `IInv`; `SheetsAreAtomic` and `AnswersAreTrue` follow by
  `IInvAtomic` and `StoredCount` (the number of rows stored, by a bijection with the
  sheet's indexes).
- `ImplementsPlanBook`: `Spec => KeepsTheBook`. The mapping (`Verdict`, `Answer`)
  decides a sheet when its rows are committed or its use case fails, not when the
  client is told. `BookStep` maps every action: most are silent (`SilentSteps`),
  some refuse, two store (`Commit`, `CommitUnacknowledged`), `Respond` tells, `Crash`
  vanishes.

`TokenAuthProofs` holds for any replicas, clients, settings, clocks and bounds, under
`TokenAuthAssumption`: skews are constant, a token lives whole seconds (the TTL is in
minutes), no secret value is the sentinel `None`. `TokenInv` adds what a token is
(`Genuine`): its claim is the expiry told cut to a second, that expiry is its issue
plus the issuer's skew plus its life, and its client knows the password of a user
that exists; that the user exists before anyone logs in is `Booted`. The properties
do not follow without it, since a state with any other token breaks them.
`SecondsOrder` says what cutting to seconds does to an order; from it follow
`TokensAreHonoured` (`HonouredWhileTold`) and `LivesAreBounded` (`ExpiryBounded`).
`ServiceIsEarned` (`ServedIsEntitled`) needs that no deployment changes the user.
`TypeCorrect` needs the statuses of `ErrorMapping`, which are computed through the class
hierarchy: see `ErrorMappingProofs` below.

`MigrationProofs` holds for any deployments, downgrades and crashes. `HeadIsWhole` is
not inductive: a run between two statements may be about to stamp the version.
`MInv` adds `OnItsWay`: what such a run has still to create (`Owed`) and what is there
make the whole schema, and the version is the last thing it does (`Climbs`), unless
the version is head already; and no deployment's run drops anything (`Builds`), so
what one run relies on no other takes away. `UpgradeShape` says this of `Upgrade` as
a whole, by the shape of `Created`; `ExecuteStep` is the one step that changes what is
there. `HeadMeansWhole` and `SchemaBeforeApi` (`ApiFindsSchema`) follow.

`FailuresExplained` (`FailuresHaveCause`) says that an upgrade is never refused for
nothing, and that takes an argument about all runs at once: `LeaderInv`, that while no
run has died and nobody downgrades, what is there is exactly what one run, the leader,
has carried out of the script (`Led(n)`: the tables are `Made(n)`, the first *n* things
created), the leader's remaining statements are those from *n* on (`Left`), so that the
next of them cannot be refused, and each other run is behind (`Behind`): it has yet to
look, or is about to create something that is there, or has failed for it. A run takes
the lead by a statement it carries out on an empty database or with the version's table
alone (`LedExecute`), and the others fall behind by it. `SomeoneLeads` proves this; a
failed upgrade is then behind a leader who is ahead.

`StartupProofs` holds for any replicas, scripts, files, faults, uploads and number of
crashes. `TablesSound` rests on what transactions hold that are still open: `StartupInv`
adds that all rows, stored or held by any transaction, have different ids and keys
(`Unique(rows \cup Held)`), that what a transaction holds refers to rows stored or its
own (`Anchored`), and, for `SeedAllOrNothing`, that a seeding transaction holds or has
still to insert every row missing, now as when it looked (`Seeds`): rows are never
deleted, so what was missing can only become less. `InsertStep` and `CommitStep` are
the ones with something to show; `QuietStep` and `Bystander` say once what all the
others leave alone. That the AUTO_INCREMENT counter grows (`CounterGrows`) needs the
maximum of a finite set of numbers (`Maximum`).

`ErrorMappingProofs` computes the statuses. `Bases` is a recursive function over the
exception classes; `BasesUnfold` exhibits a solution of the recursion, which makes the
CHOOSE one, and unfolds it over the three levels the hierarchy has; `StatusTable` is the
status of each exception.

`RequestPoolProofs` holds for any requests (infinitely many, if need be), any pool,
threads, outages and mixtures. `RequestPoolInv` counts connections (`PoolInv`: those
counted are idle, held or being made), says who may hold one and that who came in since
the database was up holds a living one (`ConnectionInv`), who has the row lock and whose
plan is stored (`WriterInv`), what a request is past (`StageInv`) and that each end fits
what was asked (`Fits`, `EndInv`), also when the rollback that follows it fails and takes
its place (`LeftWithAnEnd`). A step of a request is one of a few shapes, each a lemma
(`PlainStep`, `ShiftStep`, `EndStep`, `PoolStep`), so that an action's proof says which
it is and checks the one request it moves.

`PlansFileProofs` holds for any files (any number of rows and columns, permuted,
repeated and unknown headers), any cells of the classes, any dictionary and plans. The
invariant of the parser (`ParserInv`) has the issues as the bad cells of the rows read,
ordered by row and column (`Ordered`, `Cells`, `Bad`), and, without any, the *n*-th row
parsed as the *n*-th row with data (`Lined`, with `Nth`, a count). That of the loop
(`LoopInv`) has rows decided by their place (`Judged`). `IssuesAreExact` and
`RowsAreKept` state it at the end of the file. `FilesDecidedRowByRow` takes it from
places in the list to rows of the sheet, which counting makes one-to-one
(`PlacesRise`, `PlacesInOrder`), and `LocationsAreShifted` counts the blank rows in
between (`PlaceAndGaps`).

`ReportsProofs` holds for any requests, tables, batches and calendar of equal months. Of
MySQL's constraints `ReportsAssumption` takes as given that the tables, with one or two
batches added to the first ones, satisfy them: what the constraints say concerns two
rows at a time, so this carries over to any number of batches (`Together`, `Origin`,
`RecordedSound`). `ReportsInv` says for each stage what a request holds in terms of its
view alone (`Standing`), and that the view is of committed tables (`Recorded`);
`OneMoreTold` is the loop of plans_performance. From it:

- `ReportsAreOfOneMoment`: an answered report is what the tables of one moment call for
  (`Told`), stated without the steps of the reports, with the figures as operators of
  `Reports`. The 400 of `EvaluatePlan` is never given.
- `ReportsDoNotContradict` (`ReportsAgree`): the month of a plan is in the year's report
  and has figures to match, under the conditions above (section 3). It takes the calendar (`DivUnique`, `SameMonth`: the days of a
  month are those from its first to its last), that plans of one category and one day are
  one plan (`OneName`, and the unique key), and sums over sets of rows. Those are folds; a
  set of rows with amounts in Nat is paid in *coins*, pairs of a row and a number up to
  its amount, and counting coins solves the fold's recursion (`FoldsToCoins`,
  `AmountsAreCoins`). Cardinality then gives that fewer rows are paid less
  (`AmountsMonotone`).

All inductive invariants were checked by TLC on the instances of section 4 before they
were proved.

## 6. Findings

1. *Lost race answered 500* (plans_insert_race). `bulk_insert`'s IntegrityError
   reaches the handler of last resort; the test of the endpoint expects 422 of an
   existing key, and `PlanAlreadyExistsError` exists but is never raised.
2. *Row numbers drift* (plans_file_rows). The use case numbers parsed rows, the
   parser and the README's example number sheet rows.
3. *NaN* (plans_file_nan). `Decimal("NaN") < 0` raises outside the `try`; the
   issues found before are lost and the client sees 500.
4. *Skipped CSV rows* (startup_skipped). A plan of the CSV files whose id an
   uploaded plan has taken is silently left out. If it has a free id but its
   (period, category) was uploaded, the insert fails at every start instead and the
   replica is restarted for ever; `ServesUnlessHopeless` says that this, a
   malformed row, a row that refers to nothing and a row with the id or key of another
   missing row are the only such cases.

More things the models show, which contradict nothing the repository says and so
have no run:

- *Half a downgrade*. `downgrade()` drops `ix_payments_credit_id`
  (`0001_initial_schema.py:109`) before its table; MySQL needs the index for the
  foreign key and refuses (error 1553), when `plans` is gone already and, DDL
  committing by itself, stays so. The version stays head, the next upgrade has
  nothing to do, and the API starts without the table. Dropping the tables alone,
  which takes their indexes along, would do. The migration run has such downgrades;
  its properties excuse what follows them (`Undoing`).
- *Bootstrap password*. A new `BOOTSTRAP_ADMIN_PASSWORD` has no effect on a user that
  exists (`auth.py:37`, `Deploy` of TokenAuth): the old password stays in force.
- *500 of a calm database*. Besides NaN, a sum above the column's range (`models.py:69`)
  or Infinity, and a password with a NUL for a login there is (`security.py:29`), are
  answered 500 though the client is at fault. `StatusTruth` names them and has no others.
- *Plans in the middle of a month*. The CSV loader stores them, and the two reports then
  have different figures of the month (`ReportsAgree`, section 3).

## 7. What is only model-checked, and what is not modelled

Only model-checked:

- liveness (`UploadAnswered`, `ServesUnlessHopeless`, `AnsweredOrLeftBehind`,
  `EveryRequestAnswered`, `EventuallyUp`), because fairness and ENABLED are out of the
  prover's reach;
- `KeepsTheDesk`: the figures of the reports against the definitions of `ReportDesk`,
  which are other folds, a rounding by distance and a sort; that a report has the figures
  `Reports` computes for one moment is proved (`ReportsAreOfOneMoment`).

The library's induction theorems take an operator and cannot be used. Where a proof
needs induction over a finite set, it takes a minimal counterexample under the strict
subset order, which is well founded (`Maximum` of StartupProofs, `FoldsToCoins` of
ReportsProofs); a recursive function or a fold is unfolded by exhibiting a function that
solves its recursion. No module uses a RECURSIVE operator.

Not modelled:

- the xlsx container, the sniffing and splitting of CSV text, and the text of dates
  and numbers beyond their classes;
- password hashing and token cryptography: a token is what its claims say;
- response schemas, entities and most of the DTOs, which copy fields;
- the reading of settings and logging; what settings switch is a constant or, in
  TokenAuth, part of a deployment;
- alembic's offline mode, which writes SQL and changes nothing; `/health`, which
  answers without looking at anything;
- lock waits on the `dictionary` row a plan refers to, in PlansInsert: nothing in the
  code updates or deletes dictionary rows, and readers of them share their locks;
- in TokenAuth, a deployment that changes `BOOTSTRAP_ADMIN_LOGIN` and so adds a second
  user: who may log in is then one of two, each with the password of its first start;
- in RequestPool, mode api_key, which needs no thread;
- clients that hang up: the handlers run on, and their answers go nowhere;
- in RequestPool, an acknowledgement of COMMIT lost in an outage (PlansInsert has it).
