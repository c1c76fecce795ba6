# A TLA+ model of flux-data-engine

flux-data-engine is a self-hosted data platform: users register datasets and
models, run models over datasets, wire models into pipelines, put both on
schedules, compare them in experiments and publish the outcome as
applications. A FastAPI process serves the API, any number of worker processes
(`python -m app.worker`) run what the API queues, PostgreSQL holds everything
that lasts, Redis holds the queue, and a Vue client sits in front.

Almost every question about correctness in this code is a question about
*transactions*. A request and a unit of work each have one SQLAlchemy session,
committed once at its end and rolled back on any exception
(`backend/app/core/database.py:50-74`). Services read a row into an entity, work
on the entity, and hand it to a repository whose `update()` reads the row a
second time and writes back whatever differs. Nothing in between is locked, and
nothing that a long-running transaction has written is visible before its end.
The models below keep exactly that: what is committed, who holds a row's write
lock, and what each open transaction still believes.

Contents: [Inventory](#inventory), [How the models are put together](#how-the-models-are-put-together), [Modules](#modules),
[Runs](#runs), [Fairness](#fairness), [Bounds](#bounds), [Proofs](#proofs),
[Where code and text disagree](#where-code-and-text-disagree),
[Assumptions and what is left out](#assumptions-and-what-is-left-out).

Paths are relative to `src/backend/app/` unless they start with `src/`.

## Inventory

| Component | State | Operations | What is hard | What makes it correct |
|---|---|---|---|---|
| **Execution life cycle** `modules/execution`, `worker.py` | executions table, Results, Redis list, open runs | submit, cancel, claim and run, recovery sweep, reclaim, heartbeat | one id delivered many times; worker, API and Redis crashes; a cancel racing a run; failures that undo their own record | one runner per execution, one Result per submission, cancelled stays cancelled, every execution ends |
| **Schedules** `modules/orchestration/*/schedule*`, `worker.py` | schedules table | create, edit, pause, resume, delete, run now, tick | replicas ticking together; edits during a tick; one failing schedule among many; crashes | a due time fires once, due schedules do fire, deleted and paused ones do not |
| **Jobs** `modules/jobs` | jobs table, the same Redis list | submit, run handler, cancel, retry, reclaim | as executions, but a handler's exception is recorded and committed with the handler's partial writes | every job ends and says how |
| **Job events** `modules/jobs/api/stream.py` | one generator per viewer | poll, emit, stop | ending exactly when the job has | no terminal state is missed |
| **Pipelines** `modules/orchestration` | pipelines, runs, step runs | save (validate, check nesting), run in waves, invoke | steps in threads with sessions of their own under a run that may roll back; cycles built by saves that cross, or by a run that stores the pipeline it was started with | a step reads exactly its inputs; no run names what is not there |
| **Models and versions** `modules/model` | models, versions | register, edit, publish, train | numbering by max + 1; publishing what was trained | versions unique and reproducible |
| **Data** `modules/data` | sources, datasets, versions, files | upload, materialise, append, delete | files and rows are not one transaction | every version's file is there |
| **Results** `modules/results` | results, payload files | persist, materialise, delete | as data | as data |
| **Evaluation** `modules/evaluation` | experiments, metrics | check, run, leaderboard | many submissions in one transaction | no missing arm |
| **Applications** `modules/applications` | applications, share tokens | publish, withdraw, share | stale entities written back whole | a withdrawn application is not reachable |
| **Accounts, API keys, workspaces** `modules/platform`, `api/security.py` | users, keys, members, a guard on every route | sign in, edit, delete, issue, use and revoke keys | check-then-act on the last administrator; requests served on a row read earlier | nobody is served beyond their rights; the last administrator stays |
| **Projects** `modules/platform`, `shared/scoping.py` | rows, directories, a filter on every query | create, rename, file, delete | files move before the row that names them | files are where the row says; only empty projects go |
| **Analysis, lineage** | charts, dashboards, tiles; nothing | query, draw, trace | rows in any order, missing values, what was deleted on the way | charts lose no row; lineage says what was made of what |
| **Reporting** `modules/reporting` | reports, exported files | edit, export, delete | files and rows are not one transaction | the last export named is there |
| **Table plugins** `plugins/python_function`, `join`, `rule`, `scorecard`, `risk_matrix`, `data_quality`, `projection` | – | transform, score, judge a series | order of arrival, repeats, gaps, text among numbers | the answer is about the rows, not their order |
| **Asset maintenance** `plugins/asset_maintenance` | daily record, filed events, a cached engine | assess an asset on a day | hindsight, caches, rules that override each other | a day is judged by what was known then |
| **Typhoon analogs** `plugins/typhoon_analog` | engines shared by threads | fit, rank, vote, backtest | settings of an engine changed under another request | rankings agree with their definitions |
| **Other plugins** `plugins/*` | none the platform relies on | describe, execute, train | – | numerical; the life cycle sees *returns*, *raises* or *never ends* |
| **Object storage** `shared/s3_storage.py` | bucket, local cache | put, get, local_path, delete | a cache directory shared by processes | a path handed out stays readable and current |
| **Seeding** `core/seed.py`, `plugins/fixtures.py`, worked example | whatever is seeded | start | starts that fail half way, overlap, or find things changed | one of everything; what failed is completed by a later start |
| **Schema migrations** `src/backend/alembic` | the schema | upgrade, downgrade | rows that suit no later revision | the readers find what they look for |
| **Composition root, configuration** `core/` | – | wiring | – | decide constants of the models (inline or queued, step sessions) |
| **Frontend** `src/frontend` | a cache of vocabulary answers, the session token | cached reads, writes | invalidation while requests are in the air | presentation |

How they interact: the API and the scheduler loop call `ExecutionService.submit`
and `JobService.submit`; both insert a row and register an `after_commit` push
of its id onto one Redis list; workers pop ids and call `run`. A job's handler
runs a pipeline or an experiment, whose steps and trials are executions run in
place. Executions write Results, datasets and model versions through the
services of those components, in the execution's session. Users reach every
row through the API while all of this runs. `PROJECT.json` lists each hazard at
its line, with the properties that cover it.

## How the models are put together

Components share a database but hardly a row, so each has a module of its own,
with its state, its actions and its properties, and a small instance is enough
for each. Four modules bring instances to the model checker:

* `MCExecutionLifecycle` and `MCSchedules` check `ExecutionLifecycle` and
  `Schedules`, each with runs of its own.
* `MCWork` puts the components around them side by side – pipeline runs, jobs,
  nested pipelines, versions, experiments, projects, migrations, accounts. A
  variable `stage`, chosen at the start, names the one that moves; the others
  rest. One run thus explores the sum of the components, not their product.
* `MCPlatform` does the same for the rest: transforms, scoring, series, charts,
  catalogue, publishing, reports, storage, asset engine, analogs, seeding and
  the worked example.

Two abstract specifications say what a user may rely on:
`ExecutionOutcome` (implemented by `ExecutionLifecycle`) and `JobOutcome`
(implemented by `JobLifecycle`); both refinements are checked and proved.
`Projects` is also checked by itself, for the run that refutes a statement.

## Modules

### ExecutionLifecycle

One variable for each place that keeps something:

| Variable | In the system |
|---|---|
| `row`, `results` | committed executions table (status, cancel flag, attempts, whether it names a Result) and the Results committed per execution |
| `lock` | which open transaction has updated the row, hence holds its write lock |
| `pc`, `ex`, `todo`, `sweeping` | where each worker's single thread is: idle, in its recovery sweep, before, at or after the claim, in the plugin, logging |
| `queue`, `saved` | the Redis list, and as of its last snapshot |
| `unpushed` | committed submissions whose `after_commit` push is still to come |
| `cancels` | per execution an open cancel request: the entity it decided on, and the columns its UPDATE will carry |
| `created`, `aged`, `crashes` | the clock of the model: ids in creation order, how many are past `RECOVERY_AFTER_SECONDS`, crashes so far |

A claim's RUNNING is not part of `row`: the only commit is at the end of the
session, so it exists only inside the claiming transaction (`pc = "running"`
and `lock`). That this is really so, and that therefore heartbeats, `reclaim_stale`,
the cap on attempts and the "request cancellation of a running execution" branch
never find a row to act on, is not assumed: the model has those
branches (`Reclaim`, `giveUp`, `skip`, `AskedToStop`), and `RunningNeverCommitted`
and `IInv` say they stay idle.

| Actions | Code |
|---|---|
| `Submit`, `Push`, `LosePush` | `ExecutionService.submit`, commit of the request, then the dispatcher's `after_commit` hook, whose failure is logged |
| `SubmitInline` | an execution run inside the session that submits it: all of them when `execution_mode = inline`, pipeline steps (`force_inline`) always. It is kept with its Result; or it raises and is rolled back with the request; or it raises inside a pipeline, which catches it around each step and commits the failed row |
| `CancelRead`, `CancelReload`, `CancelWrite` | the first read and decision of `cancel`, the second read in `repository.update`, the UPDATE and commit once the row is unlocked |
| `Pop`, `Sweep`, `Recover`, `Reclaim` | `_drain_queue`; `_tick_recovery`: list, run one by one, fail quiet RUNNING rows |
| `Fetch`, `Start` | `run` up to its first UPDATE; that UPDATE, evaluated on the newest committed row after waiting for the lock |
| `Succeed`, `Raise`, `Log` | the plugin returned or raised; what each commits or rolls back; the worker's `except` |
| `Crash`, `ApiRestart`, `Snapshot`, `RedisRestart`, `Age` | failures and time |

`ExecutionOutcome` is the same life seen by somebody who reads committed data
only: accepted, completed once and at once, failed in place, cancelled. `OutcomeSpec` says that
`ExecutionLifecycle` implements it.

### Schedules

| Variable | In the system |
|---|---|
| `row` | committed schedules table: status, `next_run_at`, `run_count` |
| `created`, `attempts`, `slots` | history: which schedules were created, committed attempts to fire, and how many of them by ticks for each due time |
| `lock` | which open tick has updated the row |
| `ticking`, `at`, `seen`, `todo`, `cur`, `fired`, `sent`, `columns` | one tick: its `now`, the entities it read, what is left, the UPDATE it is about to send, what it has submitted, what it has sent and which columns |
| `req` | each API request: what it decided on from its first read and which columns it will write |
| `now`, `crashes` | bounded clock and failures |

A request is `Ask` (first read and decision), `Reread` (the second read, in
`update()`) and `Answer` (the UPDATE and the commit). A tick is `StartTick`
(`due()`), `Fire` and `Write` for each due schedule, soonest first (`_fire`: submit, move on, reread,
UPDATE) and `Commit`; `Victim` is a deadlock PostgreSQL resolves, `RollBack` any
way the session ends badly. A submission that raises is caught and still moves
the schedule on (`Broken`); a trigger without a next time raises outside that
`try` (`NoNextTime`). `NextFire` is a parameter: any function from times to a
later time or to none. "describe" stands for every edit of a column the
properties do not mention; it matters because it, too, writes back what it read
elsewhere in the row if that differs by then. `updated_at` always differs, so an UPDATE is always sent.

### JobLifecycle, JobOutcome

`jobRow`, `jobLock`, `jobPc`, `jobHeld`, `sweepList`, `jobCancel` are what
`row`, `lock`, `pc`, `ex`, `todo`, `cancels` are to executions. The difference is in the
outcome: `FailJob` records a handler's exception *and commits it*, with whatever the
handler had written (`jobDebris`); `BreakJob` is a handler that breaks its session, so
that `run` itself raises and the claim is rolled back. `watcher` and `lastSent` are the event
stream a browser follows a job through (`jobs/api/stream.py`). `JobOutcome` is
a job as a reader of committed rows sees it: accepted, completed or refused once, relabelled by a cancel at most.

### PipelineRuns, PipelineGraph

`PipelineRuns` is one run of one pipeline: `StartRun` takes the definition and pins the
dataset's version; a wave's steps are `RunStep` in threads with sessions of their own, or
`RunAlone` in the run's session when a wave has a single step or the step is a nested
pipeline (`_run_wave`, `_run_in_parallel`, `_step_inputs`). Meanwhile the pipeline is edited,
its dataset refreshed, a merged dataset deleted, the process lost.
`PipelineGraph` is the nesting of pipelines and every write of it. `CheckSave` is a save with
steps: it reads what the steps reach, refuses a loop and too deep a nesting, and `CommitSave` writes it
later. `TouchSave` is a save of a description: the steps go back as they were read, and nobody checks
them. A run goes down the nesting within the depth limit (`EnterNested`; `SkipNested` where an input never
came), and at the end of each nested run `_finish` stores the whole pipeline as that run read it
(`services.py:762-765`). The repository reads the row again first, and the UPDATE carries the steps only
if the row shows other ones (`ReadBack`, `LeaveNested`). The nested runs share the outermost one's session, so what
they wrote is `flushed`, locks its rows, and is committed by `FinishDescent` or rolled back by `LoseDescent`; of runs
that wait for one another's rows the database ends one (`BreakDeadlock`). `outdated` says
whose reading another's commit has overtaken, and `crossed` that such a writer has changed the graph.
`Reachable` is the least set closed under nesting, which is what `_check_nesting`'s search collects.

### VersionStore

One versioned thing – a model or a dataset – and sessions that publish, edit or delete it.
The number of a version is read (`entity`) long before it is inserted; bytes go into
the store before the rows and out of it before the rows (`StoreObject`, `FlushDelete`);
the unique constraint refuses the second of two equal numbers at `InsertVersion`, after it has waited for the first.

### ExperimentRuns

Trials, their runs and judgements, and the leaderboard `Board`: any sequence of
the trials that the sort key `Before` allows. A run that was judged shows the newest judgement, even one without the
primary metric (`ScoreOf`). Runs are found by the name
written when they were submitted (`RecordedName`) under the name shown now (`RowName`), which is the code's way.

### Projects

Directories on disk and rows: `AskRename`, `MoveFiles`, `RenameProject` in the
code's order, files first; `AskDelete` counts holdings as seen from the project the
request stands in. `crowded`, `interrupted` and `fromElsewhere` record that two requests overlapped,
that one ended between its move and its commit, and that a project was deleted from inside another.

### Routes, Accounts

`Routes` is the table of all routes of the API with the permissions their guards ask for
and what their handlers store, and the guards themselves (`api/security.py`).
`Accounts` are users, keys and members, and the requests made with them: a request reads
its rows when it begins (`asking`), and writes the columns its copy differs in when it
ends. `overreached` collects requests that stored what their row did not allow.

### Migrations

The chain of revisions as steps on a set of facts `<<table, kind, column>>`,
walked up and down over rows that may be of any kind an earlier program could
have left; the ORM's tables say what the current readers and writers need.

### Publishing, Reports, StorageCache, Catalogue, Lineage

`Publishing`: one application's row, its token and the requests that read it and write it
back whole; `stale` records that one wrote over what it had not read. `Reports`: one
report, its exported files, and requests for which the file goes before or after the row. `StorageCache`:
one object, the copies processes keep of it, named by ETag, one lock per process,
directories that processes may share (`src/docker-compose.yml`). `Catalogue`: rows that name
each other by id and outlive what they name, with the files that belong to them. `Lineage`: the
walk over those rows in both directions, when somebody asks.

### Transforms, Scoring, Series, Statistics, Charts

The algorithms of the table plugins and of charts, as functions of a small
table. The table grows by a row at a time and is also read in another order; the laws
say that the answer is of the rows and not of their order, loses none, and agrees with
itself (a group's sum with the whole, an inverse with its original, a cap with its bound). Fractions are kept as pairs or in fixed parts.
A dashboard's tiles are placed, moved, resized, removed and re-flowed; `ChartsAssumption` takes their sizes from
the clamps of `add_tile` and `update_tile` (`modules/analysis/application/services.py:577-594`).

### AssetEngine

One asset's record growing day by day, with what is filed beside it. `AssessDay` and its
parts are the decision of `asset_maintenance/engine.py`: trends, modes, tasks, rules,
the forced action. `AskEngine` is the API's cached engine. What was `said` of a day is compared with what is said of it later.
A reading's projection has an earliest, a likely and a latest day (`Projections`). The one that is likely first gives the
window, which runs from its earliest to its latest day (`ActionWindow`), all counted from the reading the trend was fitted to last.
`AssetAssumption` gives a reading its type (`Measurements`), and nothing about its values.

### TrackMatching, AnalogEngines

Rankings of past typhoons by position, features, time warping, rules and rain, their fusion and the vote, on
a line instead of the sphere; and the engines in one process: fitted once, kept by
shape, shared by runs in threads each of which sets the engine for rain before it asks.
`configure_rainfall` is taken apart: `SetUse`, `SetRegion` and `SetWeight` are separate assignments, `TakeRain` is the rain of one
typhoon in the region that is set by then, and only `PutRain` puts the table in place. A
ranking looks each typhoon's rain up in the table of that moment (`RankRain`). So an older request's table may land
after a newer one's settings; `setters` notes who has assigned anything since the last `SetUse`.

### Seeding, WorkedExample

`Seeding` is a start of a server: everything looked up by name and made where missing, in one
transaction with savepoints; starts overlap, fail or die, and people delete and edit in between.
`WorkedExample` is the chain of tables of the maintenance example, brought up to date start by start. A start
fetches the telemetry before it reads the files again (`seed/worked_example.py:94` and `:103`), so `HandedOn` holds a run
over the telemetry against the version `fetched`, and against the current version of any other table.
What `Seeding` assumes of the declarations is what `plugins/fixtures.py:33-36` and `core/seed.py:427-458` say of them:
a section refers to those above it (`OrderAssumption`, with a second pass for what the code half builds), a declaration is looked
up by its name (`ApartAssumption`), and the walkthrough's second chart and board are nobody
else's (`UncheckedAssumption`). `ChainAssumption` is the order of the calls in `seed/worked_example.py:92-179`:
a link runs once, after its input.

## Runs

| Run | Asks | Result |
|---|---|---|
| `queued_safety` | two workers, two executions, queued or inline, everything that can fail once: ownership, Results, cancellation, refinement | holds, 760 000 states |
| `execution_liveness` | does everything that can succeed end, whatever is lost, beside an execution that may fail for ever? does an accepted cancel end even that one? | holds, 91 000 states |
| `schedules_safety` | two replicas, two users with every operation, a crash | holds, 835 000 states |
| `schedules_alone` | one replica and no edits but deletion: exactly-once, exact counts, and that what is due is fired despite a broken schedule and a tick limit of one, over five points in time and both kinds of trigger | holds, 18 000 states |
| `work_safety` | each component of `MCWork`, through every interleaving of its requests, threads and workers | holds, 756 000 states |
| `work_liveness` | do started runs, nested descents, pending jobs and accepted cancels come to an end? | holds, 23 000 states |
| `platform_safety` | each component of `MCPlatform`: laws of the algorithms over every small table, and the races over shared rows, files and starts | holds, 920 000 states |
| `cancelled_result`, `failure_recorded`, `schedules_barren`, `schedules_replicas`, `projects_holdings` | five statements of the repository | violated, see below |

Every property of a passing run is also checked against a mutant: a definition
of the model replaced by what a plausible slip in that code would do (the
claim trusting an earlier read, a firing that does not move the schedule on,
a leaderboard for which bigger is always better, a cache that names copies by key), under which TLC finds it violated. The
mutants stand beside the definitions they replace. `DataLaws` stands for a law of
each of several algorithms, and has a mutant in each.

## Fairness

Only the liveness runs use fair specifications (`FairSpec`, `FairWorkSpec`).

* A worker's steps are weakly fair: its loop never stops and catches every exception
  (`worker.py:76-84`, `117-142`, `196`, `227`). `Pop` and `Sweep` (for jobs `SweepAll`) are strongly
  fair, because the loop comes back to each of them whatever it did
  in between.
* `Start`, `CancelWrite`, `Write`, `Answer`, `ClaimJob`, `CancelJobWrite`, `Descend` – the statements that wait for a row
  lock – are strongly fair: PostgreSQL queues waiters for a row, so one that
  waits is not passed over for ever. It also notices runs that wait for one another (`BreakDeadlock`, weakly fair).
* A plugin call and a job's handler end one way or another. This is an assumption about them: the code's
  deadline is cooperative.
* The `after_commit` hook runs or fails, and time passes (`Age`). `Clock` needs
  no fairness: `EventuallyFires` starts from a schedule that is already due.
* A pipeline run's thread and its steps go on (`FairRun`), an open stream keeps polling.
* Nothing is assumed of users, crashes, edits or Redis snapshots.

`schedules_alone` and `execution_liveness` have one worker. With two replicas whose due schedules tie in `next_run_at`, nothing
orders their UPDATEs and both may take turns as the deadlock victim; only the replicas' clocks
being out of step, which is not modelled, makes that end.

## Bounds

* Two workers and two executions (schedules, jobs, sessions, clerks, editors): every race named under the hazards
  is between two actors over one row or, for the sweep's batch and the tick's
  limit, between two rows. The proofs cover the rest of the range for the safety properties they state.
* Storage has three threads in two processes, so that both a lock within a process and a directory
  shared between processes matter.
* `MaxCrashes = 1` (`MaxJobCrashes`) places one crash at every point, including Redis bringing back a
  message that was already handled. `CancelTakesEffect` is stated for the time when
  no crash is left, because an API that dies takes its open requests with it.
* `MaxAttempts = 2`: the cap is never reached, whatever it is (`RowConsistent`).
* `RecoveryBatch = 2` holds every pending row. This is a real precondition of
  `EventuallySettled`, see below.
* One open cancel request per execution; two API requests on schedules; two requests on accounts (`MaxRequests`), two versions of a dataset during a run, three published versions.
* Nesting: in `work_safety` three pipelines, three saves by two editors and one run (a loop of three needs three saves, and one run is enough to
  put old steps back); in `work_liveness` two pipelines, two saves, depth 1 and two runs, because it takes two that lock the same rows in opposite
  order to wait for each other.
* Algorithms: tables of three rows (`MaxReadings`, `MaxRows`, `MaxTiles`), three days of an asset's record
  with one event filed (`MaxDay`, `MaxFilings`), four typhoons, three calls to the object store (`MaxCalls`): the smallest sizes at which an order, a gap, a repeat,
  a tie and a step back all occur.
* Seeding: two starts and one edit; the worked example: three starts and two events between them.
* `Horizon` is 1 to 4: long enough for a schedule to fall due, fire and
  fall due again where a property relates two firings.
* `RunScanLimit = 2` and `MaxRuns = 2`: the truncation of the scan to the newest runs is in the model and the proof, but no run of TLC is longer than the scan.
* Symmetry (`Replicas`) is used in the safety runs of executions and schedules only, over workers and
  requests, which the specifications treat alike. `queued_safety` also uses a `VIEW` that
  forgets the id an idle worker handled last; no action reads it and no property mentions it in those states.
* Deadlock checking is off for schedules, `MCWork` and `MCPlatform`: with bounded clocks, requests and
  tables the system really runs out of steps. The execution runs keep it on.

## Proofs

Eight modules hold theorems, checked by TLAPS for every value of the constants, from the
named assumptions in the modules that declare them. Those are types, special values that are
outside the set they are special to (`NoWorker` is no worker, `Gone` is no content, people are
not keys), finiteness of sets whose cardinality the code takes, and a next time that is later than
the time it is computed from. None of the safety properties below is inductive by itself; each entry names what had to be added.

**Executions** (`ExecutionLifecycleProofs`). Two
workers are never in one execution only because a worker inside a
run holds the row's lock (`LockDiscipline`), a locked row is PENDING in the committed table (so nobody
else's UPDATE got through), what a status says about attempts
and Results is kept (`RowConsistent`), and an open cancel request will write
the status whatever the row becomes (`RequestConsistent`). Their conjunction `IInv` is inductive;
`SingleOwner`, `ResultsAccounted`, `SuccessHasResult` and `RunningNeverCommitted` follow from it, and
`CancelledForGood` by looking at every action that writes a row. The last two of the four state facts and are in no
run. `Implements` maps each step to one of `ExecutionOutcome` or to a stutter, using the same
classification (`EveryStepIsARowStep`).

**Schedules** (`SchedulesProofs`). `CountNeverOver` – stale entities lose counts but never invent
them – extends (`CountsCovered`) to every entity an open tick or request
holds, `run_now`'s one attempt ahead included, and to the fact that a tick sends only
UPDATEs for what it fired; it holds for any number of replicas, requests and schedules
and any triggers. `DeletedForGoodHolds` needs only that an UPDATE finds no row to change;
`PausedUntilResumedHolds` that only created schedules have rows (`Known`).
`OncePerSlotHolds` and `CountExactHolds` carry a hypothesis, `Alone`: one worker, and users who only create and delete. It is needed: with two
workers the code fires a due time twice (`schedules_replicas` shows it), and a request that read
a schedule before a tick writes the old due time back. Under it, `AloneInv` says that what has been fired lies before the next due time of
every row and of every entity the tick still holds, and that a tick's UPDATE is what one firing makes of the entity it read.

**Jobs** (`JobLifecycleProofs`). `LocksMatch`, `WorkersMatch` and `RowsMatch` play the part of the three above; a stream that has closed
was told the end because a terminal row changes only by a cancel decided before. From `JobInv` follow `OneHandlerPerJob`,
`ClosedStreamToldTheEnd`, `JobWorkAccounted`, and, step by step, that the queue implements `JobOutcome` (`JobsImplement`).

**Pipeline runs** (`PipelineRunsProofs`). `WavesInOrder`: what is settled, prepared and running follows the
waves of the definition held, tables are handed on only by steps that are over, a prepared step has its
inputs in hand. `CancelledInVain`: the input a cancelled step lacked can no longer come, because the step that was to hand it on is over and
deleted datasets do not return. `SessionsApart`: what runs in the run's own session runs alone. No case distinguishes how many steps or threads there are.

**Versions, leaderboard, nesting, typhoon analogs** (`WorkProofs`). *Versions:* a number read is never beyond the next one; at
most one session has the next one inserted and not committed, because the constraint makes the second wait; and what the row
will point at is committed with it. From this `NumbersRunOn` and `VersionsReadable`.
*Leaderboard:* every run keeps the name its trial had when it was submitted (`RunsNamed`), so a run
found under a trial's name is its own unless a trial ever run shares that name.
That the best leads needs a board to exist at all: the sort key has to order any finite set of trials.
`Sortable` proves that a total and transitive relation sorts any finite number of things – an
induction, carried out on the least number for which it fails (`LeastNumber`) – and `BoardInOrder` that
the key is such a relation whichever way better runs and whoever was not measured.
*Nesting:* until something crossed, a save whose reading is not outdated was checked against the graph
that is committed (`SaveFresh`), and a run whose reading is not outdated holds, and has flushed, the steps that are there
(`RunFresh`, `IdleRuns`), so that its commit changes nothing, whatever it locked and read meanwhile. What is
left is the save, and adding edges out of one pipeline to pipelines that do not lead back to it leaves no loop (`NoLoopMade`,
from `Reachable` being the least closed set).
*Analogs:* `AnalogInv` says of every shared engine that it is as fitted on a record of its key if nobody has set it, and, attribute by
attribute, that what a run has assigned is as it asked while nobody else has assigned anything since it began: its use,
region and weight from its own assignment on, the rain it has taken so far of that region, the table from `PutRain` on.
Between its own steps a run otherwise knows only that the engine is still there. From it `OneEngineEach`, `AnswersAsIfAlone` and `ScoresTheMethod`. That analogs are of the
record, each once (`AnalogsOfRecord`), takes that every ranking is one: `NearestInOrder` sorts
the measured typhoons (by `Sortable`), and the fusions only join and cut rankings. A ranking by path needs its
distances to be numbers: the table of costs is filled row by row (`Chain`), and `DistanceOfPair` shows in addition that turning
the table over gives the same cost, which `compute_distance` relies on when it keeps one distance for both of a pair.
The four properties named are conjuncts of `DataLaws`. The record is any that has a typhoon, with whole numbers for positions and rain (`MatchingAssumption`, `AnalogAssumption`).

**Object storage and catalogue** (`StorageProofs`). *Copies:* `CacheServes` is the conjunction of four: a copy holds what its name says unless the object changed between
look and download; a reader opens what the object held at some time during its call; a file is missing only for a clearing or a rename by another process; one
download per process. Added are what a lock holder has in progress, and that a partial file is of the thread
that holds the lock or of another process sharing the directory.
*Catalogue:* rows name each other freely and outlive what they name, so `RecordsReadable` needs `CurrentOwn`: the current version of a
dataset names that dataset, hence goes only with it; and `Numbered`: the next id of a kind is free and greater than all before. Each
operation is shown to keep the old rows (`OldRowsKept`), to store what it adds (`NewRowsStored`) and to make current
nothing but the last version (`LastBecomesCurrent`); `Onward` concludes. `RecordsReadable` is a conjunct of `DataLaws`.

**Applications and reports** (`PlatformProofs`). A token is withdrawn for good because every row a request
read, while nothing is `stale`, has a token that is not withdrawn or is no longer open (`TokensKept`). For reports,
files named by the row or by any row a request still holds exist unless a deletion took them.

**Projects and accounts** (`PlatformProofs`). *Projects:* directories are unique because the row's insertion decides
(`OwnDirectory`); while nothing overlapped and nothing was cut off, the one open request knows where the files
are and where the row will say they are (`FilesInv`), and what is being filed is filed under a live project (`FiledInv`). *Accounts:*
`AllGuarded` goes through the whole route table and shows that a guard that lets a caller through
allows what the handler stores; from it, and from requests keeping what they read, `NoOverreach`. `LastAdminLeaves`
adds that a deletion knew how many administrators there were and who asked.

**Seeding, the worked example, dashboards, assets** (`ContentProofs`). A start, a chain and a re-flow are folds over
sequences of any length. The module begins with lemmas that take a fold as the table of its intermediate
results – found by induction on the least number for which it is not one – so that what every step
preserves holds of the fold. *Seeding:* a step makes nothing that is there and touches no
name but its own, so one start keeps `OneOfEach`; across starts it takes `StartsAlone` – one server at most is starting, and what
it read is what is there but for what was deleted since – because a commit adds what its start made to
whatever is there by then. `SeedingHeals` follows the two passes: the first makes the declarations that
need only each other, the code half then finds what it needs, and the second pass makes the rest and fills in the applications; that other plugins
touch none of a plugin's names keeps it whole until the commit.
*Worked example:* `ExampleInv` says that everything is of the past, and that a table young enough to be reused is of the
version it would be made of again – the telemetry's as the start fetched it, which the start may have replaced since –, unless its last writer had been overtaken (`late`); without the runs in the air (`Reading`) it is
not inductive, since one of them may end at any time. `ChainAgrees` then goes along the chain (`Agreed`).
*Dashboards:* every tile a re-flow has placed lies above or to the left of where the next one goes (`Laid`),
in the running row or over it; hence no overlap. It needs a tile to fit a row, which the clamps ensure.
*Assets:* `AssetInv` keeps with each answer the filed tables it was given from, and a later day or
filing changes nothing an assessment of an earlier day reads (`DayStays`); from it `AsItStood`. `RepairForgetsHolds` compares
two views that differ only in slopes, deviations from normal and spreads, analyzer by analyzer.
`AsItStood` and `RepairForgets` are conjuncts of `AssetsJudged`, `ReflowClears` is one of `DataLaws`.

### Only model-checked

* Liveness: `EventuallySettled`, `CancelTakesEffect`, `EventuallyFires`, `RunEnds`, `JobsSettle`,
  `JobCancelTakesEffect`, `DescentEnds`. Proofs under fairness need ENABLED, which the prover does not have.
* `DataLaws` and `AssetsJudged`, but for the conjuncts named above: what transforms, scores, charts and verdicts compute
  by sums, sorts and walks (some of them RECURSIVE operators, which the prover does not take), for every small table. Of the analogs: that time
  warping finds the cheapest of all walks (`WarpsCheapest`), that a fusion leaves nobody unfairly behind
  (`NoneUnfairlyBehind`) and that the accuracies add up (`ScoresAddUp`).
* `SchemaHolds`: the chain of migrations has no parameters; the run explores all of it.
* `WorkTypeOK` and `PlatformTypeOK` gather the types of all components of a run. Those of executions, schedules, jobs, pipeline
  runs, versions, applications, reports, storage, projects, the catalogue, charts, assets and the worked example are proved one by one; that of accounts
  bounds the size of a bag, whose cardinality is a sum over its elements.
* The refuted statements.

## Where code and text disagree

Each of the first five is a run whose one property states the sentence and which TLC refutes.

* **Cancelled, with a Result** (`cancelled_result`). `cancel()` reads a PENDING row while a run is in
  progress invisibly, waits for it and then writes CANCELLED over its success.
  `modules/execution/application/services.py:759-762` explains why a
  cancelled execution must not point at a result.
* **The failure is not recorded** (`failure_recorded`). `run()` writes FAILED and
  re-raises; the worker's session rolls back, and the row is PENDING again.
  `worker.py:228`: "ExecutionService already recorded the failure on the row".
* **A broken schedule stops the others** (`schedules_barren`). A cron expression whose next match is more than 366 days
  away (`0 0 29 2 *` after it fired, a Friday the 13th) makes `schedule_next` raise outside the `try`;
  every tick from then on is rolled back as a whole. `schedules.py:188`: "A broken schedule must not stop the ones behind it in the queue."
* **Replicas fire twice** (`schedules_replicas`). Overlapping ticks submit for the same due time.
  `worker.py:12`: "Safe to run several replicas".
* **A project that holds things is deleted** (`projects_holdings`). `_holdings` lists through repositories
  scoped to the project the request stands in; asked from inside another project it finds nothing.
  `modules/platform/application/projects.py`: "Refused rather than cascaded."

More consequences are visible in the models and have no run of their own.

Executions, schedules, jobs, pipelines:

* `attempts` is rolled back with the failure, so an execution that always
  raises is retried by every recovery sweep; `domain/entities.py:93-95` gives the opposite as the purpose of the counter.
* Rows that never settle fill the sweep's batch, newest first, and an older one whose push
  failed is then not reached; `dispatch.py:60-61`: "a queue blip never loses work".
  `EventuallySettled` holds because the batch is large enough for what is pending.
* `run_now` can write an old `next_run_at` back over a tick's; `schedules.py:161`:
  "Fire a schedule immediately without disturbing its cadence."
* A job whose handler breaks its session is swept up again for ever (`JobsSettle` excepts it); a job whose pipeline run ends
  FAILED succeeds all the same.
* A run stores the pipeline it was started with when it ends, and a change of a description the one it read
  (`services.py:762-765`, `191-209`): either puts old steps back over a newer save, unchecked, and can close a loop that no save
  would have been allowed to (`LoopNeedsCrossing` excepts a write on an outdated reading).
* Steps in threads run the definition as edited since, while the run's `definition_snapshot` records the one it started with.
* `_check_nesting` follows what a pipeline nests, not what nests it, so depth limits can be passed from outside.

Data and files:

* Objects and exported files are deleted before the rows commit; a deletion that does not commit leaves
  rows that name nothing (`deleting`, `removed`). A report exported in several formats leaves all but the last behind.
* A rewrite between `head_object` and the download leaves one content under the other's ETag; processes sharing a
  cache directory may rename each other's `.partial` file (`LostForAReason`).
* A materialised result whose dataset is deleted stays "already materialised" and cannot be read as one again.
* Lineage reports `truncated` when the depth limit coincides with the end of the graph (`services.py:127`).

Accounts, applications, seeding:

* `update_user` can demote or disable the last administrator; `_admin_count` counts disabled ones; two deletions that cross can remove
  both. `LastAdminLeaves` excepts exactly these.
* A login or password change that crosses a demotion writes the old role back; the use of a key that crosses its revocation revives it.
* A request that read an application before a revocation writes the token back (`stale`).
* The start that reads the telemetry's files again still reuses the runs over the version before, which `worked_example.py:295-299`
  means to prevent; the next start makes them anew (`ChainAgrees` says so).
* Seeding is not the no-op `seed.py:3` promises: fixture applications are published again at every start, servers that
  start together duplicate what has no unique name, and deleting "Revenue by product" makes the next start repeat its neighbours (`SeedsOnce` excepts these two).

Algorithms:

* Class failures and the quality table are not cut at the day judged, though `plugin.py:89` offers to "assess the fleet as it stood on this date".
* `_forces_action` asks for a trusted reading also where its docstring lets an emergency limit override.
* `_window` treats a limit already passed as the latest of all, and compares days counted from different readings, so that an estimate
  resting on an older one may be due before the window (`WindowsHold` is stated accordingly).
* Engines of the typhoon provider are kept by the shape of the record, so an edited record of the same shape
  answers from the old one, against `get_engine`'s docstring; `configure_rainfall` changes an engine other threads are using, and a run may answer with another's settings or its late table (`AnswersAsIfAlone` excepts it).
* `_mask` in `table_ops.py` lets a null satisfy `ne`; its comment says a null never satisfies a comparison.

## Assumptions and what is left out

* PostgreSQL at READ COMMITTED, the default the engine is created with. SQLite deployments
  serialise writers and have fewer behaviours.
* SQLAlchemy's identity map holds rows weakly, and the repositories return entities rather than
  rows, so the second read in `update()` is a new SELECT.
* Redis as `src/docker-compose.yml:40-44` runs it: restarted when it stops, snapshots at intervals.
* The worker's branch for a missing runner (`services.py:623-629`) is unreachable:
  `core/container.py` always wires the pipeline runner.
* A pipeline-kind execution appears in `ExecutionLifecycle` as one call that returns or raises, and each of its steps'
  executions as a `SubmitInline`; how the steps depend on each other is `PipelineRuns`. What a lost run's steps had committed stays behind, and no model follows it further.
* A schedule's submission is its success or failure: the row it inserts lives and dies with the tick's
  transaction, and what becomes of it afterwards is `ExecutionLifecycle`. A submission that breaks the session is not modelled.
* The 30-second interval between ticks is not modelled: a tick may start whenever something is due.
* `MaterialiseResult` is one step, so two requests that materialise one result at once are not in the model; the code lets both make a dataset.
* Floating point is replaced by whole numbers in fixed parts; positions and features of typhoons lie on a line.
* Key expiry, workspace roles, token signatures and the audit trail are left out; so are the rule-based and baseline typhoon
  methods and precipitation, the asset engine's backtest, load-based rules and data generator, the optimiser, Monte Carlo, learning,
  curve-fitting, formula and language-model plugins, source readers and the SQL guard, and the frontend.
* Names, the `last_*` report columns, logging, metrics, and the
  contents of parameters and payloads are abstracted.
* `PROJECT.json` lists every component with what is modelled of it and what is not.
