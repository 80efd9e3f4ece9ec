# ClueOJ: a TLA+ model of the judging pipeline

ClueOJ is an online judge (a fork of DMOJ/VNOJ). Its core is the path from a
`Submission` row to a verdict: web threads and Celery tasks commit a *run* of a
submission, hand it over a socket to the *bridge* process, the bridge chooses a
judge worker, and the worker's packets come back and are written into the row.
Four kinds of actors (web threads, bridge threads, workers, a restarting bridge)
share one row, and nothing but a problem row lock, one re-entrant lock inside the
bridge and a *dispatch id* per run keeps them apart. Around this core, Celery tasks
and requests do long work in many short transactions: rebuild the scores of a whole
history, wait for test data, poll another site, follow a feed of changes, turn a folder
of files into submissions, turn results into days of a streak. This directory models the core and these tasks,
model-checks them on small instances and proves part of them for every instance.

All source paths below are relative to `src/repo/judge/` unless they start
with `src/` or `docs/` (`src/repo/docs/`).

## 1. Inventory

### The judging pipeline

| Component | Source | State | Operations | Modules |
|---|---|---|---|---|
| Scheduler | `bridge/judge_list.py` | priority queue with `node_map`, `judges`, `submission_map`, `dispatch_ids`, one `RLock` | `judge`, `_handle_free_judge`, `register`, `remove`, `disconnect`, `update_problems`, `retry_queued`, `update_disable_judge`, `on_judge_free`, `defer`, `discard`, `abort`, `abort_problem` | `JudgeList`, `Scheduler` |
| Judge connection (partly) | `bridge/judge_handler.py` | `_working`, `_dispatch_id`, `_retry_request`, `_remote_preparing`, `_remote_run`, `is_disabled`, problem list | handshake, `submit`, the packet handlers, `release`, `_retry_remote_submission`, `on_disconnect`, `on_supported_problems` | `JudgeList` (the fields the scheduler uses), `Bridge` |
| Website side | `judgeapi.py`, `bridge/django_handler.py` | `Submission.status`, `batch_scoring['dispatch_id']` | `judge_submission`, `_send_submission` and its failure paths, `abort_submission`, `disconnect_judge`, `update_disable_judge` | `Bridge`, `Scheduler` |
| Bridge process | `bridge/daemon.py` | which rows a starting process still has to mark | start and restart | `Bridge` |
| Judge worker (external) | not in this repository | what it was sent and has not ended | acknowledge, prepare, begin, end | `Bridge` |

### Around the pipeline

| Component | Source | State | Operations | Modules |
|---|---|---|---|---|
| Subtask score rebuild | `tasks/subtask_scoring.py`, `utils/subtask_scoring.py` | cursor, pending submission and revision on the problem row | enable and disable, drain, dispatch, advance, publish | `SubtaskRebuild` |
| Storage readiness of a submission | `models/submission.py`, `tasks/storage.py` | retry key in the cache, marker on the row | `Submission.judge`, `storage_retry_judge_submission` | `SubtaskRebuild` |
| External judge | `external_judge.py`, `tasks/external_judge.py` | `ExternalSubmission` row | schedule, submit, poll, finalize | `ExternalJudge` |
| Test data lock and remote data (partly) | `utils/test_data_lock.py`, `views/problem_data.py`, `utils/remote_data.py`, `tasks/remote_data.py` | `is_locked`, dataset, files, manifest | edit, publish, unlock, poll | `TestData`; their effect on runs in `Bridge` |
| Storage synchronisation (partly) | `tasks/storage.py` | lease, cursor, projection | acquire, renew, fetch, apply, totals | `StorageSync` |
| Offline exams, participation | `utils/exam_offline.py`, `tasks/exam_offline.py`, `views/contests.py`, `views/problem.py` | current contest, active attempt | start, finish, expire, reveal, join, leave, submit | `Participation` |
| Batch submission | `views/batch_submit.py`, `tasks/batch_submit.py`, `utils/batch_submit.py` | item rows | upload, start, resume, admit, dispatch | `BatchSubmit`, `Participation` |
| Contest scoring (partly) | `contest_format/`, `models/submission.py`, `models/contest.py` | a row of the scoreboard | `update_contest`, `recompute_results`, five formats | `ContestScoring` |
| Conservative ranking | `utils/conservative.py`, `tasks/conservative.py` | generation and cursor, a score per submission | start, stop, build, schedule, refresh | `Conservative` |
| Streaks (partly) | `utils/streaks.py`, `tasks/streaks.py`, `utils/exam_offline.py` | ledger of results, best points, days, runs, row locks | record a result, publish at a reveal, award, retry | `Streaks` |
| Invocations | `utils/invocations.py`, `tasks/invocations.py`, `views/invocations.py` | items and their submissions, source files | create, dispatch, retry, hand over; upload, replace, delete | `Invocations`, `SourceFiles` |

**How they interact.** `judge_submission` commits a row with status QU and a fresh
dispatch id under the problem row lock and sends it to the bridge in an `on_commit`
callback. `DjangoHandler` calls `JudgeList.judge`, which queues the request or picks
a judge and calls `JudgeHandler.submit`. `submit` takes the problem row lock again,
compares the row with the token the scheduler expects, and answers: run started,
deferred (remote data not ready), invalid (drop the request) or connection failed.
Packets of the worker are each handled in one transaction; what concerns the
scheduler (free the slot, put the run back) happens in an `on_commit` callback
that takes the bridge lock *afterwards*. `on_disconnect` spreads over two
transactions and two lock sections. `unlock_tests` aborts rows in its transaction and
tells the bridge afterwards, best effort. A starting bridge marks every row in
progress IE before it listens.

Everything that starts a run (a form, a batch, an invocation, a rebuild, a retry for
restored data) ends in `Submission.judge`, and everything that ends one calls back: the
scoreboard and the conservative ranking are told after the commit. The problem row lock
orders judging against edits of the test data, the profile row lock orders exams,
contests and batches of one user, the row locks of the streaks order results, reveals and
awards, and revisions, generations, tokens and leases tell a
task whose work was superseded that it was.

**What is hard.** Every gap between a commit, its callback and the next lock section
is a place where another actor may rejudge, abort, unlock, disconnect or restart. The
socket requests of two runs may overtake each other, a request may time out and still
be served later, packets of an old run arrive after the row belongs to a newer one, and
the scheduler calls itself recursively when a send fails in the middle of a walk
over the queue. Celery delivers a task twice or loses its worker between two
transactions; a task waits for a network while its row is aborted, judged again or
superseded; several transactions lock rows of the same tables one by one; a write to a disk stays when the transaction around it is rolled back; a page
acts on what it read minutes ago. `PROJECT.json` lists these hazards at their lines.

**What makes it correct.**

* Scheduler: one queue node per submission; `submission_map` names the handler that
  works on the submission; directed and banned requests stay so; no idle judge beside work
  it could take; at most one worker per submission; a slot is freed when its run ends.
* Rows: a verdict was produced by the run the row stands for; a finished run keeps its
  status; the steps of the row are those of an abstract run; a row in progress always has
  somebody who will finish it; every run ends.
* Rebuild: the history is rejudged one by one and alone; published scores are of one
  generation; a late retry of an old rebuild disturbs nobody; a deferred run is retried.
* Data: judges only see what was published; a late poll acknowledges nothing else; a
  projection is that of its cursor; a source row has its file.
* Users: one activity at a time; what counts for an exam was submitted in its time; a
  file of a batch becomes one submission.
* Results: a stored result is of the current row of the remote site; scoreboard and
  conservative ranking are those of the results, and frozen columns show nothing later.
* Streaks: withheld results influence nothing public, every improvement counts once, the runs
  are the maximal intervals of the days, and no transactions wait for one another in a circle.

### Not modelled

| Component | Source | Why |
|---|---|---|
| Judging usage | `utils/judging_usage.py` | a buffer of floating point seconds in one connection thread, written by the transaction that ends a run: its control is that of the handlers in `Bridge` |
| Streaks: cutover, scoring generations, pages | `utils/streaks.py` | `initialize_streaks` and the baseline of a new generation run once, from a command or a save of the problem; the pages only read |
| Batch scoring | `utils/batch_scoring.py` | arithmetic on floating point scores, no concurrency, no state |
| Event server | `src/repo/websocket/` | a separate JavaScript process that fans out notifications; pages reload what they show |
| Packet framing, TCP server | `bridge/base_handler.py`, `bridge/server.py` | bytes and sockets; the effect is `pipe`: packets of a connection in order, one thread |
| Ratings, formats default, ultimate and ecoo | `ratings.py`, `contest_format/` | floating point formulas; see section 4 for what was seen in the formats |
| Archiving and eviction | `tasks/storage.py` | requests of an administrator that are forwarded to the storage service |
| Judge administration | `admin/runtime.py`, `views/` | forms; their effect is `DisableJudge` and `DisconnectRequest` of `Scheduler` |
| Web interface, imports, accounts, organizations, blogs, tickets | `views/`, `admin/`, `forms.py`, `models/`, `utils/polygon_import.py` | rendering, forms, permissions and single transactions without a protocol |

The last row is most of the repository. The modules stand for about 3,850 lines, a
thirteenth of the Python code; nearly all code in which two actors, two messages or two
transactions have to agree is among them, and nearly none of the rest is.

## 2. Modules

```
JudgeList ─────────────────── JudgeListProofs
     ├── Scheduler ───────────────── + ── SchedulerProofs
     │       └── MCScheduler  (scheduler_* runs)
     └── Bridge ──── INSTANCE SubmissionRun ── + ── BridgeProofs
             └── MCBridge     (bridge_* runs)

SubtaskRebuild ────────────────────────────── RebuildProofs ───┐
ExternalJudge, Invocations, Conservative ──── TaskProofs ──────┤
StorageSync, TestData, SourceFiles,
Participation, BatchSubmit, ContestScoring ── SiteProofs ──────┼── SetLemmas
Streaks ───────────────────────────────────── StreakProofs ────┤
     │                                        SchedulerProofs ─┘
     └── all eleven: MCSite (site run);  StorageSync: MCStorage (storage_cursor)
```

### JudgeList

Actions carry the names of the methods of the class. Three choices need explaining.

* **The lock.** Methods run under one `RLock` but are not atomic: between the steps
  of a holder, the database, the sockets and the threads that do not need the lock go on. A
  method's remaining work is the lock: `pend` is a `judge()` call that has yet to choose a
  judge, `scan`/`cur` a `_handle_free_judge` walk and the node it looks at next, `todo` the
  judges a loop over `self.judges` has still to offer. `LockFree` guards every
  acquisition. `owner` is the handler whose thread holds the lock; that thread reads
  no packet meanwhile (`Outside`).
* **The queue.** The linked list with one marker node per priority is the function
  `queue`, the sequence of nodes in front of each marker. `node_map` has exactly one
  entry per queued id if and only if `QueueUnique` holds, which is checked and proved.
* **Answers of `submit`.** The outcome and the token are parameters of `OfferNode` and
  `DispatchNew`. `Scheduler` leaves them open; `Bridge` computes them from the rows. What a
  refusal leaves behind on the handler (`Refuse`) is of no account while it is idle, but a busy handler
  can be offered work as well, by the unlocked test of `on_supported_problems`: then `_retry_request`, and
  `_dispatch_id` if the refusal came from `_submit`, are those of the submission it was offered last, and
  a failed send clears `_working`. `Admit` is the body of `judge`, which `defer` calls again with
  `retry_request`, whatever submission that is of.

Two abstractions: the judge of least load is any available judge, and the judges
offered again by nested failures inside a walk are merged into one set `todo`
(the order of offers is not part of any property).

### Scheduler

`JudgeList` in an open environment: any request of a menu arrives at any time, late or
twice; `submit` answers anything; runs end, judges fail, reconnect under the same name,
report other problems; administrators disable and enable judges. It is the module the
proofs are about, because its environment is weaker than any real one.

### SubmissionRun

The promise of the whole pipeline for one submission, in four actions: `Request` (a new
run after a final status), `Retry` (a run whose data could not be fetched is replaced
by a new one), `Advance` (QU, P, G only forward) and `Finish` (once, and a
verdict only from the worker of this run).

### Bridge

`JudgeList` composed with the rows, the web threads, the workers and the daemon. A
database transaction is one step. An `on_commit` callback that needs the bridge lock is a
later step (`after`), and so is each part of `on_disconnect`. `handoffs` are web
threads between commit and answer, including the requests they gave up on and the
bridge has still to read (`late`). `aborts` are web threads inside `abort_submission`.
`pipe` is the ordered stream of packets of each connection. `by` is a history variable: the
run whose worker produced the verdict in the row.

`Env` selects what the environment may do, so that each run explores a combination
of hazards completely: `rejudge`, `abort`, `unlock`, `timeout` (requests time out),
`overtake` (requests of two runs in either order), `crash` (of the bridge), `lost`
(connections and best-effort requests), `nodata` and `unready` (remote data missing at the
worker, or not ready at dispatch), `update` (`supported-problems` packets), `fault` (a
packet's transaction fails) and `badfiles` (a broken manual test file).

Left out of `Bridge`, and why: scores, test cases and usage totals (no control depends on
them); ping and load (load only ranks available judges); runs without a dispatch id
(every path of this repository issues one) and with them the wrong-acknowledgement path; the 20 s
acknowledgement timer (it closes the connection: `lost`); mirrored problems (one
problem owns all submissions); a crash of the web process between commit and callback
(listed as a hazard: no code recovers from it before the next restart of the bridge).

### SubtaskRebuild

`scoring` is the `subtask_score_*` columns of one problem, `rows` its submissions,
`rebuildJobs` the Celery messages and the `on_commit` callbacks that have not run,
`retryKeys` the cache. `RebuildStep`, `Dispatch` and `Publish` are the parts of
`rebuild_subtask_scores` between commits; a step that only waits and schedules itself
again changes nothing and is left out. `Submission.judge` finds the data on this host or at a
remote judge and claims the row (`ClaimRow`), or it finds them elsewhere (`JudgeUnready`): being
restored, when the row stays QU without a run and a retry is scheduled, or not to be had, when it becomes IE.
A call by a user or a form does not hold the problem lock and takes four steps:
`CheckAdmission`, `ReadRow`, `StorageAnswers` (the network, and the write of QU or IE over whatever the row
has become by then, except AB) and `QueueCall` (the claim, under the lock, where the row is read again). The rebuild's
`Dispatch` and `RestoreRetry`, which is `storage_retry_judge_submission`, hold the lock from the beginning in one
transaction, so that for them the whole call is one step (`JudgeSub`): nobody else claims the row
meanwhile, and a stale write of a call without the lock falls before or after it. `run` says that the bridge has a run
of the row; what happens to it there is the other half of this directory, and appears as
`Verdict`. The module is about `STORAGE_ENSURE_READY_ENABLED`, and `RebuildWorlds` selects
what a behaviour may meet: `restore`, `remote`, `redeliver`, `abort`, `lock`
(`locked_after` passes), `fail` (the broker or the task), `rejudge` (by users) and
`late` (ordinary runs between admission and bridge when the problem is paused).

### ExternalJudge

One submission to a problem of another site. `extTasks` are tasks and handoffs with the
run they are for and the point they have reached; every task is cut at its network call:
`SubmitStarts` and `SubmitAnswered`, `PollStarts`, `PollAnswered` and `Finalize`. The remote
site answers anything or nothing. `ExternalAbort` and `ExternalRejudge` are the
web threads. The result is one value (`D`, which stands for a compile error as
well), and `extBy` remembers whose it is.

### StorageSync

`syncTask` is the program counter of each worker of `storage_sync_catalog` with the
cursor it read and the end of its page. The feed is a constant and the service publishes a
longer and longer prefix of it; a problem's projection is the number of the last
change applied to it. A position of the feed may be about no problem of this site (`NoProblem`): a page of
these, or an empty page with a new cursor, moves the cursor and nothing else. A lease may run out at any time, or, with
`Overruns = FALSE`, only while its holder is not waiting for the service.

### TestData

The gate, the dataset in the database, the files on disk, the manifest, the snapshot of the
storage service and a poll of one problem. A digest is the content it is of.
An edit is one transaction, so its rows appear at once, in `PublishData`; its files are
written before (`SaveArchive`, `CompileData`) and stay when `EditFails`. `Upload` is the
storage service. `Bridge` sees the same gate and readiness from the side of the runs; the two are
not composed.

### Participation

One user with the rows that decide what a submission counts for. Each action is a
transaction under the profile lock, `pages` are what open pages and running requests have
read before it. `Settled` is `update_contest`, `Expired` is `expire_locked`, the first
things that many of them do. `BatchAdmit` is the contest half of the admission of a batch,
whose other half is `BatchSubmit`. Days and minutes are ticks of one clock.

### BatchSubmit

Rows of a batch, the messages of `run_submission_batch` and what each delivery of it is
doing: `NextRow`, `Admit` (one transaction under item and profile lock), `Refuse` (the
error, written afterwards) and `Send` (`judge()` after the commit). `Deliver` may take a message
without removing it. `DeliveryDies` is a worker that dies at any step.

### ContestScoring

When a row of the scoreboard is recomputed (`Graded` and the three steps of
`update_contest`, against `EndsUnscored`, which does not call it), and what `icpc`, `vnoj`,
`atcoder`, `legacy_ioi` and `voi` compute: operators on the list of runs, in whole points and
minutes. `board` is the list that the stored row was computed from.

### Conservative

`ranking` is the generation of a contest, `scores` the score of each run with its
generation and the run it is of. `queueing` is a transaction that holds a `Submission` row:
`BeginQueue` and `BeginEnd` read the generation, `Commit` releases the row and leaves the
callback. `builds` are deliveries of `build_conservative`: aborted rows first, then
pages of `BuildPage` rows, each row in its own transaction. `Calculated` is
what `calculate` makes of a run: only its status, since control depends on nothing else.

### Invocations and SourceFiles

`items` are the items of one invocation with the submission of each; `workers` are
deliveries of `dispatch_invocation` and of `storage_retry_judge_submission`, `atBridge` the tokens that have
arrived, `retries` the retry of each deferred run. `ensure` says what `Submission.judge`
does about the data, because this decides what happens to a run that was committed and never
handed over, and whether a row is deferred: "off" is `STORAGE_ENSURE_READY_ENABLED` off; otherwise the data
is here or is being restored ("restore"), or is here or only at a remote judge ("remote"), or now the one and now
the other ("both", which no run has: see section 4). `SourceFiles` is one file of the library:
the row, the disk, and the request between them.

### Streaks

One user with one offline attempt. A transaction is not one step here: `Statements` is the
list of what it locks, in the order of its statements, and `LockRow` locks the
next row, in the order in which a statement finds its rows, or waits for it. `holder` says
who has each row. When all rows of a transaction are locked its last action does the rest at
once: `RecordCompletion` (the end of a first run, with its event), `RevealEnds` (the reveal of
the attempt shows the submissions and compares what had waited), `DrainPublishes` and
the `Award…` actions (the two transactions of `process_event`). `Wanted` is what a transaction waits for,
so `NoLockCycle` speaks of real waits and not of an order somebody wrote down.
`drains` is a delivery of `drain_streak_work` with the events it has read, which may be old by
the time it gets to them. `due` is the list of events a worker may take, by the time since
which they are ready: what a retry makes ready comes last (`BecomeDue`), and what
a reveal makes ready may come anywhere (`Reordered`). `streakWorld` says what the submissions are (practice,
contest, offline), on which day each was sent, whether an earlier release had revealed the
attempt (`legacy`), and whether transactions fail.

### MCSite and MCStorage

The eleven modules share no variable. `MCSite` extends all of them and adds `live`: the one
component that moves in a behaviour. The run is the union of eleven
instances, not their product, and each of them is explored completely.
`MCStorage` is `StorageSync` alone, with `Overruns = TRUE`.

### Wrong variants

Definitions named `Bug…` are wrong variants of the definition after them (a forgotten offer,
a node left in the queue, a stale packet ignored, a state that is not read again under its
lock, …). Nothing uses them. Put in the place of the right definition, each
breaks the property that `PROJECT.json` pairs it with under `mutants`, which shows that the
property can fail.

## 3. Runs

`tlc -config <cfg> <module>`, in this directory. Times are for two workers.

| Run | Configuration | Question | Distinct states |
|---|---|---|---|
| scheduler_wakeup | a1 and its reconnection a2, b1; a new submission and a rejudge; one token; sends fail or are refused | `NoIdleJudgeWasted`, `SlotReleased`, `MapSound`, `OneWorkerPerSubmission` | 1,148,251 |
| scheduler_admin | judge A disabled and enabled, problem lists updated while it works, a directed, a banned and a low-priority request, refusals of every kind, deferrals | `TypeOK`, `QueueUnique`, `RunWhereAllowed` | 856,586 |
| bridge_lifecycle | a local and a remote judge, rejudge, unlock, lost connections, data missing at the worker, broken test files | `TypeOK`, `NoRunForgotten`, `SlotHeldByRun`, `RunsImplemented`, `QueuedTokenNeverGoesBack` | 1,455,705 (3 min) |
| bridge_restart | one remote judge, crashes, timeouts, failing transactions, lost connections, missing data, problem updates | `NoRunForgotten`, `RunsImplemented` | 27,796 |
| bridge_liveness | `FairSpec`, one remote judge, rejudge, abort, unlock, timeouts, missing data | `VerdictOfCurrentRun`, `EveryRunEnds` | 94,260 |
| site | the eleven components, one at a time | 20 invariants, 3 action properties and `SiteProgress`, listed below | 445,648 (4 min) |
| scheduler_toggle | a judge is disabled | `NoIdleJudgeWasted` is violated | |
| bridge_slot_leak | three local judges, a rejudge | `SlotHeldByRun` is violated | |
| bridge_overtaken | two requests overtake each other | `QueuedTokenNeverGoesBack` is violated | |
| bridge_abort_final | an abort | `FinalIsFinal` is violated | |
| bridge_double_dispatch | a worker that does not echo dispatch ids, `supported-problems` | `VerdictOfCurrentRun` is violated | |
| storage_cursor | two workers, a lease that runs out during a request | `CursorMovesWithBatch` is violated | |

The properties of the run `site`, by component:

| Component | Property | Says |
|---|---|---|
| Rebuild | `OnlyPendingRuns` | after the drain only the pending submission has a run at the judges |
| | `PublishedIsOneGeneration` | public cumulative scores are of submissions judged in one generation |
| | `UnlockedWhenIdle` | the old rule comes back when nothing is being judged |
| | `OldRetrySparesRuns` | a retry of a rebuild that is over changes no row with a run |
| | `DeferredRunIsRetriedInTime` | a run that waits for data has somebody who will try again |
| External judge | `ResultOfCurrentRow` | a result is that of the external row in the database |
| Catalog | `ProjectionMatchesCursor` | the projection is that of the changes before the cursor |
| Test data | `GateOpensOnPublished` | judging is open only on what the manifest describes |
| | `RemoteDataReady` | what is acknowledged is the current manifest, and is at the storage |
| Participation | `OneActivity` | no contest during an exam, no exam that is over |
| | `AttemptSubmissions` | what counts for an attempt was made in its time, and is hidden until it is revealed |
| | `StaleRequestsAreHarmless` | the form of an old page counts for the attempt it was opened in, or fails; a request that read a finished participation ends no newer one |
| Batch | `OneSubmissionPerFile` | a file becomes at most one submission, and its row knows |
| Scoreboard | `FrozenShowsFreeze` | frozen columns are those of the runs before the freeze |
| | `BoardIsCurrent` | at rest the stored row is that of the runs as they are |
| Conservative | `ScoreOfCurrentRun` | a valid score is of the run that its submission shows |
| | `RankingIsComplete` | a ranking that is on lacks no score that nobody works on |
| Invocations | `SentRunIsOnItsWay` | an item marked as sent has a run that somebody drives, or waits for data with a retry to come |
| | `SourceFileExists` | a source row has its file |
| Streaks | `LedgerIsPublic` | the best points are those of the results that were public when compared, each compared once |
| | `StreaksAreRuns` | days are those of the improvements, runs their maximal intervals, the summary that of the runs |
| | `NoLockCycle` | no set of transactions waits in a circle |
| six of them | `SiteProgress` | what was begun settles |

**Bounds of the pipeline.** `Conns`, `Subs`, `Tokens` and `Menu` are the only ones. Every race of this
code is between two runs of *one* submission, or about which of two judges a
request goes to: two tokens give an old and a new run, two submissions let one request
wait behind another, and two connections of one name give a reconnection. A connection
may close and open again, so a few handler objects stand for any number of them. The
reservation of a judge for new submissions needs two enabled judges. The tokens are
numbers in the order of issue only so that a property can say "older"; the code compares
them for equality, and so do all guards. Tokens bound the number of runs:
`JudgeSubmission` and the retry of a remote run need a fresh one, and a worker reports
missing data only while one is left.

scheduler_wakeup has one token, no deferral and no disabling on purpose: with
two tokens the slot of finding 2 is lost, a deferred request waits for the periodic wake-up,
which `Quiet` does not count, and disabling a judge is finding 1. Within these limits the
scheduler itself offers every request that could run.

**Bounds of the site.** Two of whatever races: submissions of a rebuild (one judged while
the other waits) and revisions (one superseded), deliveries of a task, builds, generations,
joins, attempts, files of the same user (so that the second meets the queue limit of the
first), scoreboard entries before and after the freeze, and three judgings of an external
submission (a row is deleted and made again twice). One submission of a user is enough
for `Participation`, whose properties are about each submission alone. Four positions of the feed name
one problem twice, so that a page skipped or applied twice is seen, and nobody's problem once. One item
of an invocation with two tokens meets two workers, two deliveries and a retry; two items were run on their own (1.6
million states), and the theorem is about any number. Three datasets let a poll be
late by two manifests. The streaks have three submissions to two problems, one of them with two
subtasks, two workers, and a batch of one event, since a worker shows an old list by coming late to
its only entry. Each of the six worlds of `MCStreakWorlds` is one story: a reveal between gradings
with a worker behind it, improvements of days 1, 3 and 2 (a run is extended and two are joined), a
contest that is hidden and shown, events of an earlier reveal with two workers, a reveal on a later
day, and failing transactions. The clock has three ticks, with the end of the contest in the
middle. `RebuildWorlds`, `ScoreWorlds`, `EditFaults`, `BusyRows` and `EnsureReady` let
each behaviour meet one combination of hazards; all combinations listed in `MCSite` and
`Site.cfg` are explored in the same run. Every action occurs.

**Deadlock.** The Scheduler runs check it. The other runs do not: when all runs
are final and no token is left, all revisions used or the clock at its end, the system may stop.

**Safety in `Bridge` is checked per environment.** An environment with every hazard is
beyond a few minutes; each run takes the hazards that interact. `SlotHeldByRun`
holds in bridge_lifecycle and fails with three judges (finding below), with `update` and
with `fault`: a packet's failing transaction takes the release with it.

**Fairness** (`FairSpec` of `Bridge`). Weak fairness of bridge threads, web threads, `on_commit`
callbacks, packet delivery on open connections and worker progress: threads are
scheduled and the code has no unbounded wait under the lock. Weak fairness of
`SyncRemoteData` (Celery beat runs it periodically), `OnRetryQueued`
(`threading.Timer`), `RetryWindowEnds` (a deadline passes) and `Handshake` (a worker
reconnects forever), and of `Apply` (an unlocked problem is eventually locked again: an
administrator's step, without which a locked-out run would wait by design). No fairness of
rejudge, abort, unlock or loss. `EveryRunEnds` therefore says that the code
itself drops no run: the deferral of a remote run, the queue, the periodic wake-up and the
release of the slot by the stale packet of a cancelled run together lead to an end.

**Fairness of the site** (`SiteSpec`). Weak fairness of what runs by itself: Celery tasks
that are queued, the steps of a task that has begun, the judges' verdicts, the storage
service's uploads, the periodic polls and expiries, and the clock. Since `live` never changes, weak fairness
of a disjunction over the components (`Fair1` … `Fair4`) is weak fairness of the disjunct of
the component that moves; several disjunctions keep the steps of one component apart. The streaks are
followed in the worlds with failures or with events of an earlier release: workers run, due times arrive,
gradings and reveals that have begun go on. The fairness of a batch ends with
the loss of a run, which only an operator repairs. Nothing
is assumed of users, administrators, failures or deaths. `SiteProgress` is then: a rebuild
or a stop of it ends (in the world in which no message is lost and nobody else asks for
runs: a lost message is an operator's matter there), an external
submission becomes final, a problem that is open for judging is acknowledged at the
storage or unlocked, an attempt ends, every row of a started batch is decided unless
its message was lost, and no public result waits for ever to be counted.

## 4. What the violated runs show

Each is a disagreement between the code and its own comment, doc or test; the quotes
are in `PROJECT.json`.

1. **An idle judge waits beside a queued rejudge** (`bridge/judge_list.py:134`). The
   reservation counts *enabled* judges; `remove` offers work to the last judge left, but
   `update_disable_judge(name, True)` does not.
2. **A slot is never freed** (`bridge/judge_list.py:157`). The rejudge of a running
   submission waits in the queue, a third judge that becomes free takes it and
   overwrites `submission_map`; when the old run ends, `on_judge_free` finds another judge
   there and returns with `_working` set.
3. **An older request replaces a newer token** (`bridge/judge_list.py:204`). `judge` has no
   order between two runs of one submission; the newer run stays QU with nobody to start it.
4. **A finished run becomes AB** (`judgeapi.py:238`). `abort_submission` writes on the
   ground of a status it read before a network round trip.
5. **The verdict of run 1 is stored for run 2** (`bridge/judge_handler.py:615`).
   `working` is tested outside the lock; a worker without dispatch ids that is
   given a second run answers for both.
6. **The cursor of the catalog goes back** (`tasks/storage.py:462`). The status row is read
   before a request to the storage service and saved as a whole after it, without the lease;
   another worker may have committed a batch meanwhile.

Met while modelling, without a run of their own:

* The unlocked test of finding 5 also offers a busy judge *another* submission, and a refusal leaves traces on its handler.
  `_retry_request` is then that of the second submission (`bridge/judge_list.py:62`): when the data of the first run turn out
  to be missing, `defer` judges the second one again, under the new token of the first (`bridge/judge_list.py:119-127`);
  the second is dropped as invalid, and nobody queues the first. If the refusal came from `_submit`, `_dispatch_id` is overwritten
  (`bridge/judge_handler.py:324`), the packets of the first run are taken for stale ones, and its row stays in
  progress. TLC finds `NoRunForgotten` violated with one remote judge and two submissions. A failed send
  clears `_working` (`bridge/judge_handler.py:449`), and `submission_map` goes on naming a handler that is gone.
  The proofs assume `NoUpdate` for this (section 5).
* After `unlock_tests` and a restart, a row that was listed in progress and has become AB is
  overwritten with IE (`bridge/daemon.py:26`), the same kind of stale write as 4.
* A run of a remote judge may be given to two judges. Run 1 is requeued as run 2 and its `defer` is due;
  an unlock, its end and a rejudge make run 3, which is queued since the map still names the first judge; `defer`
  finds it queued and leaves `dispatch_ids` empty (`bridge/judge_list.py:115-129`). Two more unlocks and
  rejudges make runs 4 and 5, whose requests are on their way when a second judge is
  offered the entry: with nothing expected, `submit` takes the row's run 5
  (`bridge/judge_handler.py:364-366`). Request 4 is queued, refused to a third judge as old, and its refusal clears the
  map; request 5 finds no entry and is given a second time. Both judges then report
  the same run, and its row may go from G back to P. The trace has some fifty steps; TLC reproduces it when led
  along it. It is why the proofs assume `Orderly` (section 5).
* The frozen columns of `icpc` leave a problem out whose best run is after the freeze, and
  with it the partial points the user had before it. `FrozenShowsFreeze` is therefore
  stated for all-or-nothing points.
* A rejudge that ends in CE or IE keeps the old `ContestSubmission.points`; the next
  recomputation counts the points with no tries at all, which is a negative
  penalty. An abort changes the tries without a recomputation. `BoardIsCurrent` excludes both
  (worlds `rejudge`, `abort`).
* Two results of one participation stored at the same time may lose one update of its row:
  `recompute_results` reads and saves without a lock (world `overlap`).
* The formats `default` and `ultimate` use the date of the last run even if it was a compile error, and
  `ecoo` counts runs without a result: their row changes without a recomputation.
* With `STORAGE_ENSURE_READY_ENABLED` an invocation item whose worker died between claim and
  handoff stays in P and "Retry dispatch" does not take it again; a queued one
  gets a new token, where `docs/invocations.md:83-84` says that the old one is used.
* The error of a stale task of the external judge ends whatever run is in progress:
  `set_external_submission_error` does not compare the run.
* A first result that is being graded when the scoring generation of its problem changes is in
  neither the new baseline, which is made of what is final (`utils/streaks.py:84-89`), nor in
  its ledger, which takes results of its own generation only (`utils/streaks.py:139-142`).
* If the data of a problem are now being restored and now only at a remote judge ("both"), an invocation item may be left to nobody: a
  run that failed keeps its token, "Retry dispatch" defers it (`models/submission.py:289-299`: QU, with the old token), and the
  retry, which finds the data at a remote judge, takes the queued row with a token for one that is on its way
  (`judgeapi.py:126-128`). `SentRunIsOnItsWay` is stated for problems that do one or the other.
  It further takes for granted that the broker accepts a retry and that the transaction which set the key of the retry commits: the cache is
  not rolled back, and a later call finds the key and schedules nothing until it expires. A retry that finds the
  problem closed to judging ends without another (`tasks/storage.py:684-688`): the item then waits for "Retry dispatch", and
  the property lets it.
* A deferred run may be left without a retry when an ordinary `judge()` was admitted before a
  problem was paused, or when one call defers the run and another finds it remote.
  `DeferredRunIsRetriedInTime` excludes these worlds (`late`, `remote`).
* `Submission.judge` reads the status, asks the storage over the network and then writes QU or IE, without the problem
  lock, over everything but AB (`models/submission.py:222`, `248`, `297-314`). Meanwhile another call may have claimed
  the row: its run goes on at the judges behind a row that is IE, or QU without a run, and the drain of a rebuild does not see
  it. With restores and rejudges by hand TLC finds `OnlyPendingRuns`, `UnlockedWhenIdle` and `OldRetrySparesRuns`
  violated with two submissions; with restores, aborts and calls from before the pause, the first two (a submission is aborted while
  its first call asks, the rebuild judges it, the old answer arrives). `PublishedIsOneGeneration` holds in both.
* A row in QU may also have a run because it was sent to a remote judge and has not been offered to one yet. `judge()`
  leaves only P and G alone (`models/submission.py:222`), so that a rejudge which finds no remote judge
  for the problem defers the row, and after its last attempt the row becomes IE while its run goes on. The theorems
  exclude all these worlds (`OneHazard`, section 5). The site run has `restore` with `remote`, where
  without a rejudge the properties hold.
* `remove` frees the submission of a judge that is lost but offers work only if exactly one judge is left
  (`bridge/judge_list.py:137-149`). A rejudge that was queued behind the lost run, and that nobody could
  take while the map named the judge, waits beside two idle judges until another one becomes free. TLC finds it
  with three judges and two tokens, which `NoJudgeIsWasted` excludes (section 5).
* The reservation counts *enabled* judges, the choice of a judge counts *candidates*: a rejudge banned from
  one of two idle judges while a third is busy finds two candidates of which one is free, and is queued for it to stay
  reserved (`bridge/judge_list.py:217-229`); but with two idle judges nothing need be reserved.

## 5. Proofs

`tlapm <module>Proofs.tla` (and `SetLemmas`) checks every leaf.

| Module | Theorem | Statement |
|---|---|---|
| `SchedulerProofs` | `TypeCorrect` | `Spec => []TypeOK` |
| | `QueueIsUnique` | `Spec => []QueueUnique` |
| | `MapIsSound` | `ASSUME Updaters = {} PROVE Spec => []MapSound` |
| | `RunsWhereAllowed` | `Spec => []RunWhereAllowed` |
| | `SlotsAreReleased` | `ASSUME OneToken PROVE Spec => []SlotReleased` |
| | `WorkersAreSingle` | `ASSUME OneToken PROVE Spec => []OneWorkerPerSubmission` |
| | `NoJudgeIsWasted` | `ASSUME Uniform PROVE Spec => []NoIdleJudgeWasted` |
| `RebuildProofs` | `HistoryIsRejudgedAlone` | `ASSUME OneHazard PROVE RebuildSpec => []OnlyPendingRuns` |
| | `ScoresAreOfOneGeneration` | `ASSUME OneHazard PROVE RebuildSpec => []PublishedIsOneGeneration` |
| | `TestsAreUnlockedWhenIdle` | `ASSUME OneHazard PROVE RebuildSpec => UnlockedWhenIdle` |
| | `OldRetriesSpareRuns` | `ASSUME OneHazard PROVE RebuildSpec => OldRetrySparesRuns` |
| | `DeferredRunsAreRetried` | `ASSUME OneHazard PROVE RebuildSpec => []DeferredRunIsRetriedInTime` |
| `TaskProofs` | `ResultIsOfCurrentRow` | `ExternalSpec => []ResultOfCurrentRow` |
| | `SentRunsAreOnTheirWay` | `ASSUME "both" \notin EnsureReady PROVE InvSpec => []SentRunIsOnItsWay` |
| | `ScoresAreOfCurrentRuns` | `RankSpec => []ScoreOfCurrentRun` |
| | `RankingCompletes` | `RankSpec => []RankingIsComplete` |
| `SiteProofs` | `SourceFilesExist` | `SourceSpec => []SourceFileExists` |
| | `JudgingIsOnPublishedData` | `DataSpec => []GateOpensOnPublished` |
| | `AcknowledgedDataAreReady` | `DataSpec => []RemoteDataReady` |
| | `ProjectionIsOfCursor` | `ASSUME Overruns = FALSE PROVE SyncSpec => []ProjectionMatchesCursor` |
| | `OnlyBatchesMoveTheCursor` | `ASSUME Overruns = FALSE PROVE SyncSpec => CursorMovesWithBatch` |
| | `UserHasOneActivity` | `PartSpec => []OneActivity` |
| | `AttemptsKeepTheirTime` | `PartSpec => []AttemptSubmissions` |
| | `StaleRequestsDoNoHarm` | `PartSpec => StaleRequestsAreHarmless` |
| | `FilesAreSubmittedOnce` | `BatchSpec => []OneSubmissionPerFile` |
| | `BoardsAreCurrent` | `ScoringSpec => []BoardIsCurrent` |
| | `FrozenBoardsShowFreeze` | `ScoringSpec => []FrozenShowsFreeze` |
| `StreakProofs` | `NobodyWaitsInCircle` | `StreakSpec => []NoLockCycle` |
| | `LedgerStaysPublic` | `StreakSpec => []LedgerIsPublic` |
| | `StreaksStayRuns` | `StreakSpec => []StreaksAreRuns` |
| `BridgeProofs` | `BridgeTypeCorrect` | `Spec => []TypeOK` |
| | `VerdictsAreCurrent` | `ASSUME RunsTold PROVE Spec => []VerdictOfCurrentRun` |
| | `RunsAreGivenOnce` | `ASSUME Orderly PROVE Spec => []OnceGiven` |
| | `QueuedTokensGrow` | `ASSUME Orderly PROVE Spec => QueuedTokenNeverGoesBack` |
| | `RunsAreImplemented` | `ASSUME Orderly, NoOverwrite PROVE Spec => RunsImplemented` |
| | `NoRunIsForgotten` | `ASSUME Orderly PROVE Spec => []NoRunForgotten` |
| | `SlotsAreHeldByRuns` | `ASSUME NoUpdate, Once PROVE Spec => []SlotHeldByRun` |

They hold for every value of the constants: any number of connections, submissions,
tokens, workers, revisions, changes, files, attempts, problems, subtasks and days. Besides the assumptions
in the table they use the named `ASSUME`s of the modules, which only type the constants
and keep the "nothing" values apart.

**The scheduler.** `TypeOK` is not inductive: `defer` judges `retry_request` again, which is a request
(not `None`) because whoever works was offered one (`RetryKept`). `QueueUnique` needs the request being placed to be
absent from the queue (`pend` in `JLUnique`); `judge` sees to it for whatever request it is called with. So
`JLInv == JLTypeOK /\ JLUnique /\ RetryKept`, and `IInv` adds the types of `Scheduler`'s own variables. That the request is
the one of the submission the handler works on (`RetrySame`) is not true with `Updaters`, and belongs to `JLMap`.

`MapSound` needs `JLMap`: entries name working, live handlers (`MapEntries`), nobody
is offered work while busy (`ScanIdle`, `checked = {}`), a `judge` call and a walk are never
under way together (`OneCall`), listed handlers are live (`ListLive`), a handler that is
not connected does not work (`OffIdle`), one that has left is in no entry
(`GoneUnmapped`), and who works was offered this very submission last (`RetrySame`). The hypothesis `Updaters = {}` excludes exactly the unlocked test
of finding 5, which breaks `ScanIdle`. It is necessary: with `Updaters = {a1}` TLC finds a
handler given a second submission while the entry of the first still names it.

`RunWhereAllowed` has no hypothesis, so it must bear a handler that puts back the request of another submission. Whatever is
queued, being placed or kept by a handler is a request that was made (`FromMenu`): `defer` puts back one that was, with all its
restrictions, although perhaps not that of the run that ended. The two places that start a run both test `Eligible` on
the very request whose submission becomes the work, and nothing else touches what a handler works on, except to clear it.

`SlotsAreReleased` and `WorkersAreSingle` assume `OneToken`: all requests of a submission carry the same
token, that is, no submission is rejudged while a run of it is known to the scheduler. `SlotInv` says that a
connected handler's work is entered in the map under its name (`Mapped`), and that nothing queued or being
placed has a worker (`QueueUnworked`, `PendUnworked`). `judge` keeps this because a request with the token of the
run in progress is dropped (`OwnRun`), `defer` because it takes the worker away first. The converse, that every
entry of the map has a worker, is `MapSound`; it fails with `Updaters`, and these two theorems do without it.
With two tokens TLC finds both properties violated with two connections (finding 2).

`NoJudgeIsWasted` is about the heuristic of one reserved judge. Between two steps of a walk it does
not hold, so `OfferInv` speaks of the idle judges nobody is about to offer work to (`Unoffered`): what they could
take are rejudges, there is at most one such judge, and it is not the only one listed, or a judge has left the
list and its `remove` is to come (`Leaving`): `discard` shortens the list without an offer. A walk that refuses
everything has shown this for its judge (`OfferNothing_Offer`); a placement that fails had two
idle judges to choose from, so that the queue held nothing for them; a run of a judge that becomes free is followed by a walk
for it; a deferral starts the timer, which promises a walk for all. `Uniform` is what this argument needs: `OneToken`,
nobody disabled, nobody updating, nothing refused as "deferred" or "unready", one inventory, and requests that are neither
directed nor banned from a judge. For each of the first five, TLC finds the property violated without it:
with two tokens, with `Togglable = {A}` (finding 1), with `Updaters = {b1}`, with "deferred" answers,
with two inventories; and with three judges and a rejudge banned from one of them.

**The bridge.** `Spec` here is the composition: rows, web threads, scheduler, handlers, callbacks,
workers and daemon. The lemmas `<method>_JLInv` and `<method>_JLMap` of `JudgeListProofs` are used
again, since `Bridge` calls the same methods. Everything rests on `BaseInv`: the types, the invariants of the
queue, and where tokens come from. Every token in a row, a request, the scheduler, a handler, a worker, a
packet or a callback was issued for its submission, and that of a row is the newest (`TokensIssued`); a
packet that names a run names the one its worker judges (`EchoTrue`); only remote judges
prepare, and callbacks belong to handlers whose socket was in use (`RemoteOnly`).
`TypeOK` needs it because `submit` sends the token of the row: a row that waits has one (`ListTokens`).
The hypotheses are about `Env`, `Remote` and `Echo`, each excludes something the code gets wrong:

* `RunsTold` (`update` only with judges that name their run). A verdict is right because the packet names the
  run the row shows, or because its handler has one run at a time and nothing of an older one is
  in its pipe (`SoleRuns`). The second is what finding 5 breaks.
* `Orderly` (`NoUpdate`; requests of a submission are not overtaken; no `unlock` or `abort` beside remote
  judges). `GivenOnce` says that runs are handed over in the order of their tokens: a run that
  is asked for or waits is newer than every run given to a judge, no two judges have the
  same one, and a run that a callback will put back is the current one and known to nobody else (`Kept`). It
  needs that a run has one web thread and that a starting bridge serves nobody (`WebInv`).
  Finding 3 is what `overtake` does; the rest is under "Met while modelling" in section 4.
* `NoOverwrite` (no `abort`, and `unlock` and `crash` not together): findings 4 and the first note
  under it.
* `NoUpdate` (no `update`): a busy judge is then offered nothing, and `JLMap` holds, as for `MapSound`. Without it
  a deferral may put back another submission's request (the first note under "Met while modelling").
* `Once` (no `rejudge`, no `fault`): finding 2 is what a rejudge does with three judges, and the transaction
  of a last packet that is rolled back takes the release of the slot with it.

For the refinement, `RowStep` lists what a step may write to a row and on what grounds, in any environment.
Each alternative is a step of `SubmissionRun` except two: `ack` after `begin`, which would move a row from
G to P, and a write over a final status. The first is excluded by `PacketOrder` (a worker's
`ack` of a run comes before its other packets, and a row that is in G has no `ack` of its run left
to send or to read, on any connection); the second by `BootInv` (a
row a starting bridge has still to mark is in progress or IE, and no packet is under way).

`NoRunForgotten` is not inductive at all: "somebody will act" must become "somebody will act *on this
run*, and will not be refused". `AllDriven` gives each run in progress a driver: a request, its place in the
queue with its own token expected (`Expected`, else `submit` would drop it as old), a judge that
the map names (`Judged`, else `on_judge_free` and `defer` would leave it alone), a callback of the handler
the map names (`Returned`), the starting bridge, or an abort to be written. Each lemma `<action>_Driver`
shows that the driver stays, hands the run on, or ends it; `OneDriver`, from `GivenOnce`, that a run has
only one, so that a step taken for another run does not take it away. Two more facts are needed:
a handler is only freed of a run that is over (`ReleaseOver`), and a problem that is being edited has no
run in progress (`Locked`), since `submit` would refuse it.

`SlotHeldByRun` relates a handler to what its worker has not yet said, through a pipe that may lose its
connection. `HandlerInv` strengthens it per handler: a worker has a run once and ends it
once (`JobsOnce`), the map names the handler, and what holds the slot is a job or a terminal packet *of the handler's
own run*, or a callback for its submission (`Held`). A packet in the pipe releases the slot only if the handler does not
take it for a stray one, hence the flags of a remote judge (`Preparing`): while the data of its run are
prepared, an "unavailable" will be heard, and the row has not begun (`NotBegun`). `SubInv` says why no
slot is taken over: a submission that waits or is asked for is worked on by nobody, and as long as that is
so, or a callback will put it back, no worker and no packet has a trace of the row's current run (`Untouched`),
which `submit` hands over later. `AskedOnce`: it has one web thread, and none while it
waits. Aborts, unlocks, overtaking requests, time-outs, crashes and lost connections are all allowed here:
without a rejudge, a new run only comes from a deferral, which has freed the worker first.

TLC checked each of these invariants on the runs' configurations before it was proved, `HeldInv` on one of its own
(bridge_lifecycle's judges, three tokens, every event but `rejudge`, `fault` and `update`; 1.5 million states).
bridge_restart satisfies the hypotheses of the first two theorems, and those of the next four but for `NoUpdate`; bridge_lifecycle, with a remote
judge and unlocks, those of the first two, so that there the others are model-checked outside `Orderly`, and
`SlotHeldByRun`, beside a rejudge with two judges, outside `Once`.

**The rebuild.** The first four theorems share `RebuildInv`. `RunFits`: only a row in progress has
a run, and where data is restored only a claimed one (P), so that a row deferred with QU has
none. `ScoringFits`: while a rebuild goes on (`Advancing`), every submission up to the cursor
that has a result is of this generation, no submission lies between the cursor and the pending
one or beyond the ceiling, and after the drain no other one has a run; in `ON`
every result and every run is of the generation that was published; before `OFF` no
run is left. `JobFits`: a message names a submission that exists and a generation that has begun,
and one that will publish is of a rebuild that has come to its end.

A call without the lock may write QU or IE over a row that has a run, and then `RunFits` is lost. `CallFits` says why it does
not in the worlds of the theorems: where data is restored, such a call is the first of its submission, which has no run, and nobody else
calls or retries for the row; it is over when the drain is, since a row in QU is waited for. `OneHazard`
describes these worlds: beside `restore` there is no rejudge by hand, no remote judge, and
not both aborts and calls from before a pause (an aborted row is not waited for). Without `restore` nothing is
assumed. Each of the three excluded combinations breaks properties, the one with `remote` only together with `rejudge`
(section 4); what the site run explores of `restore` with `remote` is model-checked only.

`DeferredRunsAreRetried` rests on the same hypothesis and on both invariants; the worlds that its property leaves out keep what
they are, and where nothing is restored there are no keys (`KeysInv`). It is not inductive, since a retry may be there and be dropped. `WaitInv` says of every row in QU that it
has a retry which will not be dropped, an ordinary one or one of the rebuild that deferred it, or a call that ignores the lock of
the row while the problem is not paused (`RowWaits`); and that the key which keeps a second retry from being scheduled is
there only together with such a retry, or on an aborted row, which nobody judges but a rejudge that
clears it. A rebuild that begins must not find a call of before the pause (`JobWaits`: at a pause, whoever
is admitted works for the rebuild), and its `dispatch` must not meet a retry of another marker behind the key: after the
drain only the pending row is in progress, and only once it is dispatched (`OneActive`).

**Tasks.** For the external judge the type and the property are inductive together. For invocations the
property speaks of items that are marked as sent, and "Retry dispatch" unmarks them: the proof says the same of every row
in progress that `judge()` would take for one on its way, marked or not (`UnsettledOnWay`): one
with a token while the readiness of data is ensured. A row in P was claimed under such a setting and has a token (`ClaimsHaveTokens`),
what a worker holds belongs to an item (`InHand`), and only where data is restored is there a retry
(`OnlyRestoresRetry`), so that it does not end at a remote judge: this is what excludes "both". For the conservative ranking: a transaction that holds a row with
a score of the current generation has seen this generation (`TxnKnowsScore`), so that it
will take the score away; generations named by tasks, builds and scores have begun.

`RankingIsComplete` needs an account of every row (`CompInv`). A row is `Covered` when its result has a score of
the generation in force, or a message that will bring one; a `refresh` of an older generation does not count. The
build of this generation keeps a promise (`BuildCovers`): what it has behind its cursor is covered, so is
what it skipped on its page, and at its end everything is, while rows beyond the cutoff are covered by the
callbacks of their own runs. A duplicate delivery keeps the same promise, from the stored cursor, and neither
can undo what the other has covered: one row's step leaves the other rows covered (`RowStep`). Two facts make
that go through: a row with a message of this generation has a score of it (`RowFits`), so that a
failure is recorded on the row and not lost; and a score that says "no result yet" on a row with one
leaves the `schedule` of the run's end to come. A generation that begins covers nothing, owes
everything up to the highest row, and finds no trace of itself (`RevsBegun`).

**The site: storage.** For the files of the library: between the steps of a request the new
file is not the old one, and the file to be cleaned up is not that of the row
(`WritesApart`). For the test data: an edit that does not fail late leaves the `init.yml` of its
own archive behind (`EditIsOfArchive`), and a poll works for the files on disk or for
older ones, never for a dataset to come (`PollIsNotAhead`). For the catalog: the worker that holds a lease
in force has read the committed cursor and its page begins there (`CursorIsRead`,
`PageIsAhead`), and who waits for the service holds it (`WaitingHolds`), which is where
`Overruns = FALSE` is used; finding 6 shows that it is needed for the cursor.

**The site: admission.** `PartInv` adds to the property that every submission of an attempt fits the
attempt as it is *now* (`Fits`): closing and revealing attempts keeps the fit.
`BatchInv` adds that a delivery judges only a row whose submission exists (`DeliveryFits`).

**The site: scoreboards.** A stored row is a row of the submissions its transaction read; others may have come
or ended without a score since. `Later` says that a list of submissions differs from an older one by
such changes only, `LaterRows` that neither changes the row in any of the modelled formats: a submission without
a score counts for no maximum, no first best time and no try, and each format sums over
the problems that have one. `ScoreInv` adds that what a storing transaction has read is older in this sense than
what there is now, which needs that such transactions do not overlap (the world of the property; section 4 says what an
overlap does), and that so is the stored row when none is under way. For the frozen columns, a problem with
a full score before the freeze keeps its best points and its first time whatever
comes later (`FrozenProblem`), and the partial points that break this (section 4) are what
`AllOrNothing` excludes.

**Streaks: locks.** Rows are ordered by table (`LevelOf`: problem, submission, summary, event, progress) and,
in a table, by key (`Before`). `HeldBeforeWanted` is the heart: whatever a transaction waits for comes after
everything it holds. Then, of the rows a circle waits for, take the last one: its holder waits for a
later one of them (`NoCircle`). The model knows no such order, only statements, so the lemma needs to
know what is held at every moment (`LockOrder`): a grading and an award hold a beginning of
their chain, and what a reveal or a publishing worker holds has no gap: an event is held only with
all older waiting ones, a progress only with all smaller ones it needs (`PublishHolds`). That such gaps do
not open *while* the transaction waits is the hard part: others add events meanwhile.
`EventOrder` says that a new event has a greater key than all others, and `Release` that a transaction
only changes events it holds, so that the set a reveal still has to lock changes at its far end only.

**Streaks: the ledger.** `LedgerAdds`: the best points of a subtask are the maximum of the seed and of the results
that were compared (`applied`), and what the compared events gained adds up to what the best points grew by.
A transaction compares a set of events at once, in the order of their ids, and writes to each the
total before and after it. `Compares` states what such a transaction does as a
whole; that it holds of a grading is immediate, of a reveal and of a publishing worker it needs the sum of the steps
to be the difference of the ends (`SumTelescopes`) over ids that are not consecutive. `Withholds`: nothing is compared
before it is public, and the result of an offline attempt carries the day of its reveal. `RevealHolds`: a reveal
has locked every row of one statement before the first of the next, so that the events it settles are all
that wait; without it an event graded in between would keep its own day. `AwardsFit`: awards, days and
events that gained and were settled correspond. `RunsFit`: the stored streaks are the
maximal intervals of days, and the summary has the last day, the longest run and the length of the run that ends on the last day;
`record_activity` keeps it by joining the run before a new day and the run after it.

**How the proofs are laid out.** The first part of `JudgeListProofs` says what `RemoveAt`, `Link` and `Unlink` do
to the ids of the queue. `SetLemmas` has what the modules' `CHOOSE`s and folds over finite sets take: least and
greatest elements, `Max` and `Min`, and sums. The community `SumFunctionOnSet` is a recursion over sets, about which
no induction theorem can be instantiated here; the lemmas use that the subset relation on finite sets has no
infinite descent (a smallest counterexample exists, `SmallestSet`) to show that the recursion has exactly one
solution, then that a sum splits at any element (`SumWithout`) and over disjoint sets (`SumOfUnion`).
`JudgeListProofs` has, for
every method, a lemma `<method>_JLInv` and a lemma `<method>_JLMap`, independent of who
calls it; `SchedulerProofs` combines them. The other modules have one lemma
`<action>_<Inv>` per action, and one per shape of step that several actions have.

**Only model-checked.** `SlotHeldByRun` of `Bridge` beside rejudges: it holds with two judges
(bridge_lifecycle) and fails with three (finding 2);
the bounded type invariants of the site modules (the proofs use their own
types, without the bounds); and liveness (`EveryRunEnds`, `SiteProgress`), which like
`ENABLED` is beyond the prover. The modules use no `RECURSIVE` operator.

## 6. What is left

* `TestData` feeding `unready` and `nodata` of `Bridge` in one model, and `SubtaskRebuild`
  dispatching through `SubmissionRun` instead of its `run` flag.
* Mirrored problems, with the order of two row locks.
