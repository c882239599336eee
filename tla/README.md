# Verification of the hybrid EDR platform

TLA+ specifications of the analysis backend and of the endpoint agent, the TLC
runs that check small instances of them, and TLAPS proofs of the theorems that
hold for every instance. `PROJECT.json` lists the components, the runs, the
mutants that show each property bites, the source lines behind every
definition, the hazards and the theorems. Source paths below are relative to
`src/`.

## 1. The system

### Components, their state and their operations

| Component | State it keeps | Operations | What makes it correct |
|---|---|---|---|
| API gateway, agent endpoints (`backend/api/routes.py`) | `file_metadata` rows, the object store | `POST /upload`, `GET /hash/{sha256}`, `GET /report/{task_id}` | one task per file; what was inserted is published or reported failed, but by a killed process; an answer never invents a verdict |
| Publisher (`backend/broker/producer.py`) | none (a connection per call) | `publish_task`: 3 attempts of 5 s | at least one copy when it returns |
| Static worker (`backend/workers/static_worker.py`) | `file_metadata.status`, `static_features` | mark PROCESSING, analyse, store, publish to the ML queue; mark FAILED and retry | the message is passed on or the task is visibly given up |
| ML worker (`backend/workers/ml_worker.py`) | `reputation`, `file_metadata.status`, the Redis verdict | infer, persist in one transaction, cache, forward middling scores | COMPLETED only with a verdict; the score is the model's |
| Sandbox worker (`backend/workers/sandbox_worker.py`, `sandbox/runner.py`) | `dynamic_features`, `reputation` | run, insert the report, fold it into the score | each report counts once |
| Scoring rules (`backend/services/reputation.py`, `ml_inference.py`) | none | `classify_risk`, `evaluate_risk`, `compute_confidence` | monotone, bounded |
| Verdict cache (`backend/core/cache.py`) | Redis, and a dictionary per process when Redis is down | `get_json`, `set_json` | never a score nobody computed |
| AV management API (`backend/routers/scans.py`, `quarantine.py`) | `scan_events`, `quarantine_records`, `av_audit_log` | trigger/complete a scan, restore/delete a record | an action and its audit entry stand or fall together |
| Signature versions (`backend/routers/signatures.py`) | `signature_versions` | fetch an archive and register it, list the versions newest first | answers are true of the table; what is listed on top is not stale |
| Agent event loop (`agent/src/main.rs`, `api_client.rs`) | the event channel, the local LRU cache, `processing_queue` | receive, flush, hash, YARA, cache, look up, upload, poll, enforce | every file with an event is assessed, queued for later, or reported |
| Offline queue (`agent/src/offline_queue.rs`) | a JSONL file | `enqueue`, `load_all`, `rewrite` | an event leaves it only once it is dealt with |
| Quarantine (`agent/src/quarantine_safe.rs`, `policy_engine.rs`) | quarantined files and their sidecars | `quarantine_file`, `restore_file`, `delete_quarantined` | no sample lost, no unverified copy |
| File monitor, eBPF sensor, YARA engine | the kernel's event queues, compiled rules | events in, matches out | inputs of the loop |
| Dashboard, auth, database pools, migrations, model training, unit files | read-only views and configuration | - | - |

### How they interact

The agent calls the API over HTTP. `POST /upload` commits a `file_metadata` row
and publishes to `static-analysis-queue`; the static worker publishes to
`ml-inference-queue`; the ML worker commits the verdict, writes Redis and, for
scores between 40 and 90, publishes to `sandbox-queue`; the sandbox worker adds
its report to the same `reputation` row. `GET /hash` reads Redis, then the
table, and fills Redis. The agent polls `GET /report` until the status is
COMPLETED or FAILED. The workers share nothing but the tables, the queues and
Redis. The AV management routers share one asyncpg pool and nothing with the
pipeline.

### What is hard about it

* Three commits and three publishes for one upload, none of them atomic with the
  next; every handler can die, time out or be retried between two of them.
* At-least-once delivery: RabbitMQ requeues what was not acked, a publish that
  timed out may have arrived, and tenacity runs a whole handler again.
* Read-modify-write on the `reputation` row by two kinds of workers, at READ
  COMMITTED, with column-wise updates.
* A cache filled by the writer and by readers, over Redis or, when Redis does not
  answer, over a dictionary that never forgets.
* Requests that wait on somebody else's server before they wait for the database.
* On the host: a sequence of system calls on files other programs are using,
  with the agent liable to die between any two.

The hazards, each at its line, are in `PROJECT.json`.

## 2. The modules

| Module | Models | Proofs |
|---|---|---|
| `Reputation` | the scoring rules: `classify_risk`, what a sighting and a sandbox report make of a row, what a session writes back | `ReputationProofs` |
| `VerdictService` | abstract: what the backend promises to those who upload files and ask for verdicts | - |
| `AnalysisPipeline` (extends `Reputation`, implements `VerdictService`) | upload, lookup, report, publisher, the three workers, the queues, the tables, Redis and the dictionary that stands in for it | `AnalysisPipelineProofs` (types), `PipelineSafetyProofs` (tasks), `PipelineVerdictProofs` (verdicts, the refinement) |
| `SafeQuarantine` | `quarantine_file` system call by system call, `restore_file`, `delete_quarantined`, users and crashes | `SafeQuarantineProofs` |
| `LocalCache` | `hash_engine.rs`: the map and the order of the LRU cache | in `AgentLoopProofs` |
| `AgentLoop` (extends `LocalCache`, uses `VerdictService`) | watcher, channel, event loop, HTTP client, offline queue, restarts | `AgentLoopProofs` |
| `RecordsService` | abstract: what the management API promises its callers, one atomic step per call | - |
| `AvRecords` (implements `RecordsService`) | restore, delete, trigger, complete over one connection pool | `AvRecordsProofs` |
| `SignatureVersions` | the two handlers of `signatures.py`, the feed, the pool | `SignatureVersionsProofs` |
| `MCAnalysisPipeline`, `MCSafeQuarantine`, `MCAgentLoop`, `MCAvRecords`, `MCSignatureVersions` | the instances TLC checks | - |

Each module names its actions for the code: an action is what happens between
two points where somebody else can act. In the backend those are the `await`s
(and, inside a transaction, the statements), in the agent the `await`s and the
file operations, in the quarantine the system calls. An operator whose comment
says "Mutant of X" is not part of a specification: it is X with a plausible bug,
and `PROJECT.json` says which property TLC then finds violated.

### Reputation

Scores are counted in hundredths of a point (`evaluate_risk` rounds to two
decimals), so `0..10000` is every score. A `reputation` row is a record of
`freq`, `risk`, `label` and `malicious`; no row has `freq` 0. `Sighted` is both
branches of `persist_reputation`, `Combined` is the sandbox's addition with its
clamp and its fixed cutoffs, `Flushed` is what the SQLAlchemy session writes: only
the columns that changed, over whatever the row is by then.

### VerdictService, and how the two halves compose

`VerdictService` has three variables per file: its `status`, the `grounds` (the
verdicts the evidence on it supports) and what is `known` (the answers a request
may get). `Submit` happens once; `Track` moves a status that is not complete,
back and forth; `Judge` completes it with a supported verdict; `Revise` lets
evidence grow and copies come and go, but a verdict once known stays known and
every answer stays supported. `Settle` is the end of an analysis, with a verdict
or without one. The service promises no progress, because the code does not: a task
may stay open for ever (below).

`AnalysisPipeline` implements it: `Service` instantiates it with the status a
`GET /report` shows (`SeenStatus`, which is `open` for PENDING and PROCESSING and
hides nothing else), the scores the model and the stored report support (`Grounds`)
and what `GET /hash` may answer from the table, Redis or the dictionary (`Answered`).
`ImplementsService` is checked and proved.

`AgentLoop` is written against the same module: `Backend` instantiates it over
classes instead of scores, an upload is `Backend!Submit`, `Analyse` is
`Backend!Settle` and `Elsewhere` is any step of the service. That the agent's backend
moves only by these actions is how the module is built, not a result. Nor is it
proved that a pipeline over scores is a service over classes: a class is the label of
the row that has the score, and the sandbox's cutoffs differ from the model's
(section 7), so a mapping from scores alone does not exist. The two halves share a
specification; their composition is an argument, not a theorem.

### AnalysisPipeline

A task id is named by the request that mints it. `upload[r]` follows
`POST /upload`: `UploadSelect` (deduplicate by digest), `UploadInsert` (the
unique column decides the race), `UploadPublish`. Between the commit and the publish
two different things go wrong: `UploadPublishFails` (the publisher raises; the error
is logged and the client is told) and `UploadKilled` (the process dies; nobody is
told anything). Both leave the row, and later uploads of the file are answered with
its task. `abandoned`, a history, has the tasks whose publisher or consumer logged
that it gave up, until a message of the task is taken up again; no client sees it.
A worker's record has the
place in its handler, the task, the tenacity attempt and the session's copy of
the row. `StaticReceive`/`Mark`/`Publish`/`MarkFailed` are
`process_static_task`; `MlReceive`/`Read`/`Commit` (or `Clash`)/`Cache`/`Route`/
`MarkFailed` are `process_ml_task`; `SandboxRun` (or `Missing`)/`Read`/`Commit` are
`process_sandbox_task`, of which the prefetch allows two at once.
`LookupMiss`/`LookupFill` are the two halves of `GET /hash`. `cache[s][h]` is what
store `s` holds: `"redis"`, or the `"dictionary"` of the API process, which
`CacheClient` reads and writes when Redis raises (`Reached` counts that as a
fault) and which never expires. A worker's own dictionary is never read, so a
write to it is `MlCacheLost`.

Faults are actions of their own: an exception at a statement (`StaticError`,
`MlError`, ...), a commit whose acknowledgement is lost (`MlCommitLost`), a
publish that delivers any number of copies and raises (`NotConfirmed`), a killed
worker (`...Crash`), a dropped connection after which the message is delivered
again while the handler goes on (`...Redelivered`), Redis out of reach
(`...CacheLost`), a sandbox message nobody kept (`MlRouteLost`). They share one
counter, `faults`.

### SafeQuarantine

`src` and `vault` are the monitored files and the quarantine, a file being its
bytes and its execute bit; `job` is the call in progress, its `pc` the next
system call. `Missing`, `Rename`, `CopyStart`, `CopyEnd`, `VerifyMatches`,
`VerifyFails`, `RemoveSource`, `Chmod`, `WriteSidecar` are the lines of
`quarantine_file`; `CallFails`, `ChmodFails`, `SidecarFails` and `Crash` may come at
any of them, and users and administrators act between any two.

`OkMeansIsolated` and `NothingDeletedFirst` are what `AgentLoop` relies on when it
takes the whole call as one step (`Enforce`): after it the file is gone from its
path, or still there because the call failed or found other bytes.
`DuplicatesKeptAlone` is what is left of the claim `quarantine_duplicates` refutes:
no sample is lost to a later detection while nobody else touches the files and no
copy fails. There is no abstract module for this component: one that allows all
that crashes, users and administrators may leave behind is about as long as
`SafeQuarantine`.

### AgentLoop and LocalCache

`pc` is where the loop of `main.rs` is: `recv`, the flush of the offline queue
(`flush`, `flush_lookup`), then `hash`, `yara`, `cache`, `lookup`, `upload`, `poll`,
`enqueue`. The file is read three times (hash, YARA, upload), so each step looks
at the file as it is then; the scan (`YaraMatch`) ends on another thread before the
loop enforces its result (`YaraEnforce`), and the file may change in between. An
upload of a name or size the API does not allow (`Refused`, `routes.py:28-51`) fails
at every attempt.

The offline queue and the scan have `path.to_string_lossy()` in place of the path
(`main.rs:129`, `yara_engine.rs:105`). `Named` is that mapping: the identity for
UTF-8 names, and any path for others.

`notices` is the kernel's queue of inotify events, a bounded FIFO: `Notify` appends
to it or drops the event (`monitor.rs:29` only logs an overflow). `Write` and
`CloseWrite` raise an event; `ChangeQuietly` is every change that raises none or one
the watcher ignores: a removal, a rename into place, a write through a descriptor
that stays open (`monitor.rs:14-26`). `Deliver` is the watcher's callback, whose send
blocks while the channel is full; `DeliverFails` is an `is_file` that is false because
the metadata cannot be read. The same error makes the flush drop an entry
(`FlushGone`, `main.rs:334`). `queue` and `tail` are the offline queue's file: its
parsable lines and whether the last one is whole, lacks its newline or is cut;
`RewriteCut` and `EnqueueCut` are what an interrupted write leaves.
The backend is `status`, `grounds` and `known` of `VerdictService`.
`Enforce` is `quarantine_file` as one step, which `SafeQuarantine` takes apart.
The cache is a pair of a function and a sequence, changed exactly as `get`,
`insert`, `touch` and the eviction loop change the map and the queue.

`owed`, `lost`, `missed` and `misread` are history. `owed` has the files hashed and
not dealt with yet, `lost` the ones a failure made the agent forget: only failing
actions (and an `Enqueue` after a line that an earlier failure left open) add to it.
`missed` has the paths whose last event was lost before they were hashed, by an
overflow, a failure or a restart. `misread` has pairs: a digest, and other bytes that
YARA or the upload read in its place; it is emptied with the cache by a restart.

What the agent gives is less than one might expect, and the properties say so:

* `Accounted` holds of files whose name is UTF-8. Any other is queued under a path it
  does not have: the flush drops the entry without a failure, or enforces its verdict
  on the file that has that path.
* `NoticedIsHashed` holds of files with an event on its way, not of files that
  changed: a rename into place raises no event that the watcher passes on.
* `CachedVerdictSupported`: a cached verdict is one that evidence or a rule supports,
  for its digest or for bytes read in its place (`TakenToSupport`).
* `TakenForCause`: a file is taken from a path only for an event in hand or queued
  that names the path, with a digest that is convicted or was taken to be, because
  convicted bytes were read in its place. The last clause reaches far: a digest
  misread at one path stays in the cache as malicious, and an innocent file with that
  digest is then taken from another path, where no convicted bytes have ever been.

The stronger `CachedVerdictOfDigest` does not hold (section 7), nor would
`TakenForCause` of the file itself: one put in the place of a convicted file before
the verdict is enforced goes to quarantine in its stead.

### AvRecords

`req[r]` is one API call: its operation, target, actor, place and what its open
transaction has written. `Acquire` waits for one of `PoolSize` connections,
`Select` waits for the row lock of `SELECT ... FOR UPDATE`, `Update` and `LogAction`
stage, `Commit` makes both visible, `CommitLost` does so and loses the reply,
`Fail` rolls back. `InsertScan` and `CloseScan` are single statements. `marks` is
`restored_by` and `deleted_by` (the Boolean columns are true exactly when these
are set, by the same UPDATE).

`RecordsService` has no connections, locks, transactions or places in a handler:
a call is asked (`Ask`) and, in one step on one state, does all it does and is
answered (`MarkRecord`, `Refuse`, `OpenScan`, `EndScan`) or fails without effect
(`GiveUp`); an answer may be lost, and only an "error" leaves its caller in
doubt. `AvRecords` implements it with `Calls`, which hides a call's place and what
its transaction has staged: `CallsAreAtomic`, checked and proved.

### SignatureVersions

`update[u]` is a `POST /update`, `listing[l]` a `GET /`. An update fetches
(`Serve`, or `TransportError` up to `Attempts` times, or `StatusError`), takes its
id and time (`Stamp`), waits for a connection (`Acquire`) and inserts (`Insert`,
whose reply may be lost); `Fail` is any other end. The feed is outside: it releases
archives in order (`Publish`) and serves the newest. It answers or not: the read
timeout bounds the gap between two chunks, not the response, so a request may stay
in `fetch` for ever. `after`, a history, is what had been accepted when a call came
in; `LatestNotStale` compares with it. `clock` is the API's wall clock, taken not to
be set back; two stamps differ.

## 3. The plan

Done, in this order: the pipeline (the system's core, and where most hazards
are), the quarantine, the agent's loop with its cache and queue, the management
API; the fallback dictionary of `core/cache.py`; the abstract verdict service, the
pipeline shown to implement it and the agent written over it; the signature
versions; the abstract records service and the management API
shown to implement it; what the agent's verdicts and quarantines are worth when
files change under it; the kernel's event queue, quiet changes and names that are
not UTF-8. Every safety property a passing run checks is proved.

Left, in this order:

1. **The agent's queue**: what bounds the entries a path can have at a time.
2. **An abstract quarantine**: a sample is at its path or in the store, each job
   one step or none, and `SafeQuarantine` shown to implement it for one job at a
   time; `IsolationInv` and `Undisputed` are most of what that needs.

## 4. The runs

| Run | Instance | Question |
|---|---|---|
| `pipeline_safety` | 1 digest, 2 uploads of it, 1 static worker, 2 ML workers, 2 sandbox callbacks, 1 lookup, 2 attempts, 2 faults | is a task lost other than with a log line or a killed API process, minted twice, completed without verdict, or a report or a sighting counted twice; does anything but a fault reopen a finished task; is every step one of `VerdictService`? |
| `pipeline_progress` | the deployed one worker of each kind and a lookup, fair, 2 faults | does every task whose client was answered complete for good while faults are fewer than attempts, does the work end, do Redis and the table agree in the end, does a score ever fall by itself, or the label "malicious" stand without its flag? |
| `pipeline_verdict_fields` | as `pipeline_safety`, no faults | do the two verdict columns agree? **No** |
| `pipeline_final` | as `pipeline_progress`, 1 fault | is COMPLETED final? **No** |
| `quarantine_safety` | 2 paths of one name on either side of a mount boundary, 2 samples, 2 faults, 2 edits | is a sample ever lost, unverified, or gone after an error; is a source removed for less than a verified copy; what does an Ok mean, and what becomes of duplicates? |
| `quarantine_duplicates` | the same, 1 edit, no faults | are duplicates kept? **No** |
| `quarantine_exec_bits` | the same, 1 fault | is everything in quarantine non-executable? **No** |
| `agent_safety` | 2 paths, one not UTF-8 and read as the other, 2 contents (one matched by a rule) with evidence for one class each, capacity 1, kernel queue 1, channel 1, 1 failure, 3 changes of files or steps of others | is a file forgotten, does the cache stay in step and bounded, is a cached verdict supported, is there cause for every file taken? |
| `agent_progress` | 2 paths, one with a name the API refuses, 1 harmless content, kernel queue 1, channel 1, fair, 1 failure, 1 change or step of others, any number of events while the queue has fewer than 2 entries | is a file with an event on its way hashed or its event known to be lost, does the queue drain? |
| `agent_cached_verdict` | as `agent_safety`, 2 failures, all evidence | does a cached verdict belong to its digest? **No** |
| `av_records` | 3 calls of any kind and actor, 2 connections, 1 record, 1 unknown id, 1 scan | do marks, log and answers agree, is every call atomic, and answered? |
| `signature_versions` | 2 updates, 1 listing with limit -1, 0, 1 or 2, 1 connection, 3 attempts, 2 releases, fair | are answers true of the table, is the top of a listing current, does a feed that never answers hold anybody up? |

**Why these bounds.** *One digest, two requests*: handlers of different files
share only queues whose order nothing relies on; the second request is what
races the insert. *Two ML workers and two callbacks* are one more than needed
for a lost update or an insert clash; the scores in `MCMlRisk` are one on each
side of every cutoff that can move (30, 69.7, 72, 95), and the reports are no
evidence and enough to convict. *Two attempts* instead of three has a
retry and a last attempt. *Two faults* are a failure and a failure of its
handling, or a redelivery and a crash; more multiply behaviours of kinds that
already occur, and the theorems below hold for any number. *Channel 1, kernel
queue 1 and capacity 1* are full with one element, so the boundary is met at once. The
*three changes* of `agent_safety` (`MaxOthers`) are a file put in place, another put
over it between any two reads, and a verdict that others bring about, or any
other three. *One failure* is enough to put an entry into the queue, to cut it
short or to lose it; more faults only repeat that, and the theorems hold for any
number. `MaxQueue` only stops users from making new events of unchanged files at
that length, for each event of a file whose task has failed adds one more entry
(nothing in the code bounds the queue); two entries in the liveness run already
let a flush keep one and drop one. `EachItsClass` starts the safety run with any
evidence of one class for each content, to which others add; in the liveness run
nothing speaks against the content until others say so (`Harmless`), which the one
step they have may do, or else change a file. *Two attempts and two faults* in the
progress run are enough for `AcceptedCompletes` to promise something and to promise
nothing. *Two
updates* are one accepted before or during the other; one connection is a pool
that one statement exhausts; two releases let the fetches differ. *Two connections for three calls* are
the smallest pool that is exhausted. *Two samples of the same name* can be given
the same quarantine name only through the same digest, which
`quarantine_duplicates` uses.

Symmetry is used for safety runs only (requests, workers, callbacks, paths).
`CHECK_DEADLOCK FALSE` is set everywhere because every instance really stops:
all requests answered, all faults and edits used, the agent waiting for events.

**Mutants.** Every property of a passing run has a mutant in `PROJECT.json`, a
plausible bug in the mapped definition under which TLC finds that property
violated: a duplicate insert that overwrites, an error swallowed, a lock not
taken, an entry dropped by the flush, `try_send` for `send`, and so on.

## 5. Fairness

* `AnalysisPipeline`: weak fairness for the step of every upload handler, worker
  and callback. Each such step is an await that returns or a callback that the
  event loop or the broker will get to; a worker whose message is waiting takes
  it. A lookup that has begun ends, and Redis expires its keys; new lookups and
  faults need not come. Retry loops end
  because tenacity stops after `MaxAttempts`, redeliveries because faults are
  finite: if the broker fails for ever, no progress is promised.
* `AgentLoop`: weak fairness of the loop's step: it is one task, its sleeps are
  bounded. That each HTTP request ends is an **assumption**, for the client sets
  no timeout (`api_client.rs:19`). `Deliver` is weakly fair: the kernel's queue is a
  FIFO, and the watcher's thread is blocked only by a full channel, which stays so
  until the loop takes a path out. `Analyse` is not fair: nothing obliges
  the backend to finish an analysis, so `QueueDrains` speaks of files whose verdict
  the backend comes to know, and it says "while file events keep arriving", because
  users need not write.
* `SignatureVersions`: weak fairness of what waits for the pool or the database
  (asyncpg hands a free connection to a waiter, `command_timeout` ends a
  statement). None for the feed: nothing makes it answer.
* `AvRecords`: weak fairness of each call's step; PostgreSQL grants a lock and
  asyncpg's pool a connection to a waiter when it is released.
* `SafeQuarantine` has no liveness property: a call is a straight line.

## 6. The proofs

All theorems are proved for every value of the constants that satisfies the
module's named assumption (`ThresholdAssumption`, `PipelineAssumption`,
`QuarantineAssumption`, `CacheAssumption`, `AgentAssumption`, `RecordsAssumption`,
`SignatureAssumption`),
which TLC evaluates on each run. These say what the code
justifies and no more: thresholds are scores, bounds are naturals, null values
are not values, the workers of each kind and the callbacks of the sandbox are finitely
many. In particular nothing bounds the number of files, requests, workers,
calls or faults.

* **Scoring.** `CutoffBounds`, `SightingsOnlyHarden`: the cutoff that sightings
  lower stays at 50 or above and is monotone. `ReportsOnlyRaise`.
* **Tasks.** `TypeCorrect` (scores stay in 0..100 through every addition, no
  queue goes negative). `OneTaskPerFileAlways`: whatever is in flight for a task was
  put there by the owner of its digest, and an owner never changes.
  `NoSilentLossAlways`: each carrier of a task (the upload, a message, a worker) hands
  it to the next before it lets go, and only a carrier takes a status back to
  PROCESSING. The one exception it states, a row left PENDING by a killed API
  process, needs `PublishesFirst`: until its upload publishes it, a task has no
  messages and its status is what the insert made it.
* **Verdicts.** `CompletedHasVerdictAlways` and `RiskFromOneReportAlways` need
  `VerdictInv`: who owns a digest (`OwnersAgree`), rows that exist stay
  (`RowsSighted`, `SessionsHaveRows`), what the ML worker is about to cache is the
  model's score (`ModelRows`), and a transaction about to commit a report is the
  only one with a report of that task, over a row without one (`OpenReports`).
  The last is where the unique `dynamic_features.task_id` does the work.
  `PipelineIsService` maps each step to one of `VerdictService` or a stutter: it
  needs those invariants for `Judge` (completed only with a supported verdict) and
  for `Revise` (no store ever holds what the evidence does not support).
* **Sightings.** `ExtraSightingsAreFaultsAlways` is a counting argument
  (`SightingInv`): an inference still to come has a copy of its task in front of
  its commit (the upload about to publish, a message of the first two queues, a
  worker), and the sightings of a row plus the copies left (`Due`) never exceed
  one plus the faults. Without a fault that leaves no copy once
  one was counted, and `CompletedFinalWithoutFaultsAlways` follows: nobody is left
  to reopen a COMPLETED task. The table may lose a count to a worker that read an older
  row, so the bound is kept for the row every worker holds as well. Each step is
  reduced to what it does to the copies of one task (`StaticDue`, `MlDue`).
  `RiskDropsOnlyOnSightingOfOne` assumes one ML worker, as deployed: it alone writes
  counts, so the count it read is the table's when it commits (`CountsAgree`). With
  two it is false: an inference that read the row earlier commits with the count
  the row already has. `LabelFlaggedOfOne` makes the same assumption. Until its report
  is stored a file's label and flag are one verdict (`UnreportedRows`), so every row a
  session reads before that is one; a worker that commits after the report wrote
  holds such a row, and the report only ever raised the flag (`SightedRows`). The
  columns it changed then agree among themselves, and those it left alone are
  flagged. From three ML workers on it is false.
* **Quarantine.** `SampleSurvivesAlways`, `VerifiedCopyAlways`,
  `FailureKeepsOriginalAlways` follow from what is known of the two files at each
  system call: `SourceIntact`, `CopyIntact`, `MoveIntact`. `OkMeansIsolatedAlways` needs
  what each step leaves behind (`IsolationInv`: the source emptied, the sample
  stored, disarmed, described, in the order of the code) and
  `NothingDeletedFirstAlways` follows from it and the two other invariants at the
  rename and the removal. `DuplicatesKeptAloneAlways` needs that, while nobody
  else acts, a job only moves bytes with its own digest (`Undisputed`): what it
  replaces in the quarantine is what it stores.
* **Agent.** `CacheInStepAlways`, `CacheBoundedAlways` rest on lemmas about
  `touch`, eviction and insertion as functions on the map and the order.
  `AccountedAlways` (of UTF-8 names) needs `FlushInv`: during a flush, an entry of
  the file that is still owed has been kept or is yet to be looked at; without it the
  rewrite could drop one. `CachedVerdictSupportedAlways` and `TakenForCauseAlways` share
  `VerdictInv`: what the backend may answer is supported (`AnswersSupported`), and
  stays so as evidence grows; what was sent is what was hashed, or is recorded as read
  in its place (`SentIsHashed`); and what a flush has still to look at is in the queue
  (`TodoQueued`), which is why a file it takes had an entry for that path.
* **Management API.** `AuditedAlways`, `AnswersTrueAlways`, `OneWinnerAlways`,
  `NothingUndoneAlways` rest on `LockInv` (a transaction is alone with its record,
  and no mark that would have refused it appears meanwhile), `LogInv` (an entry
  belongs to a call that has returned), `ScanInv` and `OneCloses`.
  `CallsAreAtomicAlways` maps the commit to the abstract step: `LockInv` says that
  the record is still free then, and that both writes are staged; everything
  before it, and a rollback, is a stutter or an error without effect.
* **Signature versions.** `AnswersAreTrue` and `LatestIsCurrent` share one
  invariant, `IInv`: an update's place tells whether it has a time (`Place`,
  `Stamps`); calls come in after accepted updates only (`Past`); an update fetches
  an archive no older than those accepted before it came in (`Order`); the table
  has a newest row (`Topped`, itself inductive, which avoids an induction over the
  table); and what was shown stays in the table. Each step of an update is first
  reduced to what it does to one record (`UpdateEffect`), so that each part of the
  invariant is shown once and not per action.

Only model-checked: the liveness properties (`AcceptedCompletes`, `WorkEnds`,
`AnswersSettle`, `NoticedIsHashed`, `QueueDrains`, `EveryCallAnswered`,
`FeedsDelayNobody`), which are beyond the proof system. Every safety property the
passing runs check is proved.

## 7. Where the code departs from what it says

Each is a run that TLC ends with a counterexample.

| Run | What happens | What is said |
|---|---|---|
| `pipeline_verdict_fields` | a row the model called malicious between 69.8 and 75 becomes "suspicious" with `is_malicious` true after a sandbox report of 0 | `DOCS.md:752`: the binary verdict. The other direction holds: `LabelFlaggedOfOne` |
| `pipeline_final` | a redelivered message or a failed sandbox publish takes COMPLETED back to PROCESSING or FAILED | `static_worker.py:120`: PROCESSING "until ML stage finalizes verdict" |
| `quarantine_duplicates` | a second copy to the same quarantine name truncates the first and may then be removed | `quarantine_safe.rs:112`: duplicates "don't overwrite each other" |
| `quarantine_exec_bits` | a crash or failed chmod after the move leaves the sample executable | `quarantine_safe.rs:9`: "stripped immediately" |
| `agent_cached_verdict` | a file rewritten between its reads puts one content's verdict under another's digest | `main.rs:97`: cache "for known hashes" |

Smaller things met on the way, without a run:

* An API process killed between `routes.py:96` and `routes.py:114` leaves a PENDING
  row that nothing logs, publishes or removes; later uploads of the file are answered
  with its task, and their agents poll it in vain. A publish that raises leaves the
  same row, with a log line. `NoSilentLoss` states both.
* Where the last attempt of a worker cannot write FAILED either
  (`static_worker.py:125`), the status stays PROCESSING for ever, with a log line.
* The offline queue holds lossy paths (`main.rs:129`): the entry of a file whose name
  is not UTF-8 is dropped by the flush, or its verdict enforced at another path. YARA
  does not open such a file either (`yara_engine.rs:105`).
* `Path::exists()` (`main.rs:334`) and `is_file()` (`monitor.rs:18`) are false of any
  metadata error: the entry, or the event, is dropped.
* A file renamed into the monitored directory is not noticed (`monitor.rs:14-26`), and
  an overflow of the kernel's queue is only logged (`monitor.rs:29`).
* `main.rs:155` opens a `match` whose first arm (`Ok(matches) if ...`) is missing,
  so the file does not compile as it stands; the arm its body and the other
  arms imply is modelled.
* `main.rs:179-180` says the local verdict is cached "so offline queue flushes
  recognise this hash without re-scanning"; the flush never reads the cache and
  asks the backend about every entry.
* `yara_engine.rs:10-12` says the rules are compiled once and shared; `scan_file`
  compiles them from disk at every scan.
* `static_worker.py:52` analyses fixed bytes when the object store lacks the file,
  and no volume joins the API's store to the worker's. The model takes the file
  for the same at every attempt (`mlRisk` of a digest never changes).
* `quarantine_safe.rs:7` says "Move-then-verify"; only the copy across filesystems
  is verified, a rename is not.
* `signatures.py:160` promises "max 5 update triggers per minute"; no limit is
  applied, there or in `main.py:152`. `signatures.py:164` speaks of 3 retries; there
  are 3 attempts.
* `GET /av/signatures` takes any `limit`: 0 answers `latest: null` whatever is in the
  table, a negative one is a database error and a 500.
* `processing_queue` (`main.rs:131-135`) can never contain the path: the loop
  handles one event at a time and removes it at every exit.
* `static_worker.py:156-158` speaks of rejecting to a dead-letter queue; the
  exception is swallowed before, and the message acked.
* `restore_file` renames only, so it fails across filesystems although
  `quarantine_file` copies across them.
* `quarantine.py:210` pastes the reason into JSON text; `quarantine.py:295` uses
  `asyncpg.types.Json`, which that library does not have. Both are `Fail` here.

## 8. What is not modelled

* **Data no control depends on**: features, confidence, `last_seen`, rule
  severities, log lines. `suspicious` files are only logged by the agent.
* **`update_task_status`** is one step: its SELECT and UPDATE write a constant.
* **The object store and temporary files** of uploads; `/tmp/sandbox_uploads`,
  which nothing in `src` fills, so a sandbox run finds its file or not.
* **A restart of the API**, which empties the dictionary that stands in for Redis:
  it can only make answers newer, for the table is asked then.
* **`GET /report`** only reads: it is `SeenStatus` and `Answered`, and what the agent
  makes of the order of its columns is `CompletedHasVerdict`.
* **The content of an archive**: `rule_count`, `source` and `notes` of a signature
  version, and which of several feeds it came from; the feed is one.
* **Time**: delays of polls, retries and cache entries are "some time"; the
  order of events is free.
* **Who inserts `quarantine_records`, and the scan daemon**: not in `src`. The rows
  that exist are the constant `Record`; the daemon's calls are `complete` requests.
  The scan states `failed` and `aborted` are set by nobody.
* **eBPF sensor, dashboard, authentication, training, deployment, stubs**: no
  state of the modelled parts depends on them; see `PROJECT.json`.

## 9. Running it

    tlc -workers 2 -config PipelineSafety.cfg MCAnalysisPipeline.tla
    tlapm PipelineVerdictProofs.tla

Every run ends within two or three minutes with two workers; the proofs of one module
take up to a few minutes.
