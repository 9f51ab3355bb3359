# OmniSignal: specification and proofs

TLA+ models of the parts of OmniSignal (`src/omnisignal`) in which order,
concurrency, failure and restart decide whether the system is right, the TLC
configurations that check them on small instances, and theorems that TLAPS
proves for every instance. Paths below are relative to `src/omnisignal`
unless they start with `docs/`, `governance/`, `tests/` or a file name of the
repository's root.

    tlc -config jobs_safety.cfg MCCollectionJobs     # one run
    tlapm CollectionJobs_proofs.tla                  # the proofs of one module

## The system

OmniSignal collects public records from allowlisted sources. An operator (or
the snapshot scheduler) asks the API for a *collection job*; a one-worker
executor in the API process runs the job's connector page by page and stores
records, checkpoint, run and audit events in one SQL database (SQLite or
PostgreSQL). Everything else reads what was stored, or configures what may be
collected. All interaction between components goes through database
transactions, the executor's queue, a few files, and worker subprocesses.

| component | state | operations | what is hard | what makes it correct |
|---|---|---|---|---|
| collection queue (`collection_jobs.py`, `api/collection.py`) | table `collection_jobs`, audit events, executor queue and worker | request, replay, execute, finish, reconcile on start, shutdown | count, lookup and insert are separate statements; commits may fail; processes die, drain and overlap | one job per command, stable answers, external run at most once, every active row owned or closed, final rows final |
| snapshot scheduler (`snapshot_schedules.py`) | jobs of its actor, one thread per process | tick, queue, start, shutdown | clock, missed windows, two threads, half a tick | one job per slot, slots advance, no slot starved |
| source control (`api/control.py`) | tables `source_control_states`, `source_control_commands`, audit events | enable/disable with key and expected version | concurrent compare-and-set, retries, lost answers | audit trail complete and chained, one effect per key |
| durable runner (`connectors/durable.py`, `storage/records.py`, `storage/control.py`) | `ingestion_runs`, `ingested_records`, `connector_states` | check, open, load, page loop, settle, close | no fencing between runs, failure at every step, kill | nothing skipped before the checkpoint, runs settle, one audit event each |
| GitHub connector (`connectors/github_issues.py`, `github_cli.py`) | checkpoint with caches, cycle and snapshot sets | page request, 304 replay, snapshot inference, tombstone | a snapshot read at several times, incomplete answers, replays | tombstones need two safe absences, memory is backed by stored records |
| static web connector (`connectors/static_web*.py`) | checkpoint with validators and absence counts | worker run, absence, deletion | worker crash and timeout, repeated 404 | deletion only after enough absences; validators only for stored pages |
| authorized hook (`connectors/authorized_hook*.py`) | cursor, circuit file | run worker, count failures, open/reset circuit | failures outside the counted region, expiry | an open circuit never runs the hook |
| SearXNG results, public search signals, YouTube visibility | one-shot snapshots, raw archive | worker run, coverage, validation | partial engines and pages | coverage never overstated |
| raw archive (`connectors/archive.py`) | files by content hash | store | replace before the database commit, two writers | a record's archive exists and matches |
| isolated worker (`runtime/isolated_process.py`) | subprocess, job and result file | run | timeout, terminate, kill, cancellation | result only from a worker that ended in time |
| readiness (`collection_readiness.py`) | cache per task | check | slower older check | an answer is recent: an older result stored last is used only within its age |
| search profiles (`search_profiles.py`), visual workbench (`visual_workbench/store.py`) | directories | save, reload, attach | staging and rename, limits, crash between files | complete entries only, limit kept |
| normalization (`normalization/`), plugins (`processing/`), metrics | derived tables | run, replay, execute | replay after partial runs, tombstoned input | derived rows follow their input |
| console launcher (`console_launcher.py`) | lock and state file, children | start, supervise, stop, stop script | lock released before the last state, state writes that fail | one instance, truthful state |
| backup and migrations (`storage/backup.py`, `migrations.py`) | database files, tables and their registered revision | snapshot, restore, upgrade | crash between two statements, two commands on one path | never overwrite, verified copies, revision and tables agree |
| reverse lab (`reverse_lab/`) | registry, records, audit log | verify, approve | order of approvals | promotion only of what was verified |
| operations API, UI, health, auth, configuration, measurement and source registries | none that they change | read, validate | - | - |

`PROJECT.json` lists every component with its files and status, and every
hazard with its line and the properties that cover it.

## Modules

| module | models | extends / instantiates |
|---|---|---|
| `JobLifecycle` | abstract: what the rows of `collection_jobs` promise | |
| `CollectionJobs` | queue, requests, executor, life of API processes | instantiates `JobLifecycle` as `Lifecycle` (refinement) |
| `CollectionJobs_proofs` | theorems for any overlap and faults | extends `CollectionJobs` |
| `CollectionRows_proofs` | theorems while processes do not overlap, and the refinement | extends `CollectionJobs_proofs` |
| `VersionedSwitch` | abstract: one sequence of changes per source | |
| `SourceControl` | the control handler | instantiates `VersionedSwitch` as `Switch` (refinement) |
| `SourceControl_proofs` | its theorems, and the refinement | extends `SourceControl` |
| `DurableRun` | `run_connector_durably` | |
| `DurableRun_proofs` | its theorems | extends `DurableRun` |
| `JobRuns` | job row and run row together | extends `DurableRun`, instantiates `JobLifecycle` as `Queue` |
| `JobRuns_proofs` | its theorems | extends `JobRuns`, `DurableRun_proofs` |
| `GitHubSnapshot` | cycles, 304 cache and tombstones | |
| `SnapshotScheduler` | ticks and slots | |
| `SnapshotScheduler_proofs` | its theorems | extends `SnapshotScheduler` |
| `HookCircuit` | authorized hook connector: circuit file, approvals, runs | |
| `PageFiles` | isolated worker process, raw archive and the commit of a page | |
| `StaticWeb` | static web connector: batches, validators, absence counts | |
| `SearchSlices` | SearXNG collection: slices, diagnostics, coverage of the job | |
| `SignalSeries` | public search signals and the trend series the API serves | |
| `VideoSample` | YouTube sample, its analysis, and the view and shares of the API | |
| `NormalizationRuns` | lineage backfill, normalized versions, memberships, replay | |
| `DuplicateGroups` | `cluster_duplicates` | |
| `PluginRuns` | attempts of a processing plugin | |
| `ProfileStore` | search profiles and the task catalog | |
| `ReadinessCache` | the cached readiness check | |
| `VisualStore` | projects and images of the visual workbench | |
| `ConsoleLauncher` | supervisors of the local console | |
| `LabGate` | verification and promotion in the reverse lab | |
| `DatabaseCopies` | backup and restore with their verification; upgrade and adoption of a database | |
| `MCBackground` | durable runs of jobs, scheduler and switches side by side, for TLC | extends `JobRuns`, `SnapshotScheduler`, `SourceControl` |
| `MCConnectors` | the connector modules side by side, for TLC | extends `GitHubSnapshot`, `HookCircuit`, `PageFiles`, `StaticWeb`, `SearchSlices`, `SignalSeries`, `VideoSample` |
| `MCRecords` | the modules from `NormalizationRuns` on side by side, for TLC | extends them |
| `Connectors_proofs` | theorems about each connector module and all of them | extends `MCConnectors` |
| `Records_proofs` | theorems about each module from `NormalizationRuns` on and all of them | extends `MCRecords` |
| other `MC*` | symmetry sets and constants for TLC | |

The components under `MCBackground`, `MCConnectors` and `MCRecords` share no
state that is modelled, so exploring their interleavings would only multiply states. The
variable `part` is chosen in the initial state and says which component moves;
the others rest. Every behaviour of one of these runs is a behaviour of one
component, and every behaviour of a component is in the run. Their modules
prefix all names (`Hook...`, `hook...`), so that they can be extended together.

### CollectionJobs

A step is one database statement that decides something or one commit.
`Lookup`, `Admit`/`Refuse`, `Insert`/`InsertConflict` and
`Submit`/`SubmitRefused` are the pieces of `start_collection_job` and of the
scheduler's `_queue`: other threads act between them, and the unique index on
`command_hash` decides at the commit. `Replay` is the early return for a
stored command. `Fetch` .. `Stop` are `CollectionExecutor._execute`;
`LoseWrite` is a commit of the worker that raises inside a future nobody reads
(bounded by `MaxFaults`). `Start` and `Reconcile` are the read and the commit
of `reconcile_orphans`; `Shutdown` closes the executor without waiting;
`Exit` is the interpreter joining request threads and the pool thread, the
scheduler thread being a daemon; `Crash` is a kill at any point. Readiness
and source checks appear as `Refuse`, which is possible at any time.
`Overlap` says whether a new process may start while an old one still drains
its worker (it may, when the service manager does not wait for the exit). That
`Shutdown` does not wait for handlers in flight is more than uvicorn allows
by default and less than a forced exit does.

`answers` (what clients were told) and `runs` (how often the external run of a
job was started) are history variables: no guard reads them.

### SourceControl

`Receive`/`ControlReplay` are the registry check and the lookup of the command,
`Read` the state row and the version check, `ControlCommit`/`Conflict` the
transaction and its failure, `Reply` and `Lose` the answer, told or lost.
Handlers are not tied to processes: a kill is `Lose` for each of them. A key
stands for (actor, key), a request for the hashed body.

### DurableRun and JobRuns

One record per call of `run_connector_durably` with its place (`pc`) and local
variables. The source behind the connector is an append-only feed read by
offset, which is what the fixture connector does and what a checkpoint of the
paged workers amounts to. `LoseCommit` is a commit inside the inner `try`
(rolled back, then marked as failed), `LoseMark` an error where nothing marks
the run any more, `CloseFails` and `Kill` the rest. `Overlapping` bounds the
calls in progress at one time: there is no lease, so the recovery runbook only
forbids what `durable_overlap` allows (two calls by command line, or one beside
the queue).
`JobRuns` joins `JobLifecycle` (as proved or checked for the queue) with
`DurableRun`: the worker's call is `BeginJob`, its end `EndJob`. No guard of `DurableRun` keeps
two calls apart there (`Overlapping` is 2): that calls do not overlap, and that
the checkpoint therefore never moves back, comes from the queue.

### GitHubSnapshot

`upstream` is the result list at the server, which may change between any two
requests. A page of the search is a URL, so the five caches per URL are one
entry. `Collect` is the request: the server answers from the whole list, or
from part of it with `incomplete_results`; when the answer equals the cached
one it may be a 304 (`fresh` FALSE), and it may still be a 200 with new
content. `Commit` is the rest of `collect`, `sync_deletions`, the upsert, the
tombstones and the checkpoint, which are one transaction of the runner;
`Drop` is any failure before it. `Before` and `KeepsOrder` say what a change of
the list may do: a record goes or comes, and the others keep their order. Counting to two is the set `missing` (count
one) and membership at the next absence. Left out: the eviction of URLs from
the caches (never happens with one page size: a cycle has at most `max_pages`
URLs), retries inside a request, record contents.

### SnapshotScheduler

`Begin` reads the clock once; `LastTriggered` compares one schedule with its
last job; `Consider` and `Insert` are `_queue` up to and including the commit;
`Submit` is the hand-over or the mark as failed, after which the slot has its
job either way. `open` stands for everything that may refuse: approval,
source control, the queue limit. Schedules are taken in any order. One process
serves at a time; the thread of a stopping process meeting the next one at the
insert of a slot is a race of two `SlotCommands` threads in `CollectionJobs`,
which `CommandsUnique` covers with and without overlap.

### HookCircuit

A run is one invocation of the command line: `HookStart` loads the approval
and may reset the circuit, `HookFirstPage`/`HookNextPage` are the checks
before a worker (circuit, approval of the checkpoint, hash of the runner),
`HookAnswer`/`HookFail` the worker's end with the categories of
`_build_batch`, `_record` and `_run_worker`, `HookClose` is
`_record_success`, `HookCount` and `HookWrite` are the read and the write of
`_record_failure`, `HookCommit` the commit of the page; `HookExpire` is an
authorization that ends between two pages. The count and the write
are two steps because the file is read and replaced without a lock.
`HookEscape` is a record that raises before it is checked: with the archive,
which the command line always sets, `record_links` index it by its identity,
and a `KeyError` or `TypeError` is not counted. `HookBreak` is a kill or an
exception of anything else than the page. The runner file can be
replaced (`HookReplaceRunner`) and reviewed anew (`HookReview`).

### PageFiles

One collected page from the job file to the committed record: `PageWriteJob`
.. `PageTidy` are `run_json_worker` with its time limit, `terminate`, `kill`
and `finally`, against a worker that writes its result in two steps. The job
file is put in place before the `try`, so that `PageJobFails` may leave its
temporary; the removals of the `finally` clause are taken to succeed.
`PageStore` .. `PageReplace` and `PageStoreFails` are `RawArchive.store`; `PageCommit` the
commit of a record that names the file. Two calls archive the same bytes.

### StaticWeb

`WebCollect` is a batch from `offset`: every page is present (also by a 304
with its body in the HTTP cache), missing, or in no report: an exception in the
callback of the crawler is only logged, and nothing compares the reports with
the pages that were selected (`WebDropped`). A critical one discards the batch
(`WebCollectFails`). `WebCommit` stores the visited offset,
absence counts, validators and deletions. `WebEditPolicy` changes the policy
file, `WebBreak` is a failed commit or a kill. The module and its theorem are
about any number of invocations (the counts of pages are claimed only while
none overlaps another); the run has one invocation, so it checks them one by
one. What overlap does to a checkpoint is the subject of `DurableRun`.

### SearchSlices

A slice is a pair of query and engine, read page by page: `SliceItems` with
new results (an engine may be silent beside others), `SliceEmpty`,
`SliceFails`, `SliceClose` at its end (`sliceBrought` is `len(records)`). The connector checks the
worker's diagnostics again (`SliceRefuse` where it does not accept them) and
the job derives `coverage_status` (`SliceStore`, `SliceError`).
`sliceTruth` is what really happened.

### SignalSeries

Each answer of the source has a scale of its own (`SignalAnswer`, with a date,
a keyword set and a context of its own). `SignalCommit` upserts records under
the identity the worker computes; `SignalServed` is the projection of
`api/trends.py`. The limit on scanned rows and the requested window of days
are abstract: every stored day is served.

### VideoSample

`VideoSearch` is any list of at most `VideoTop` entries, valid or not, with
repetitions. `VideoAnalyzed` is `analyze_sample`; `VideoConsistent` the checks
of the API's view, which counts again from the evidence; `VideoShares` the
series of the trends page. Titles and aliases are abstracted to the brands
they match.

### NormalizationRuns and DuplicateGroups

`NormScan` is the first half of the lineage backfill (archive and records are
read), `NormRead` the second (`NormFill`: the updates by key) with the read of
the run's input, `NormStore` its transaction, `NormReplay` the
run that exists already (its memberships are filled in if a migration left
them empty), `NormRollback` the flush that fails (a version the unique key
refuses, or an error). `NormCollect`, `NormDelete`, `NormConfigure` and
`NormUpgrade` are what happens around it. One normalization run is in
progress at a time in the checked instance, with collections between its steps.
`DuplicateGroups` steps through the loops of `cluster_duplicates` for every
choice of three texts and hashes; a band of 16 bits is one bit, which gives
the distances around the limit (0..4). The reference definition is
connectedness of the alike documents (`DupChained`).

### PluginRuns

`PlugSend`, `PlugAnswer` and `PlugFail` are one batch in the host process;
`PlugValid` the check on the runner's side; `PlugSucceed` and the refusals
store an attempt. `PlugConfigure` changes activation and the reviewed source
between attempts.

### ProfileStore, VisualStore, ReadinessCache

The two stores publish a directory by a rename; `ProfSets`, `ProfPolicy`,
`ProfTask` are the three dictionaries a save fills one after the other while
threads that hold no lock read them, and `VisPutImage`/`VisPutManifest` the two
files of an upload. A kill may come anywhere, and the next start reloads the
directories. `ReadinessCache` has a clock, a dependency that comes and goes,
and requests that look at any time between their begin and their store.

### ConsoleLauncher, LabGate, DatabaseCopies

`ConsoleLauncher` follows `ConsoleSupervisor.run` of two processes: lock,
state file, migration, children (start and kill job are two steps), readiness,
signals, the `finally` block, and kills at any step, after which Windows
closes the lock and the job. Every state write may fail: the first one ends the
process (`LaunchQuits`), a last word is then not said (`LaunchSays`).
`LaunchScripted` is the rest of `scripts/stop-console.ps1`, which terminated the
supervisor it found in the file and then writes the file itself.

`LabGate` reads its files one by one while people edit them. What a gate
decides is audited (`LabVerified`, `LabApproved`); a manifest, a finding or a
review that cannot be read, and an actor that no event may name, are answered
`rejected` by the command line as well, outside the gates and with no event of
their own (`LabNoManifest`, `LabUnreadable`, `LabUnnamed`). `LabRaises` is an
exception of any other kind.

`DatabaseCopies` has backup and restore of `storage/backup.py`, each with its
verification (digest, look, digest again are steps; people may edit a copy, to
bytes it never had); `verify` as a command of its own is those steps without a
copy and is not a call of the model. `upgrade_database` by several processes is
taken statement by statement: look, backup, then what alembic does on SQLite,
where every DDL statement commits by itself: the version table (`CopyRead`), its
row (`CopyStamp`, `CopyMove`), and for each revision the first and the last of
its statements (`CopyAlter`, `CopyMake`). A statement fails where its table or
column is there already; a process may end after any of them.

## Runs

| run | question | states | properties |
|---|---|---|---|
| `jobs_safety` | processes one after the other, queue limit 1, one lost commit | 190 k | `TypeOK`, `OneJobPerCommand`, `AnswersAgree`, `RunAtMostOnce`, `RowsBounded`, `FinalIsFinal` |
| `jobs_live` | refinement of `JobLifecycle`; every job settles, under `FairSpec` | 36 k | `ImplementsLifecycle`, `JobsSettle` |
| `jobs_orphans_reopened` | violation | | `OrphansStayClosed` |
| `jobs_over_limit` | violation | | `QueueLimitHolds` |
| `durable_overlap` | three calls, two at a time, one fault | 1.75 M | `FeedComplete`, `RunsAccounted` |
| `background` | concurrent commands against `VersionedSwitch`; job row against run row and the calls the queue makes; two processes and two schedules: each with its fairness | 282 k | `AuditTrail`, `AnswersTrue`, `ImplementsSwitch`, `JobsAgree`, `RunFrozen`, `CheckpointAdvances`, `RunsSettle`, `DueIsUnserved`, `SlotsAdvance`, `CurrentSlotServed` |
| `connectors` | GitHub (611 k states of it), hook, page files, static web, SearXNG, signals, YouTube | 1.00 M | `ConnectorTypeOK`, `RememberedIsStored`, `OneRemovalHarmless`, `TombstoneNeedsTwo`, `HookOpensInTime`, `PageKept`, `WebPagesTrue`, `SliceCoverageTrue`, `SignalOneScale`, `VideoShareHonest` |
| `github_tombstoned_seen` | violation | | `SeenIsLive` |
| `hook_reopened` | violation | | `HookStaysOpen` |
| `records` | normalization, duplicates, plugins, profiles, readiness, visual projects, console, reverse lab, database copies | 0.94 M | `RecordTypeOK`, `NormTrue`, `DupGroupsRight`, `PlugWhole`, `ProfKept`, `ReadyAnswerRecent`, `VisImageKept`, `LaunchOneConsole`, `LabDecisionsHold`, `CopiesHold` |
| `norm_rearchived` | violation | | `NormVersioned` |
| `console_unclosed` | violation | | `LaunchClosable` |

Several properties are conjunctions of named parts, each with a comment of its
own in the module (`RowsBounded`, `AuditTrail`, `FeedComplete`, `PageKept`,
`WebPagesTrue`, `SliceCoverageTrue`, `NormTrue`, `ProfKept`, `CopiesHold`).
Every property of a passing run has a mutant (a definition marked `Mutant` in
the module) that breaks it: a guard dropped, an off-by-one, a lost reset.

What the new properties say, beyond one component's happy path:

- `HookOpensInTime`: the circuit file is open exactly when what the runs counted
  says it must be, neither one failure late nor early; what ends a run
  uncounted changes neither. Overlapping runs and a kill between a failure and
  its record are excluded (`hookClean`). It is about failures that are counted:
  a misfit record is not (see below).
- `PageKept`: a call whose worker started and that answered or raised left no
  process and no file a later call could take for its result; one that failed
  earlier leaves at most the temporary of its job file; every committed
  record's archive file is complete.
- `WebPagesTrue`: deletions follow exactly two absences in a row, among the
  committed reports about the page, over discarded and cut batches and visits
  without a report; every page is requested in its turn; 304 only for stored
  pages.
- `SliceCoverageTrue`: complete and partial, in the records and in the job, are
  what the engines did; worker and connector agree on every mixture.
- `SignalOneScale`: a served series never joins values of two answers.
- `VideoShareHonest`: the API refuses nothing the connector stores, and a
  share is served only of `top_k` valid videos.
- `NormTrue`: lineage names an archive that holds the record, and memberships
  account for every input, after backfills, replays and upgrades.
- `DupGroupsRight`: the bands miss no pair within the distance and groups are
  the connected components.
- `PlugWhole`: outputs of all batches or of none.
- `ProfKept`, `VisImageKept`: readers without a lock and starts after a kill see
  whole entries only, and what was answered stays.
- `ReadyAnswerRecent`: no answer is older than the cache allows, a forced one
  never older than its request, although an older check may be stored last.
- `LaunchOneConsole`: children belong to the holder of the lock or to a killed
  supervisor, and are outside the kill job only where that supervisor was
  between start and job, or ending; the state file is the holder's word except
  for a late `stopped`; `ready` is said of no supervisor that ended by itself
  and could write its last word. The documentation promises more, stated by
  `LaunchClosable`: every child is of the supervisor that the state file names
  and that holds the lock, or is in the kill job of one that was killed. That
  one fails.
- `LabDecisionsHold`: every decision of a gate is in the audit with exactly its
  events; a refusal without one is for a manifest, an actor or an unreadable
  record, and no such call is ever allowed; a promotion rests on an
  authorization valid after the sample was verified.
- `CopiesHold`: printed evidence is true of the copy; a legacy database is
  registered only after a verified copy of it; while no two processes adopt it
  at once there is one registered revision, at most the one that was being made
  behind the tables, whatever statement an upgrade ended after.

### What the violations say

1. **A restart does not close a job for good** (`jobs_orphans_reopened`). A
   worker that drains in the old process writes its result over a row the new
   process closed as `api_restarted`; `docs/operations_api.md:57` leaves such
   rows to a person. It needs overlapping processes: with `Overlap` false,
   `FinalIsFinal` holds.
2. **A tombstone survives a 304** (`github_tombstoned_seen`). A record on a
   later page disappears (and the page with it), is tombstoned, and comes back
   unchanged: the page equals its cache entry, the 304 counts the record as
   seen and brings no record, and the row stays deleted while a complete
   snapshot contains it (`storage/models.py:87`).
3. **A success closes an open circuit** (`hook_reopened`). A run that passed
   the check before another one opened the circuit succeeds, and
   `_record_success` writes a closed one. `docs/authorized_hook.md:31` says
   that the circuit stays open until the operator resets it.
4. **A record that is archived anew stops normalization** (`norm_rearchived`).
   The identity of a version covers the archive, the unique key of the table
   does not: same content and configuration with another archive makes a new
   identity that the key refuses, and the run fails
   (`docs/normalization.md:25`, `storage/models.py:132`).
5. **The queue limit is not a limit** (`jobs_over_limit`). Two requests count
   the active jobs before either inserts its own, and both pass; *n* concurrent
   requests exceed the limit by up to *n* - 1 (`RowsBounded` has the bound that
   holds). `docs/operations_api.md:51` promises at most 20.
6. **Closing the console may leave a part of it** (`console_unclosed`). A
   supervisor is killed between `Popen` and the kill job: the child lives on
   with its port, outside the job (`docs/local_console.md:17`, `:19`). With
   `LaunchKills = 0` the same property fails in another way: a supervisor that
   has released its lock writes its late `stopped` over the word of the one
   that took it, and the scripts, which find the console by that file, find
   none (`docs/local_console.md:13`).

The passing runs also take steps that the documentation does not expect. There
the property says what is left of the promise, and these have no run of their
own:

- **A misfit record never opens the circuit** (`HookEscape` in `connectors`). A
  record without `source_record_id`, or one that is no object, ends the run with
  a `KeyError` or `TypeError` before `_record` would refuse it, and nothing is
  counted; schema drift and policy violations are meant to pause the connector
  (`tests/test_authorized_hook_connector.py:153`, `docs/connector_sdk.md:35`).
- **A refusal outside the gates is not audited** (`LabNoManifest`,
  `LabUnnamed`, `LabUnreadable` in `records`): manifest, actor, finding and
  review (`docs/reverse_lab.md:19`). `LabDecisionsHold` states which events such
  a call has: none, or the allowed verification alone.
- **An interrupted upgrade cannot be repeated** (`records`). The tables of a
  revision are made statement by statement and its number is written last;
  after an end in between the next upgrade fails at its first statement
  (`docs/normalization.md:56`). `CopiesHold` bounds how far number and tables
  are apart.
- **Two adoptions register too old a revision** (`records`). The second process
  looked before the first stamped, and stamps over upgraded tables
  (`docs/normalization.md:58`). `copyOverlap` marks these behaviours;
  `CopiesHold` claims the backup for them, and the revision only for the others.
- **A record nobody misses** (`connectors`). A GitHub record stored by an
  incomplete cycle that is gone before the next safe one is in no snapshot, so
  no tombstone follows (`connectors/github_issues.py:235`).

### Bounds, and why they are enough

- Queue: three processes give a crash of a restarted process; two threads
  are enough for every pair of racing requests (and the overrun grows by one
  row per further thread); three jobs and commands exceed the queue limit
  and its overrun; one scheduler command beside client keys makes both kinds of thread meet.
  One lost commit per behaviour: the bounds of the properties are stated in
  terms of `faults`, and each fault strands one row independently.
- Source control: two sources (one allowed), two keys, two handlers and
  versions up to two: a key can be reused for another source, version and
  effect, and two changes can race for each version. (Each further key only
  adds commands that are refused or answered like these; the proofs are for any
  set of keys.)
- Durable runner: five records in pages of two with a limit of two pages:
  full and partial pages, a loop ended by the limit with more behind it, and a
  third call that goes on; two calls at a time make every race of two writers
  of one checkpoint.
- GitHub: three records and two pages give a cycle cut by the page limit, a
  complete one, and one mixed from two lists; three changes allow a record to
  go, another to go, and one to return.
- Hook: two runs, a threshold of two failures, two pages: a streak over
  several runs, a success between failures, a failure on the second page.
- Page files: two calls with the same bytes and two kills.
- Static web: three pages in batches of two and one.
- SearXNG: three slices of two pages with up to two results, a limit that is
  reached in the third slice, and a reason of each class (barrier, transient,
  drift, limit).
- Signals: two overlapping runs, two keywords, three days in windows of two,
  two answers: two scales that meet on a date.
- YouTube: two brands that may claim one channel, two videos, `top_k` 2.
- Normalization: two records, two contents, two configurations, two
  collections around one run. Duplicates: three documents make a chain.
- Plugins: three accepted documents in batches of two, two attempts.
- Stores: three entries against a limit of two, two kills. Readiness: two
  requests and four points of time around an age of two.
- Console: two supervisors, one kill. Reverse lab: one call, two targets, two
  edits between its reads. Copies: two paths, one commit of the live database
  during a copy, three revisions of which the first is the legacy one (so an
  upgrade may end inside a revision and between two), two commands and two
  upgrades, explored as pairs (`CopyPair`): a backup beside an upgrade, two
  backups or restores on two paths, two upgrades or adoptions of one database.
  Evidence is bounded (`CopyAnswers`): one answer can be followed by
  a command that restores it or meets its path.
- Scheduler: intervals of one and two units, anchors 0 and 1, four points of
  time: before the anchor, on a boundary and inside a slot, and a missed slot.

Symmetry is used only where processes, threads, jobs, keys, records and runs
are interchangeable in every definition of the run (no `CHOOSE` over them),
and never in the liveness runs. `connectors` permutes GitHub ids, `records`
paths (the one `CHOOSE` over paths is of a set with one element). `jobs_*` make client commands interchangeable
with each other, not with scheduler commands. Deadlock checking is off where
the system can stop: all processes of the model used up, all runs made.

### Fairness

- `CollectionJobs.Fairness`: request threads and the pool thread are operating
  system threads that run when they can, connectors end by their own timeouts
  (`WF` of `ThreadStep`, `WorkerStep`, `Reconcile`, `Exit`); a stopped API is
  started again (`restart: unless-stopped`, `compose.yaml`). Crashes,
  shutdowns, requests and lost commits are not fair; processes are finitely
  many, and `JobsSettle` excuses the case that none is left.
- `JobRuns.FairJobsSpec`: a call goes on by itself; every await of a connector
  has a timeout.
- `SnapshotScheduler.FairSlotSpec`: the loop polls for ever, and as above for
  `Start`. Time need not pass.
- `BackgroundSpec` has the fairness of both, each on the steps of its own part.

## Theorems

TLAPS proves these for every value of the constants that satisfies the named
assumption of the module (`JobsAssumption`, `DurableAssumption`, ...). Each
theorem about a state has an inductive invariant of its own (`...Inv`) that
was found with TLC on the run and is proved step by step, one lemma per action
or group of actions.

| module | theorem | property | extra hypothesis |
|---|---|---|---|
| `CollectionJobs_proofs` | `TypeCorrect` | `TypeOK` | |
| | `CommandsUnique` | `OneJobPerCommand` | |
| | `AnswersConsistent` | `AnswersAgree` | |
| | `NoRepeatedRun` | `RunAtMostOnce` | |
| `CollectionRows_proofs` | `FinalStaysFinal` | `FinalIsFinal` | `~Overlap` |
| | `RowsWithinBounds` | `RowsBounded` | `~Overlap` |
| | `RefinesLifecycle` | `ImplementsLifecycle` | `~Overlap`, `MaxFaults = 0` |
| `SourceControl_proofs` | `TrailComplete`, `AnswersHonest` | `AuditTrail`, `AnswersTrue` | |
| | `RefinesSwitch` | `ImplementsSwitch` | |
| `DurableRun_proofs` | `FeedNeverGaps`, `RunsAccountedFor` | `FeedComplete`, `RunsAccounted` | |
| `JobRuns_proofs` | `JobsAgreeWithRuns`, `RunsFrozen`, `CheckpointMonotone` | `JobsAgree`, `RunFrozen`, `CheckpointAdvances` | |
| `SnapshotScheduler_proofs` | `SlotsComputedAlike`, `SlotsNeverReturn` | `DueIsUnserved`, `SlotsAdvance` | |
| `Connectors_proofs` | `NothingForgotten`, `SteadyRecordsKept`, `TombstonesConfirmed` | `RememberedIsStored`, `OneRemovalHarmless`, `TombstoneNeedsTwo` | |
| | `CircuitOpensInTime` | `HookOpensInTime` | |
| | `PagesKept` | `PageKept` | |
| | `PagesTold` | `WebPagesTrue` | |
| | `CoverageTrue` | `SliceCoverageTrue` | |
| | `SeriesOfOneScale` | `SignalOneScale` | |
| | `SharesHonest` | `VideoShareHonest` | |
| | `ConnectorsWellFormed` | `ConnectorTypeOK` | |
| `Records_proofs` | `NormalizationTrue` | `NormTrue` | |
| | `GroupsRight` | `DupGroupsRight` | |
| | `AttemptsWhole` | `PlugWhole` | |
| | `ProfilesKept`, `ImagesKept` | `ProfKept`, `VisImageKept` | |
| | `ReadinessHonest` | `ReadyAnswerRecent` | |
| | `OneConsole` | `LaunchOneConsole` | |
| | `LabAccountable` | `LabDecisionsHold` | |
| | `CopiesReliable` | `CopiesHold` | |
| | `RecordsWellFormed` | `RecordTypeOK` | |

The two hypotheses are facts about a deployment. `~Overlap`: the old process
is gone before the next starts, which a service manager that waits guarantees;
without it `FinalIsFinal` is false (`jobs_orphans_reopened` shows it).
`MaxFaults = 0`: no commit of the executor is lost; a lost commit leaves a row
"running" that a restart closes, a step the lifecycle does not have. The runs
`jobs_safety` and `jobs_live` use them in the same way.

Assumptions on constants say what the code guarantees or what the notation
needs: threads, GitHub ids, profile ids and a plugin's documents are finite sets (they are
counted),
model values for "nothing" are distinct from real ones, `WebUrls` is a
non-empty sequence, limits are natural numbers, page and batch sizes and
thresholds are positive, the distance of duplicates is at most three (the
schema of the policy allows no more). TLC evaluates them in every run.

### The arguments

- **Queue** (`JobInv`). The right to start a job is a token that is born with
  the row and is held by exactly one of the inserting thread, one position of
  one queue, or one worker that fetched it (`ClaimsExclusive`); a job whose
  token is held was never started (`ClaimsFresh`). `Begin` consumes the token,
  restart and crash destroy tokens, `Reconcile` makes none. This is why
  `RunAtMostOnce` survives overlapping processes although rows do not keep
  their status then. For answers: what a thread submits is the row it inserted
  (`SubmitsOwnRow`).
- **Rows** (`RowInv`, `BoundsInv`). With one process at a time what is claimed
  is pending and what a process read at its start is all there is to close.
  The counts are counts of places: a thread between count and insert already
  has its place (`PlacesCounted`), a lost commit accounts for one row that has
  no owner (`OwnersCounted`) and one that runs beside the worker's
  (`RunningCounted`).
- **Source control** (`ControlInv`). What a writer read is still true, or the
  version it expects is gone and its commit will be refused (`WritersKnow`).
  The refinement maps the audit trail of a source to the sequence of changes.
- **Durable runs** (`DurableInv`). An offset a call holds is covered by stored
  records, whoever stored them (`OffsetStored`), so two calls may write the
  checkpoint in any order; a run that nobody will mark costs one fault
  (`LostCounted`).
- **Jobs and runs** (`JobRunsInv`). No guard keeps two calls apart: the queue
  does (`OneRunning`, `JobFollows`), hence a call is never behind the
  checkpoint (`Ahead`).
- **Scheduler** (`SlotInv`). Lemmas about division show that both
  computations of a slot agree and are ordered like the times they are for.
- **GitHub** (`SnapshotInv`). A cached page that can be replayed is the page
  that was committed (`HeldCached`). For a removal: a cycle that looks complete
  and misses a record that was there all along has met a removal in that
  cycle, and two such cycles have met two (`Evidence`).
- **Hook, page files, static web, SearXNG, signals, video**: the history
  variable is tied to what the program itself remembers (count and streak,
  file and call, absence count and consecutive absences, diagnostics and
  failed pages, identity and answer, evidence and analysis).
- **Duplicates** (`DupInv`). Parents only go down, so that the climb of `find`
  ends at a root within as many steps as there are documents; a union hangs
  one tree under another and moves no other (`DupHung`); a tree is always
  linked by alike documents (`DupLinked`); and four bands cannot all differ
  within a distance of three (`DupShareBand`). The induction over the climb
  is a search for the smallest counterexample (`DupSmallest`).
- **Normalization** (`NormInv`). What a run has read stays proved by the
  archive until the record is collected again; what is stored has all of its
  versions.
- **Copies** (`CopyInv`). What a command compared is tied to what the file is
  (`CopyReadTrue`), so its evidence cannot be of other bytes. For the upgrade
  (`CopyAdopts`): before there is a version table the schema does not
  move, and who is about to stamp has kept it; after that, and while adoptions did not overlap, there is one place the upgrade
  is at, between the tables and the row (`CopyOrderly`), because a second writer
  fails at the statement or the row that the first one has made.
- **Plugins, profiles, images, readiness, console, lab**: what is
  public is whole because its parts were there before the rename, the row, the
  event or the state file that publishes it.

A theorem about a component is about the specification of its own module
(`HookSpec`, `CopySpec`, ...). `ConnectorsWellFormed` and `RecordsWellFormed`
are about the joint specifications: every behaviour of `ConnectorsSpec` or
`RecordsSpec` is one of each component (`ConnectorsAlone`, `RecordsAlone`), so
that what is proved of a component holds in the runs `connectors` and
`records`, and the type invariant of each component follows from its inductive
invariant and, for the variables that one leaves out, a typing of their own
(`...WellFormed`). That a search brings no more than slices times records of a
slice is the one part with arithmetic (`SliceBounds`).

Only model-checked: the liveness properties `JobsSettle`, `RunsSettle` and
`CurrentSlotServed` (TLAPS here proves no liveness under fairness).

## Not modelled

- Two API processes that serve at the same time: the documentation excludes
  them (`docs/local_console.md:40`). Note that uvicorn runs the lifespan
  before it binds the port, so even a start by mistake closes the open jobs of
  the serving process.
- Contents of records, hashes, payload projection, authentication of a
  request, wording of errors. They enter as model values or refusals.
- Two runners on the GitHub source, `github_cli.run_collection`'s handling
  of exceptions other than `ConnectorFailure` (the run stays `running`), and
  retries and classification of GitHub's responses.
- Quality events of a normalized field and the rules of language, time and URL:
  functions of one record without state.
- The read-only projections of `api/ops.py`, the UI, authentication, metrics,
  measurement and source registries, configuration, installation scripts:
  they change nothing another step could see wrongly. The tables' columns
  appear as variables of the modules that use them.
- In `DatabaseCopies`: PostgreSQL, `verify` as a command, and a start beside a
  version table with several rows, where alembic stops (a failure of the model
  like any other).
- In `PageFiles`: removals of the `finally` clause that fail.
- A static page whose 304 finds no body in the HTTP cache is reported as a
  blocked redirect and ends every later batch; the model has it as a critical
  observation.

## Plan

All components with state of their own are modelled, and every safety property
of the passing runs is proved. What is left:

- An abstract `RecordStore` (latest representation of a source-side record)
  that `DurableRun` implements, and that `GitHubSnapshot` misses only where
  `SeenIsLive` shows it.
- The refinement of `JobLifecycle` with lost commits: a lifecycle that names
  the row a fault strands.
