# A verification project for AI-Practise

TLA+ models of the parts of this repository that have state, concurrency and failure: the
multi-agent big-data demo (`src/Multi-agent Bigdata Demo/demo/app`, written `app/` below) from
the prompt of a run to the end of its execution in the cloud, its evaluation harness, the log
collector of the Grafana package and the chat sandbox. TLC checks the models on small instances;
TLAPS proves the main safety theorems for every value of the constants.
`PROJECT.json` lists the components, runs, mutants, the map from definitions to source
lines, findings, hazards and theorems.

## 1. Inventory

The repository is a collection of practice projects. Most are one-shot scripts, data,
static sites and skill documents. The components with behaviour of their own:

| Component | State | Operations | Hard behaviour | What makes it correct |
|---|---|---|---|---|
| Control store (`app/production_control.py`) | tables of approvals, releases, execution requests, events | record approval and release; create, approve, cancel, claim, update a request | several processes read a row in one statement and write it in another, without a version check; row locks only in the claim; unique key | four eyes, one owner, one job per key, withdrawn requests never start |
| Execution worker (`app/execution_worker.py`) | one claimed request, a job id, the start time | claim, submit, check, poll, cancel, record | crashes anywhere; lost answers; timeout; cancel racing a poll | success is earned; nothing is lost without a fault; every execution ends |
| Cloud adapters (`app/huawei_execution.py`) | none; the services keep the jobs | submit, poll, cancel for MRS, DataArts, dry run | refusals, errors, DataArts polled by name | a result is the job's own |
| Release gate (`app/artifact_store.py`, handlers of `app/main.py`) | status files of the run's directory, and the approvals and releases tables | review, release, bind, standardize, probe, import review, request | files and database are written one after the other, and a handler's files too, with no transaction over them; files outlive what they describe | what is executed was approved; evidence belongs to what it is used for |
| Generation (`app/agent_graph.py`, `app/maas_client.py`, `persist_run_package`) | the state handed from node to node, then a directory | nine nodes, two calls to MaaS at most, one file after another | any answer of a model; a stream closed by its reader; a crash or a full disk between two files | only supported contracts and whole packages are released |
| Evaluation harness (`app/evaluation.py`) | comparison directories, a library of failure samples | compare, list samples, replay; one case drives a run through every handler's function | coroutines on one loop; settings that change; files that are torn or older than the library | a verdict is earned; failing cases are kept; evaluation approves nothing for execution |
| Log collector (`grafana/.../dataarts-log-collector/app.py`) | saved signatures, the served page | `sync_once` in a loop | push before save, crash and retry, objects that grow, limits | no line lost, duplicates only by change, crash or failure |
| Chat sandbox (`chatbi/src/sandbox/backend`) | session history, answer cache | chat, clear | coroutines interleave at awaits, deletions run in a thread; a cache across sessions | history is a sequence of question and answer pairs; what was deleted stays deleted |
| Cloud cleanup (`.../cloud_cleanup/function/index.py`) | none; the cloud's resources | one dated function, run again by a timer | asynchronous deletes, order, bounded retries | not modelled |
| Metadata, auth, chat BI of the demo, exporters, sites, lakehouse and migration packages, gateways, proxy and editor setup | none, snapshots or files | one call each, or scripts | sequential, operator driven | not modelled |

How they interact. The web handlers call the artifact store (files) and then the control
store (database). A generation writes the directory the handlers work in; an evaluation case
calls the generation and then the handlers' functions, without the database. A worker shares
nothing with the web process but the database, and calls the cloud through the adapters. Only the
release hash crosses from the gate to an execution request. The handlers of the gate are
`async def` without an `await` in the body, and the deployment starts one uvicorn process without
`--workers` (`demo/cloud_real_bigdata/scripts/06_deploy_frontend_to_ecs.ps1:136`), so they run
one after the other; workers are separate processes and interleave with them statement by
statement. Generation and evaluation await the calls to MaaS and nothing else. The collector
and the chat sandbox are deployments of their own.

## 2. Modules

| Module | What it is |
|---|---|
| `AuthorizedOnce` | abstract specification: a request is requested, authorised by another actor or withdrawn, started once, launched at most once; `LaunchedWasAuthorized` is what a reader wants of it |
| `ExecutionControl` | the control store's requests, web handlers, workers, cloud jobs, faults; next-state relation and fairness |
| `ExecutionProperties` | the properties of `ExecutionControl`, and the refinement mapping to `AuthorizedOnce` |
| `ReleaseGate` | the run directory's status files and the approvals and releases tables, with properties |
| `AgentRun` | one generation: the nodes, MaaS, the files of the package |
| `RunLifecycle` | the composition of `AgentRun`, `ReleaseGate` and the steps of an evaluation case; it implements `ReleaseGate` |
| `Evaluation` | comparisons, failure samples and replays |
| `AtLeastOnce` | abstract specification: items are delivered before they are recorded |
| `LogCollector` | the collector with OBS, DataArts and Loki; it implements `AtLeastOnce` |
| `ChatSandbox` | chats, sessions, the cache, deletions |
| `ExecutionProofs`, `ExecutionFaultProofs`, `ExecutionRefinement` | theorems about `ExecutionControl`, one on the other |
| `ReleaseGateProofs`, `RunLifecycleProofs`, `EvaluationProofs`, `LogCollectorProofs`, `ChatSandboxProofs` | theorems about the module each is named for |
| `MCExecution`, `MCReleaseGate`, `MCRunLifecycle`, `MCLogCollector` | symmetry sets and a bound given as a function, for TLC |

### ExecutionControl

`row` is `sat_execution_requests` in the order of `requested_at`; `audit` is the set of
events the handlers and the claim wrote; `jobs` is what the cloud accepted; `web` is the open
transaction of each web process; `wk` is the program counter and the locals of each worker;
`faults` counts crashes, database errors and lost answers.

The grain is the database statement. SQLAlchemy loads a row in one statement and writes, at
the commit, the columns whose value differs from the loaded one; PostgreSQL's default is
READ COMMITTED. So `approve_execution` and `cancel_execution` are `...Read` and `...Commit`,
and `update_execution` is `UpdateRead` and `UpdateCommit`: a progress update that loaded
"running" does not write the status at all, one that loaded "cancel_requested" overwrites it.
The claim holds a row lock from `ClaimLock` to `ClaimCommit`, for which other writers wait.
A failed creation changes nothing, so it is not a step; the insert and its unique constraint
are one statement. The local tests run on SQLite, which ignores `SKIP LOCKED`; the model is of
the deployment's PostgreSQL.

The worker follows `run_once` line by line: `SubmitAccepted` and the first update, then the
loop of `CheckCancel`, `CheckTimeout` or `CheckPoll`, `Poll`, and an update. Every cloud call may
raise (`SubmitRefused`, `CancelRaises`, `PollRaises`) and goes to `Handler`, the
`except Exception` that records "failed" without a job id. `SubmitUnanswered` is a job
accepted with its answer lost; `DatabaseRaises` and `RefreshRaises` are database errors inside
the `try`; `Crash` loses the worker's memory and its lock; a database error in the handler
ends the process, which is `Crash`. DataArts is polled by name: `Polled` is the status
of any DataArts job accepted since the submission (the newest one listed, and a job is listed
some time after it was accepted), or none yet. One DataArts profile is modelled, so all DataArts
requests share its job name, which is when the name matters. `min_plan_time` is taken as the
order in which the service accepted the jobs.

Left out: times, notes, evidence, error texts, the validation of parameters (its result is that
no row is created, or `SubmitRefused`), `release_hash` (see `ReleaseGate`), reads.

### ReleaseGate

One run of artifacts that require review. `content` is the artifact files and everything
else is a status file or a table; contents stand for their SHA-256. A handler is one step, since
nothing interleaves with it, unless it ends between two of its writes. Its database part may fail
after its file part was written (`ReviewUnrecorded`, `GenerateUnrecorded`), which is how the two
diverge. Two handlers write more than one file that another handler reads, and a crash or a
refused write may cut them short: `GenerateCut` leaves the new `release_manifest.json` (`manifest`)
beside the status file of the release before (`artifact_store.py:329,337`), and `BindCut` ends behind
`release_status.json` or behind `release_manifest.json`, before `cloud_binding_status.json`
(469, 474, 476). `halfBound` is a history variable: the manifest's evidence is that of a binding
which was cut short. The other handlers write what is modelled of them in one file, their last, so
that cutting them short changes nothing here; a torn file makes its readers raise, which is no
step, until it is written again. `release` is the release that the status file names. `EditArtifact` is an
edit outside the application, for which `release_readiness` compares hashes. Checks of values
that operators type, of rendered packages and of the cloud are Boolean inputs: `Bind(_, ok)`,
`Standardize(ok)`, `ImportReview(ok)`, `Probe(_, ready, real)`. A package contains its
generation time in microseconds, so releases never share a hash and an id stands for it.
Execution is enabled and `SAT_REQUIRE_REAL_CLOUD_PROBE` is on, as in the documented deployment.
The module starts with the package on disk and every quality gate passed; `RunLifecycle` says how
that comes about.

### AgentRun and RunLifecycle

`AgentRun` has one action per node of `agent_graph.py`. `contract` is what later nodes read of
the business contract: the names it serves, whether it states a goal and whether its approval
policy blocks execution. `MaasAnswer` is any contract after `normalize_business_contract`,
`LocalAnswer` the local one (not asked for, not configured, or the call raised),
`MaasUnparsable` the second, shorter call after an answer without JSON. `AuditFailures` are the
findings that can fail (CA-001, CA-002, CA-003, CA-007, CA-008), `FailedGates` the gates that
can (FG-002, FG-003). CA-004, FG-001, FG-004 and FG-005 pass on every contract that the nodes can
produce from an accepted prompt, and FG-006 is always "blocked", which is not "failed"; they are
left out. `PersistFile` writes one group of files of `persist_run_package`, in its order;
`PersistRaises`, `Disconnect` (a closed stream, at a yield) and `Crash` end a generation.

`RunLifecycle` puts the two side by side: `AgentStep` is a step of the generation, `Handle` a
handler of the gate when the event loop is free, with the conditions `Reviewable` and
`Releasable` on the files the generation wrote, and `Harness...` are the steps of
`run_eval_case`, which approves every artifact in the status file (never in the database),
releases, binds and reviews the import without an `await`. `HarnessStops` is a step that raises
or a process that dies, `HarnessCut` the same between two writes of a release or a binding:
nothing is undone.

### Evaluation

One action per case and per file of a comparison, since coroutines give way only while a case
runs and the process may die between two files. `local` and `maas` are the outcomes of the cases
so far: how many checks passed and whether MaaS wrote the contract. `Verdict` is
`build_comparison_verdict` and `CaseStatus` is `build_case_comparisons`, with their clauses in the
order of the code; `Restored` is `ensure_failure_samples_from_existing_comparisons`, `StartReplay`
the selection in the code's order. `Configure` switches the MaaS settings at any time;
`TornWrite` is what a crash or a full disk leaves of the file at hand; `Archived` comparisons are
older than the library of samples, and of any outcome such a comparison could have had.
A single-branch evaluation is the first half of a comparison. The verdict compares totals:
`Score` counts the pairs of a case and a check that passed (`Checks`). Comparisons are finitely
many, since each was requested.

### LogCollector

An object is a log that only grows; its version is its length and stands for its ETag and size.
`sync` holds the locals of `sync_once`: the listing, the objects that changed, those still to
read, the batch at hand. The order is the code's: instances, listing to `MAX_LOG_OBJECTS`, then
for each batch the downloads, the push, `save_state`, and at the end the flush and the new page.
A download returns the object as it is then, the signature saved is the listing's. Calls
fail (`CallRaises`, an unread object, a hidden job), Loki's answer gets lost (`PushUnanswered`),
the container dies (`Crash`), the state file may be unreadable afterwards (`Restart`).
`Loki` keeps one copy of equal lines of one stream, and the stream is named by the instance's
status, so an object whose instance ends goes to a second stream.

### ChatSandbox

A chat is a coroutine with its program counter, attempts and outcome. It keeps its
process to itself but for the awaits (`sql`, `insight`). `delete_session` is a plain `def`,
which FastAPI runs in a thread, so it may come between any two steps of `add_turn`, which is
why `EnsureSession`, `AppendTurn`, `TrimRead` and `TrimStore` are separate. The cache is keyed by
the question alone. `gone` and `raced` are history variables for `ClearedStaysGone`. Each process
has sessions and a cache of its own, and a request goes to any. Chats are finitely many, and
`MaxTurns` is at least 1.

## 3. Runs

All `CHECK_DEADLOCK FALSE`: clients may stop asking, and the bounds end every behaviour.

| Run | Bounds | States | What it asks |
|---|---|---|---|
| `ExecutionConcurrency` | 2 requests, 2 keys, MRS, 2 actors, 2 workers | 1.5 M | types, four eyes, one owner, one job per key, withdrawn is final, refinement of `AuthorizedOnce` |
| `ExecutionFaults` | 2 requests, all targets, 1 worker, 1 fault | 2.7 M | success is earned; rows are stranded and jobs untracked only by faults; no execution is taken up twice; ended rows are left alone |
| `ExecutionLiveness` | 1 request, all targets, 2 workers, 1 fault | 21 k | a queued request ends; workers come back |
| `ReleaseGate` | `RunSpec`: 1 artifact, 2 contents, 1 resource, 2 releases, 1 request, 1 dimension, 1 metric | 1.5 M | from a prompt to an execution request: whole, supported, approved, bound; refinement of `ReleaseGate` |
| `LogCollector` | 3 objects of up to 3 versions, one of which ends, cap 2, limit 2, batches of 1, 1 fault | 143 k | recorded was pushed; the page is truthful; pushes per change; refinement of `AtLeastOnce`; every reachable log is ingested |
| `ChatSandbox` | 3 chats, 1 process, session and question, 2 pairs of turns, 1 deletion | 215 k | the shape of the history; nothing is lost, nothing comes back; what the cache holds; every chat ends |
| `Evaluation` | a comparison beside an archived one, 2 cases of 1 check, a replay of 2 | 174 k | verdicts are earned and agree with the cases; failing cases are kept; whatever begins ends |
| `LostCancel`, `TerminalOverwritten`, `DataArtsByName`, `StaleApproval`, `StaleProbe` | smallest that show it | - | documented claims the code does not keep |

Why the bounds are enough to be interesting.

- Execution: two requests and two workers are the least with a race for a row, a wrong owner, a
  key used twice and a foreign DataArts result; one fault reaches every step of an execution,
  since it can strike anywhere.
- Gate: two contents and two releases give every combination of a stale file with a fresh one. A
  second artifact multiplies the states without adding a combination, as no operation relates two
  artifacts; the theorems cover any number. One binding is enough for the first release to leave a
  ready status file behind, and a cut can come at every place of each of the two releases. A contract serves any subset of a dimension, a
  metric and an unsupported name, in either list.
- Collector: with three objects and a cap of two, the last one is cut off once the two before
  it exist; two objects in batches of one are the least where a batch
  fails after another was saved; a version above the limit exists; one object ends, so that
  its content goes to a second stream.
- Sandbox: a third chat is the first to be trimmed from two pairs, and three chats interleave at
  every await. One process is enough because processes share nothing; the theorems are for any
  number of processes, sessions and deletions.
- Evaluation: a case with a failed check beside a passed one, a gain beside a loss, MaaS used in
  one case and not in the other; an archived comparison to restore while another is written.

Symmetry is used for keys, actors, workers, artifacts, contents and resources, which nothing
orders, in runs without liveness. `ReleaseGate` also has a view: once a whole package's generation
is over, no action and no property tells who asked for it and what they heard. Every property of a passing run has a mutant in `PROJECT.json`:
a `Bug...` definition that stands for a plausible mistake in the code (no lock, no unique key, no
comparison with the creator, a resubmission, a lost job id, a save before the push, an awaited
`add_turn`, a summary before its samples...) and that TLC finds.

### Fairness

- Execution: `WF_vars(WorkerStep(w))`: a live worker process runs on, and the SDK's and the
  database's calls return. `SF_vars(CheckTimeout(w))`: the clock passes
  `SAT_EXECUTION_TIMEOUT_SECONDS` while the loop goes on checking. Nothing is assumed of clients,
  of restarts, of the cloud (a job may run for ever) or of faults, so `QueuedIsServed` excludes
  the request whose worker died, for which the code has no recovery. It is checked with a single
  request; that a request is not kept waiting behind another one for ever is what
  `WorkerComesBack` is for.
- Collector: weak fairness of `SyncStep`, as the loop in its thread has no exit and its calls time
  out (a timeout is a `CallRaises`), and of `Restart`, as the container has a restart policy.
  Faults are bounded and need not happen; logs need not grow. A batch that Loki refuses every time,
  for its size say, is a fault without a bound: `Ingested` does not speak of it.
- Sandbox: weak fairness of each chat's own steps: the event loop resumes every coroutine whose
  await is done, and the OpenAI client times out by itself (with 10 minutes as its default). Nothing is assumed of new questions, of
  deletions or of the cache's expiry.
- Evaluation: strong fairness of each comparison and of the replay, because the event loop is
  shared: a coroutine that waits is disabled while another writes its files, and asyncio
  resumes ready coroutines in order. A call to MaaS times out after 60 s
  (`app/maas_client.py:321`).

### Disagreements with the documentation

Five are runs that expect a violation:

- `CancelIsKept` (`LostCancel`): the progress update of `execution_worker.py:92` overwrites a
  cancellation recorded after the loop's re-read; it is never forwarded.
- `TerminalIsFinal` (`TerminalOverwritten`): a cancel that read "queued" commits "cancelled"
  over a claim, and the worker then writes "running" over it.
- `SucceededIsOwn` (`DataArtsByName`): a DataArts request is reported with another request's
  result.
- `ApprovalsAreCurrent` (`StaleApproval`): a release of old contents counts as current once
  the new contents are approved.
- `ProbeCoversBinding` (`StaleProbe`): the resources verified need not be those bound.

Others were met while modelling. They have no run of their own, because they are about a text, a
gauge or an order that no property is about:

- Generation: LR-003 reports an "independently recomputed" result, but both sides come from one
  function over the same rows (`agent_graph.py:1230-1234`), so the check cannot fail. A prompt of
  blanks passes FG-001, which counts characters, and is stopped by CA-001.
- Evaluation: the verdict "review_needed" is unreachable, since a MaaS branch whose cases all
  passed cannot score less than the local one. The status "warning" says that MaaS passed but
  scored lower; it is only reached when the local case failed and the MaaS case passed.
  A failure of the local branch is reported as "failed" even if MaaS was unavailable. A replay is
  "passed" if the checks pass, whether or not MaaS was used. The diagnosis of a comparison whose
  MaaS branch was skipped says that MaaS was requested. After a crash between the four files of a
  sample it is never completed. Replays take the last names first up to their limit, so names that
  come early may wait for ever. The pre-execution report stays "ready" after its release was
  replaced, and four of its gate builders (`evaluation.py:1467-1652`) are never called.
- Release gate: the import review says that it comes "after a successful binding simulation" and
  that "cloud binding evidence is present" (`demo/README.md:367,117`). If a binding of release 2 is
  cut short between its manifest and `cloud_binding_status.json` (`artifact_store.py:474,476`), IR-003
  reads the ready binding of release 1, IR-009 the evidence of release 2, and the handoff is ready.
  `HandoffIsBound` names exactly this exception (`halfBound`). A generation that is cut short behind
  its manifest leaves the package of one release beside the status of another, and a binding then
  works on the one in the name of the other.
- Collector: "unchanged objects are not re-ingested" (README.md:123-124 of its package) holds but for a push whose
  outcome was lost and an object that grew between listing and download; `OncePerChange` states
  the exact bound. The gauge `huawei_dataarts_log_sync_success` is never 0.
- Sandbox: an answer is cached under the question alone, though it was generated from one session's
  history; with `--workers 2` sessions live in one of two processes; a deletion that meets
  the trim of the same list half way is undone by it (`raced`).

## 4. Proofs

Every theorem is about `Spec` (or `RunSpec`), for every value of the constants that satisfies the
module's assumption.

`ExecutionProofs`, under `ConstantsAssumption` (naturals, known targets, `None` distinct):

- `TypeCorrect`. The type invariant is not inductive alone: `Target(w)` of a submitted job
  must be a target, not `None`. `Existing` adds that a worker's request and a transaction's
  request have a row, with a target and a creator.
- `FourEyesHolds`, for any number of web processes. `ApprovalCarried` carries the fact along the
  approval's route: an open approve transaction is by somebody other than the creator (who never
  changes, `RowsAreKept`); a row that is queued, being claimed or was started is `Approved`; every
  worker past its claim holds, and every job belongs to, a started request.
- `OneOwnerHolds`, for one web process (the theorem's assumption). `Exclusive`: a row that is
  absent, requested or queued was never started; the row of an open approval is still at
  "execution_requested" and the row being claimed still "queued"; an idle or dead worker holds
  nothing. `OneOwner` alone is not inductive, since a claim takes a queued row and only the first
  of these facts says that nobody executes it.
- `OneJobPerKeyHolds`, same assumption. `SubmittedOnce`: keys are unique among rows, no two jobs
  have the same owner, and a worker about to submit holds a request without a job. It rests on
  `Exclusive`: only the one worker that holds a request submits it.

The assumption of one web process is the deployment's, see section 1: the handlers do not await
and one process is started. With two, two approvals that both read "execution_requested" put a
claimed row back in the queue.

`ExecutionFaultProofs`, same assumption:

- `SuccessIsEarned`. `Held` says which job a worker has at each step: its request's own, recorded
  from the first update on; `Earned` that whoever is about to write "succeeded" has seen that job
  succeed (for DataArts, some job of the name), and that a job's success is not taken back.
- `StrandingNeedsFaults` and `LosingJobsNeedsFaults` bound the cardinality of a set by `faults`.
  The argument is common (`GrowsByFaults`, `FaultsBound`): a step adds at most one element, and
  only if it counts a fault. For stranded rows the hard step is the update: `Loaded` says that a
  worker that writes over a running row had loaded "running", so that a status it leaves unwritten
  is one it may leave. `NothingLostWithoutFaults` is their case of no fault: every running row has
  its worker, and every job is named by its row or by a worker.

Two of the disagreements of section 3 are delimited there, that is, shown to fail in one way only:

- `SuccessIsOwnBesideDataArts`: without a DataArts target, `SucceededIsOwn` holds.
- `CancelsAreLostToProgress`: a cancellation that waits for the worker disappears only when the
  worker writes progress over a row that it had loaded after a cancellation (`LoadedStarted`).

`ExecutionRefinement`, same assumption:

- `WithdrawalsAreFinal` and `ImplementsAuthorizedOnce`. `Trail` relates the rows to the audit
  events that the mapping reads: a requested row has no event of authorisation, claim or
  withdrawal, a cancelled row that was never started has no claim, and an open cancellation
  knows what it will write. `StepRefines` has one step per action.
- `LaunchesWereAuthorized`: `LaunchedWasAuthorized` of the abstract specification, read off the
  rows, the events and the jobs (`LedgerKeeps`): a request has one job at most, after its start,
  and its approver is not its requester.
- `ExecutionsAreNotRepeated` and `EndedRowsAreLeftAlone`. A started row that nobody holds is not
  taken up again (`StaysUnowned`), since claims take queued rows and `Exclusive` says that these
  were never started; an ended row without a worker is written by an open cancellation only
  (`EndedStays`), and then in its status alone (`NextCancels`).

`ReleaseGateProofs`, under `GateAssumption`:

- `TypeCorrect`.
- `RequestsWereApproved`, by `ApprovalTrail`: the latest approval's hash is among the approved
  ones, recorded releases consist of approved hashes (the approvals table only grows), requests name
  recorded releases.
- `HandoffsAreBound`, by `EvidenceIsOwn`: if the manifest says that the package is bound, the
  binding's status file is ready and about this release, or the binding was cut short just before it
  wrote that file. It has to be the manifest: the status file is written first, and of a binding that
  was cut short behind it nothing else is left.

`RunLifecycleProofs`, under `AgentAssumption` (the unsupported name is not a supported one):

- `RunsImplementGate`: every step of a run is a step of `ReleaseGate` or leaves its variables
  alone (`StepImplements`). What is proved of `ReleaseGate` therefore holds of runs as they are
  generated and evaluated: `GateHoldsOfRuns` states its two theorems of `RunSpec` (handoffs with the
  same exception), and
  `EvaluationsApproveNothing` takes its `ApprovalTrail` that way.
- `RunsAreTyped`, for the variables that the composition adds.
- `CompletedRunsAreWhole`, `ReleasesAreWhole`, `ReleasesAreSupported`, by `RunInv`: the
  audit is the contract's until the gates are decided; once they are, no failed gate means no
  failed finding; the files are complete before anybody hears of it; and a release has both.

`LogCollectorProofs`, under `CollectorAssumption`:

- `TypeCorrect`, `RecordsWerePushed`, `PagesAreTruthful`, by `CollectorInv`, which follows a
  content from the listing to the state file: what was downloaded is at least what was listed, Loki
  has it before it is recorded, and what a call has finished with is recorded or skipped.
- `CollectorDelivers`, the refinement of `AtLeastOnce`.
- `PushedOncePerChange`, by `PushCredit`: an object that differs from its record has one push to
  its credit, which moves to the listing when the call begins and is spent by the push, and a
  fault grants another one. The bound itself is not inductive.
- `CallsAdvance`: `CallLeft`, two steps and three per object when a call begins its listing, falls
  with every step of the call: a batch of what is left is never empty, as it has the first object of
  it (`BatchHasFirst`, `BatchShrinks`).

`EvaluationProofs`, under `EvaluationAssumption` (finitely many comparisons, at least one case and
one check):

- `FailuresKept` and `VerdictsAreEarned`, by `EvalInv`: a comparison that is past a stage has the
  outcomes, the samples and, at the end, the summary that belong to it, whatever other comparisons,
  listings and crashes write meanwhile.
- `VerdictsAgree`. The verdict goes by totals and the failing cases one by one; `AllUsed` and
  `FullScore` bring them together: a total that is full is full in every case, and two branches that
  passed have the same total. This also shows that "review_needed" is never reached.
- `TypeCorrect`, with `CasesBounded` (a branch has as many outcomes as cases at most) and
  `ReplayType`, and `SkippedReplaysAreClean`, for which `ArchiveStays` keeps the comparisons older
  than the library.
- `EvaluationsAdvance`: `StepsLeft`, at most 7 steps and three per case, falls with every step
  of a comparison and is raised by nothing, and `CasesLeft` of a replay falls with every case.

`ChatSandboxProofs`, under `SandboxAssumption` (at least one process, session and question,
finitely many chats, at least one pair of turns):

- `TypeCorrect`, with the bound on a session's turns, and `CachedWereAnswered`.
- `AnswersFollow`, by `Ordered`: a list that somebody is adding to ends as the step at hand
  demands, and so does the slice kept between the two halves of a trim; of one process
  only one chat is adding (`OneAdding`). The slice begins at an answer's or at a question's turn,
  as the list may be cut in the middle of a pair.
- `ClearedTurnsStayGone`, by `Owns` and `SliceStaysGone`: turns belong to the chat that wrote
  them, a chat writes each once, and a slice holds deleted turns only if its session raced.

- `AnswersAreRemembered`. A list remembers an answer that is due unless more than `MaxTurns` chats
  have come to write one there (`ListsRemember`, and `SlicesRemember` for the slice of a trim).
  The hard step is the trim: every turn is in a list once (`WrittenOnce`) and belongs to a chat
  whose role fits (`RolesFit`), so behind an answer that is cut off each of the `MaxTurns` pairs
  holds the answer of another chat (`CutIsCrowded`).
- `ChatsAdvance`: `StepsLeft`, at most 13, falls with every step of a chat.

Only model-checked: liveness under fairness (`QueuedIsServed`, `WorkerComesBack`, `Ingested`,
`EveryChatEnds`, `EveryEvaluationEnds`), which is out of the prover's reach. `CallsAdvance`,
`ChatsAdvance` and `EvaluationsAdvance` are the safety half of the last three: that what goes on
ends needs fairness and ENABLED on top of them. A worker has no such bound, as it polls until its clock says so. The five
disagreements are counterexamples of TLC. Every invariant and every action property that a passing
run checks is a theorem.

## 5. Not modelled

- Scheduled cloud cleanup: whether it ends with everything gone depends on how long the cloud's
  own deletions take. A firing has a timeout of 600 s and the timer fires on one date, every ten
  minutes, eighteen times; a property would be an assumption about the cloud, restated.
- Pre-execution report: computed from statuses that the gate already has, into files that nothing on
  the execution path reads.
- Read-only probe adapter, authentication, the demo's chat BI: stateless. The probe's verdict is an
  input of `Probe`, the authenticated subject an input of the handlers; nothing reads the chat BI.
- Read-only status endpoints, and with them an operator handoff that stays in place when its
  release is replaced.
- Rendering, prompts, synthetic rows, the metadata catalogue, SQL and charts: data without an
  effect on control. The checks that depend on them are the outcomes named in section 2.
- Metrics exporters (each scrape replaces the last), realtime monitor website, lakehouse, Hudi and
  migration packages, FinOps gateways, proxy and editor setup: one-shot, sequential, operator
  driven, with no state between two runs.

The map therefore covers a sixth of the implementation's lines. Most of the rest renders text and
pages, exports values or installs something once, and has no order of steps to get wrong.

What could follow: the status endpoints of a replaced release; the composition of `RunLifecycle`
and `ExecutionControl` over the release hash (what runs in the cloud was approved twice, by the
reviewers and by the operator), whose two halves are `RequestedWasApproved` and `FourEyes`.
