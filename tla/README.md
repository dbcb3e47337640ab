# A TLA+ verification project for Star Gate (DSG)

DSG puts one local endpoint in front of a fleet of model servers ("workers").
It keeps every conversation on one worker, so that the worker's cache stays
warm, serves the requests of a conversation one at a time and in order, and
tells a client whether a failed request was surely never dispatched, in which
case the client may send it again.  This directory holds TLA+ models of that
behaviour, TLC configurations that check them on small instances, and proofs
checked by TLAPS that hold for every instance.  `PROJECT.json` maps every
definition to the lines it models; paths below are relative to
`ds4-gateway/` unless they say otherwise.

## 1. The system

| Part | State it keeps | Operations | What is hard about it |
| --- | --- | --- | --- |
| **Request scheduler** (`gateway.mjs`, `job-priority.mjs`, `worker-activity.mjs`, `continuity.mjs`) | per worker: queue, slots with their active request and turn allocation, health, pause, quarantine, recovery flag; gateway: waiting list, sequence number, draining and shutdown flags | request handler, `admit`, `park`, `pumpWaiting`, `schedule`, `dispatch`'s `finish`, `cancel`, queue timer, turn timer, probes, quarantine, relocation, priority and turn-setting changes, pause, readmission, drain, close | single-threaded, but every callback nests loops over two queues, and decisions made in one callback are acted on in a later one: parked requests, turn reservations, durable homes, awaits in readmission |
| **Affinity store** (`gateway.mjs` class `AffinityStore`) | conversation → worker, drained and quarantined workers, settings | `get`, `set`, `save` (temporary file, sync, rename) | a write may fail between two in-memory changes; crash between the steps of a save |
| **Upstream exchange** (`gateway.mjs` `dispatch`, `vision-protection.mjs`, `queued-request-body.mjs`) | the upstream request, response mode, captured body, deadline, certificate | forwarding, refused connection, buffered 400, image normalisation and one retry, cancellation, deadline | callbacks of two sockets, a helper process and a timer in any order; "surely not dispatched" must never be wrong |
| **Continuity client** (`continuity-client.mjs`, `continuity-certificate.mjs`) | attempt, patience | retry on an exact certificate only | at-most-once execution through retries |
| **Continuity door** (`door.mjs`) | hold state and receipt, held requests, probe generation | hold, release, conditional release, automatic hold, flush, proxy | receipts checked across an await; stale probes; a held request must be forwarded at most once |
| **Worker recovery** (`recovery.mjs`, `recovery-transport.mjs`, `recovery-verify.mjs`, `recovery-{systemd,launchd,docker,omlx}.py`) | durable operations with their phase, adopted profiles, quarantines; on each host a journal of receipts | request, adopt, execute, recheck, resume after restart, operator override; a helper's inspect and act | restart in the middle of an operation with remote effects; a helper call that died or still runs while its caller tries another ssh target |
| **Agent control and pauses** (`agent-control.mjs`, control server of `gateway.mjs`) | operator pauses, agents' holds and grants, maintenance locks with receipts, heads of operator actions | pause, resume, drain, hold, clear a hold, acquire and release a lock, conditional readmission, register, remove | four kinds of owners keep one worker out of routing; each may only undo its own |
| **Server operations** (`server-operations.mjs`, `operation-runner.mjs`, `operation_runner.py`, `hourglass-runs.mjs`, `hourglass-maintenance.mjs`) | write-once receipts per operation, a runner's claim and lock, measurement rows | propose, approve, decline, launch, observe, return | approvals are used once through crashes of the dashboard and of the runner |
| **Maintenance windows** (`operation_maintenance.py`, `media_maintenance.py`, `docker_profile*.py`, `serving_*.py`, `hourglass_*.py`, `media-cycle.mjs`) | an operation's receipts, the containers of the worker's host, the approved record | lock, wait for idle, stop, rename, start, qualify, publish, measure, restore, release, readmit | a process that may die anywhere changes a machine that others use, over requests whose answers get lost |
| **Media jobs** (`media-jobs.mjs`, `media-execution.mjs`, `media-runner.mjs`) | the queue, assignments, receipts of each batch | submit, start a batch, run, show | the queue belongs to the core, the receipts to a detached runner |
| **Lifecycle supervisor** (`service-control.mjs`, `lifecycle.mjs`) | nothing of its own: door holds, admission fence, launchd's services | start, stop, restart, coordinated restart, park | a command may die between hold, fence, stop, start and release |
| **Genie** (`genie.mjs`, `genie-transport.mjs`, `genie-chat.mjs`, `genie-study.mjs`) | the review under way, the owner's question, conversations with checkpoints, the study plan | review, act, answer, stop, schedule, turn on and off | nothing is asked or done twice, or after it was called off |
| **Edges** (`queued-request-body.mjs`, `client-watch.mjs`, `dashboard.mjs`, `ui/`, `worker-client.mjs`, `vision-protection.mjs`) | bodies read ahead and their budget, what clients say of themselves, forms on the operator's pages, repaired images | capture and hand over a body, heartbeat, show and change a setting, repair a refused request | several streams share one budget; heartbeats overtake each other; two operators and two time limits on one setting |
| **Observation** (`endpoint-telemetry.mjs`, `monitoring-history.mjs`, `file-telemetry.mjs`, `telemetry.mjs`, `request-history.mjs`, `attribution.mjs`, `dataset.mjs`) | samples, positions in files and journals, held rows, the rows written | sample, tail, follow, associate, write down, join | engines restart, files rotate, connections end and replay, rows come late, twice or not at all; what is concluded must still be true |
| **Genie's tools** (`genie-admission.mjs`, `genie-memory.mjs`, `genie-provider-ledger.mjs`, `spark-*.mjs`, `genie-power.mjs`, `power-scripts.mjs`) | a proposal and its stages, two journals, the request for a new host, the machines in use | inspect, admit, append, prompt, register, start and stop models | owner's approvals, files shared by two processes, remote effects whose answers get lost |

The parts interact as follows.  A client (possibly the patient continuity
client) talks to the door, the door forwards to the core, the core queues and
dispatches to a worker.  The scheduler reads and writes the affinity store
synchronously.  Recovery and the control socket change the worker flags the
scheduler reads; control-socket mutations are serialised with each other
(`serialize`), recovery is not serialised with them.  Server operations and
media jobs are detached processes that borrow a worker through maintenance
locks on the control socket and change its host through Docker.  The
operator's commands hold the door, fence the core and replace it.  Genie uses
the ordinary request path with two extra headers; its tools call the control
socket, remote hosts and the owner's scripts.  Observation reads what the
engines and the gateway write, and nothing it concludes reaches the scheduler.

What makes each part correct, and where a test hardly reaches, is the list of
hazards in `PROJECT.json`; each names the properties that cover it.

## 2. Modules

| Module | Models |
| --- | --- |
| `Conversations` | what a client relies on: each request is pending, then running, then answered, or refused or withdrawn before it ran; of one conversation at most one runs, and they start in arrival order |
| `Gateway` | the request scheduler |
| `Dispatch` | the upstream exchange of one request, with the client that retries on a certificate and the worker as environment |
| `Stream` | what the gateway learns from a streamed answer cut anywhere |
| `Door`, `DoorStart` | the continuity door, with clients that retry and a core that stops and starts as environment; the claim of its control socket and port by starting doors |
| `RecoveryHost`, `Recovery` | the recovery helpers on a worker's machine; the core's recovery operations over them |
| `Pauses` | who keeps a worker out of routing, and the control requests that change it |
| `Maintenance` | the window of an operation on a worker, and the containers of its host |
| `Serving`, `MediaCycle` | the operations that use a window: serving changes, trials and Hourglass measurements; media batches |
| `Windows` | the composition of these with agents, operators and faults |
| `Operations` | proposals, approvals, launches and runners of server operations |
| `MediaQueue` | the media queue and its batches |
| `Store` | the affinity store's lock and file |
| `Supervisor` | the operator's service commands on core and door |
| `Genie`, `Chat`, `Study` | Genie's reviews, one conversation with it, its study plan |
| `Uploads`, `Watch`, `Desk`, `Images` | the edges: waiting request bodies, watching clients, settings changed from the dashboard, repaired images |
| `Telemetry`, `Readers`, `Attribution`, `Evidence` | observation: rates of an endpoint, tailed files, a host's journal, which request an engine row belongs to, the written history of requests |
| `Admission`, `Notebook`, `Spark`, `Power` | Genie's tools: admitting an endpoint, his journals, setting up a new host, power switches |
| `GatewayProofs`, `DispatchProofs`, `DoorProofs`, `RecoveryProofs`, `WindowsProofs`, `OperationsProofs`, `GenieProofs` | the theorems about the modules they name; `DoorProofs` also about `DoorStart`, `WindowsProofs` about what `Windows` is composed of, `OperationsProofs` about `MediaQueue`, `GenieProofs` about `Chat`, `Admission`, `Notebook` and `Spark` |
| `StandaloneProofs` | the theorems about `Store`, `Study`, `Power`, `Supervisor`, `Desk` and `Evidence` |
| `MCGateway`, `MCDispatch`, `MCRestarts`, `MCWindows`, `MCStandalone` | instances for TLC (the violation runs of `Recovery`, `Admission` and `Supervisor` need none).  `MCStandalone` holds twenty-one components that share no state, of which a behaviour follows one, `MCRestarts` the door, recovery and the operations, and `MCDispatch` follows an exchange or the door |

How the models meet.  `Gateway` sees an exchange with a worker as one outcome
(`UpstreamEnds`); `Dispatch` is that exchange in detail.  `Door` sees the core
as an environment that executes a request it was sent at most once or
certifies it, which is what `Dispatch` establishes.  `Gateway` has recovery as
the two actions that take and return a worker; `Recovery` is what happens in
between.  `Gateway.home` is an atomic function; `Store` shows what a save that
returned is worth after a crash.  `Operations` ends where a runner executes;
`Windows` is what it then does to the worker, as `MediaCycle` is for a batch of
`MediaQueue`.  `Supervisor` uses the door's conditional hold and release as
`Door` provides them.

### Gateway

The core is one Node.js process, so a callback is atomic towards every other
callback.  A callback's own loops are nevertheless taken one iteration per
step: `pumping`/`todo` are the position in `pumpWaiting`, `cur`/`ix` the
position in `schedule`, `due` the workers still to be scheduled, and no new
callback begins before the running one has returned (`Quiet`).  This costs
states and buys two things: the nesting of the code (`pumpWaiting` → `admit`
→ `schedule`) is in the model as it is in the code, and every action is small
enough for a proof.

| Code | Model |
| --- | --- |
| a job's place: `waiting`, `node.queue`, `slot.active`, answered | `st`, `at`, `slot` |
| `job.key`, model route, advisory headers | `req`, chosen in `Init` and used from arrival |
| `job.sequence` | the request's number |
| `job.affinity` new/none against resumed/reassigned | membership in `fresh` |
| `slot.turnAllocation`, `until`, `turnTimer` | `turn`; `grace` tells apart no deadline, a running one, and one that is past while its timer callback is still pending |
| `AffinityStore.sessions` | `home` |
| node flags | `healthy`, `drained`, `quarantined`, `recovering`, `failures`, `inferenceFailures` |
| the awaits of `/resume-workers` | `resuming` |
| request handler | `RequestArrives` with `ArrivalTargets`, `NoWaitRefuses`, `QueueFull` |
| `cancel`, `queueTimer` | `ClientCancels`, `QueueTimeout` |
| `admit`, `park`, `detach` | `Admit`, `Park`, `Leave` |
| `pumpWaiting`, `rebalanceUndispatched` | `PumpVisits`, `PumpReturns` |
| `schedule`, `queuedChoice`, `canStartNow` | `ScheduleReturns`, `ScheduleSkips`, `ScheduleParks`, `ScheduleDispatches`; `QueuedChoice`, `CanStartNow` |
| `dispatch` up to its `finish` | `UpstreamEnds`, `Finish`, `Quarantine`, `FinishedTurn` |
| `slot.turnTimer`, `waitingTimer` | `TurnDeadlinePasses`, `TurnTimer`, `WaitingTimer` |
| `probe` | `ProbeSucceeds`, `ProbeFails` |
| control socket, signals | `DrainWorker`, `ResumeBegins`…`ResumeFails`, `SetJobPriority`, `RelocateQueued`, `SetConversationTurns`, `Drain`, `Close` |
| recovery taking and returning a worker | `RecoveryBegins`, `RecoveryEnds` |

Abstractions.  Queues are sets because both are kept sorted by sequence.  The
load-based order of `pick` among eligible workers is left open, so everything
shown holds for any balancing policy.  Time is left out: a timer that is armed
may fire at any moment, a wait may have passed the rebalance threshold or not.
A write to the store may fail wherever the code catches the failure.

### Dispatch

One action per event callback of `dispatch`: of the client (`UploadEnds`,
`ClientCancels`), of the upstream request (`SocketAssigned`, `Connects`,
`ConnectFails`, `SocketFails`, `ResponseStarts`, `DestroyedCloses`), of its
response (`BufferOverflows`, `ForwardEnds`, `BufferEnds`, `ResponseAborts`),
of the deadline timer, and of the two awaits in `bufferCandidate`
(`CaptureContinues`, `NormalizeReturns`).  A continuation whose promise is
resolved runs before any other event (`Idle`), as microtasks do.  `attempt`,
`sock`, `fresh`, `connected`, `flushed` and `up` are the local state of one
call of `issue` (`up # "none"` is `gotResponse`); `capture` is the promise
`bodyReady`; `certified` says that the answer carries the `not_dispatched`
receipt, which is all `continuityFetch` looks at before it sends the request
again (`Resends`).  `reached`, `running` and `executed` are the worker's side,
which the gateway cannot see.  A worker executes a request it has completely
received, perhaps after the connection is gone; a 400 that the gateway takes
for an image rejection comes before execution, as the repository's
documentation of the engine says.  A worker may answer before it has the
whole body, as HTTP allows.

Left out: header and model rewriting, usage and fault observation (its effect
on the worker's health is in `Gateway`), the read-ahead of queued uploads, and
the exceptions a second `writeHead` after settlement would throw.

### Door

One action per callback of `door.mjs`.  `kind`, `holdId`, `testing`, `closing`
and `fails` are the fields of `state` and the closure; a request's place is
`rq`.  `probe` is the readiness probe in flight; `waiters` are the `/release`
calls that await it, each with the receipt it names or none.  They are resumed
in the callback that settles the probe, so `invalidateProbe` empties the set.
`holdId` is fresh for every hold; three receipts suffice because only the hold
in force and the one automation remembers can be compared.  `asked` records
that the probe in flight began under the present hold, for the property
`ReleaseFenced` only.  Request classes are the ones the code tells apart:
ordinary inference, the testing lane, model discovery, and what is never held.

Left out: LAN sharing and authentication (they refuse before any state is
touched) and the failure log.

`DoorStart` is the start: processes that find a socket file, connect to it,
look at its identity again, replace it, listen on the port, close or crash.
The second look, the removal and the bind are one step, as no `await` lies
between them; another process could act between the two system calls, which
door.mjs leaves open and the model does not show.

### Recovery

`RecoveryHost` is the environment of an operation: per worker a service with
an instance number, a journal of receipts, and calls in progress.  A helper
works under a file lock, saves `intent`, runs its command and saves `issued`;
it may die between any two, and a caller that gives up calls again over the
next ssh target while the first helper may still run.  The four helpers differ
in which states they act on and how they recognise their own instance
(`adapter`).  `Recovery` has one action per stretch of `recovery.mjs` between
two awaits: `task.phase` is the await the executor is in and `task.snap` the
answer it continues with.  The store's part (`ops`, `effective`, `prior`,
`drained`, `quarantine`) survives `CoreRestarts`, the rest does not.  `asked`
counts how often an operation asked for its command.

Assumptions.  Cooldown and confirmation of an observation only delay and are
left out.  Observation and request of the detector are one step.  A worker is
enrolled for what its helper offers, and enrollment does not change; the
policy that hands a worker back is on.  A helper bounds its commands by seconds, so it is over before a new
instance has loaded its model and before the operation's deadline
(`HelpersOver`).
Why a worker may not be bootstrapped now (`bootstrapHoldReason`) is not
modelled.  `events` is one budget for lost answers, helper deaths, deadlines,
restarts and outside changes.  The helpers' own parsing of the service
managers' output is left out.

### Windows

`Pauses` is the control socket's view of workers: the operator's own pause
(`manual`), agents' holds, maintenance locks, the last operator and
maintenance action.  The control server runs one request at a time
(`serialize`), so a request with its probes is one step, and all of this is
saved before the answer; a request whose caller gave up may still be served
(`late`, `ServeLate`).  An operation is a process at step `at[j]` with receipts
`disk[j]`; it may die anywhere and a new process reads the receipts.
`Maintenance` has the observation before the window, the lock, the wait for
idle, the release and the conditional readmission, and the Docker
commands, each with its intent saved before and its result after;
`Serving` (changes, trials, measurements) and `MediaCycle` have the order in
which their programs use these, and what they check in between (`CheckTarget`,
`CheckRecord`, qualification, publication).  `inc` and `started` stand for Docker's
`StartedAt`, by which a check recognises the container it was reviewed for.

Left out: ssh fallbacks, parked requests and the staleness of a probe.  A media
batch is one generation.  The evidence files a publication writes are one
receipt.  Plans are prepared and reviewed before the behaviour begins.

### The standalone parts

* `Operations`: receipts are write-once files, `flock` the runner's lock, which
  an observer takes for a moment; the commit of an approval may be cut short
  by a crash after each of its files.  The owner's return of an interrupted
  measurement is a second, separately approved process.
* `MediaQueue`: a job is the key of its request; what is shown of it is its
  saved row overlaid with the receipts of its operation.
* `Store`: the content of the state is a version.  A process number may be
  reused by another program.  `durable` is what a power loss leaves.  Two
  gateways do not start in the same instant (`OverlappingStarts` = FALSE):
  launchd starts one; reading a stale lock and removing it are two steps, and
  with TRUE two starting gateways can both take it.
* `Supervisor`: one command at a time, which may die anywhere; signals reach
  the core before the operator's next command, the operator drains the core
  between commands only, and the core does not crash during one.  Requests
  come through the door or directly.  A stop of everything asks the dashboard
  behind the fence (`DashboardChecked`, `assertDashboardIdle`): Genie at work, or
  no answer, refuses it there, with the fence in place.  `UnloadStops` is a
  removal of dashboard or door that is not confirmed.  Left out: what the
  dashboard's service does, the backup and registration at start.
* `Stream`: letters stand for the lines the observer tells apart; `Whole` is
  the reference definition over the complete stream.
* `Chat`: a save replaces the file or fails, except the one at load, which
  succeeds.  A graceful close is a crash after a save.  A reply shown as
  failed after two failed saves can be asked after a crash, since the file
  still says it waits; it was then never asked before.
* `Genie`: the loopback transport.  A fallback provider is configured; an
  aborted call does not complete; testing mode only suspends.  A microtask runs
  before the next event (`micro`).
* `Study`: a study is the number of its start.  A chat that is not available
  and a repeated request identifier change nothing and are stutters.

### The periphery

Thirteen modules with state of their own; each one's header says which files
it models.

* `Uploads`: a body is a number of units; what Node's streams promise is used
  as it is (new data and the end are announced, the end only after a read).
  `BodiesWhole`, `BudgetExact` and `NoneForgotten` are that nothing is lost or
  seen half, that the shared budget neither leaks nor overdraws, and that a
  body which waits for it is woken.  `stopInspection` is called by a test only,
  never by the gateway, and is left out.
* `Watch`: heartbeats may be repeated and overtake each other; the bounded
  table may forget a client, and what it shows must be true.
* `Desk`: one setting of one kind per behaviour, from the page over the
  dashboard and the control client to the setter in the gate.  A timeout on
  either side leaves the command on its way.
* `Images`: a request is a list of messages of blocks; the engine, external,
  names one of the reasons it has.
* `Telemetry`: of the counters the generated tokens are kept; time limits are
  multiples of one tick.
* `Readers`, tailed files: one protocol in four classes (`style`); a poll is
  synchronous and one step.
* `Readers`, the journal of a host: a connection replays a bounded part of it
  and may end at any record, while an earlier definition's connection still
  delivers.
* `Attribution`: what really happened to each request (`truth`) decides its
  rows, which come in any order, again, and once with a contradiction.
* `Evidence`: rows are unique and delivered once and in order, which is what
  `Readers` shows of theirs; requests are those of one gateway process.
* `Admission`: the registry and the door are external, and a call that fails
  may have had its effect.  Inspections overlap stages, as `tool()` lets them;
  a stage re-reads the proposal where the code does, after its own read of the
  registry (`ChecksRemoval`, `ChecksWorker`).
* `Notebook`: the steps of an append under its lock file, with two processes.
  That no two of them ever hold different rows for one revision is the check
  of the file's length, which is part of the step.
* `Spark`: preparation and qualification of the host, and what Genie decides,
  are external; a dashboard that dies, also between an answer of the core and
  the save of it, keeps what it had saved, and a prompt that still waited.
* `Power`: a script that is killed at its timeout has had its effect or not;
  the gateway's load is looked at before the script runs, and may have changed
  by then.  The status scripts, which only read, are left out.

## 3. Runs

Several properties are conjunctions of named parts; each part has its own
comment, and at least one mutant of the code breaks it.

| Run | Instance | Shows |
| --- | --- | --- |
| `gateway_safety` | 2 workers with one slot, 1 conversation, 3 requests of users, in the conversation or in none, queue bound 1, one event | order, durable homes, the queue bound (`QueueBounded`), refinement of `Conversations` |
| `gateway_turns` | 1 worker with 2 slots, 2 conversations, 2 or 3 requests of conversations and at most one advisory request, flexible or no-wait (`TurnsSpec`), allowances 1 and 2, one event | turn reservations and the change of the allowance, no lost wakeup (`NoLostWakeup`); a flexible request is never queued |
| `gateway_liveness` | 1 worker, 3 requests of two priorities, one conversation or none | a queued request leaves the queue |
| `gateway_readmission` | 1 worker, 1 request, two events | a disagreement, below |
| `dispatch` | one request sent at most twice; or, at the door, one ordinary request and two core stops | certificates are right, at most one execution, at most one repair; the client is answered or cut off, never left waiting; a broken answer is not passed off as whole; a cancelled exchange ends; a request held at the door is forwarded once the core stays up |
| `restarts` | the door: an ordinary and a testing request sent up to twice, one held place, one core stop; recovery: one worker of any adapter, two operations, two ssh targets, two mishaps; operations: two of them, three mishaps | `ExecutedAtMostOnce`, `NoneStranded`, `ReleaseFenced` of `Door` (at most one execution; nothing stays held without a hold; only a probe of the present hold and a release meant for it end it); `CommandedOnce` (one command per operation, not asked for again after a restart) and `EndsRespected` (outcomes are final, a pause wins over the hand-back) of `Recovery`; `ExecutedAlone` of `Operations` (`ExecutedOnce`, `OneOperationAtWork`, `ReturnAlone`, `FinalIsOver`, `RowHonest`) |
| `recovery_recheck` | recovery as in `restarts` | a disagreement, below |
| `windows` | two workers, one of them busy; a serving change with a measurement on one worker; a serving trial on it and a media job on the other, each alone and both; two events, one while the trial and the media job overlap (`BoundedSpec`) | `LocksSound` (the routing flag agrees with the owners of pauses, the last worker is not taken), `WorksAlone` (one operation at work per worker, one submission), `RoutedApproved` (what takes requests was verified and is on record), `DrainKept` (an operator's pause is not replaced) |
| `windows_pause` | a measurement beside an agent's hold | a disagreement, below |
| `standalone` | each of twenty-one parts with two or three actors and its own faults | per part, with the named conjuncts in brackets: `MediaOnce` (`GeneratedOnce`, `OneMediaOperation`, `FolderFresh`); `StoreSafe` (`SoleOwner`, `SavedSurvives`); `StopsFenced` (`StopsIdle`, `FenceRestored`) and `OperatorHoldKept` of `Supervisor`; `StreamUnderstood` (`ChunkIndependent`, `CompletionEarned`); `AskedByOwner` (`AskedOnce`, `RefusedNotSent`, `StopWins`) and `CrashRespected` (`OwnerDecides`, `PartialKept`) of `Chat`; `GenieSound` (`RevokedStaysSilent`, `RoutineYields`, `OneProvider`, `ReceiptTrue`); `StudyOnce` (`StudiedOncePerDue`, `OneStudy`); `ControlPathKept` of `DoorStart`; of the periphery `EdgesSound` (`UploadsSound`, `WatchSound`, `DeskSound`, `ImagesSound`), `ObservationSound` (`TelemetrySound`, `TailsSound`, `JournalSound`, `AttributionSound`, `EvidenceSound`), `ToolsSound` (`AdmissionSound`, `NotebookSound`, `SparkSound`, `PowerSound`) |
| `admission_overlap` | two endpoints, two inspections, one failed call | a disagreement, below |
| `stop_refused` | one command, one hold | a disagreement, below |

Bounds.  `MaxRequests` = 3 lets a request be parked or relocated between an
earlier and a later one of its conversation, or a conversation hold a
reservation while two others compete.  `MaxEvents` bounds operator, health and
storage events (a failing write is one): one event, anywhere in the behaviour,
is enough to quarantine, pause, recover, fail a write or close at any point.
Inference outcomes, cancellations, timers and successful probes are not
bounded.  `QueueBound` = 1 makes full queues common; `InferenceFailures` = 2 (3 in the
code) and `HealthFailures` = 1 shorten the run-up to a quarantine.
Workers and conversations are symmetric in the safety runs.  `MaxTries` and
`MaxSends` = 2 is one retry: the state after a certificate is the initial one
but for what the worker or core has, so a second retry adds nothing new, and
the proofs cover every number.  `MaxStops` bounds how often the core stops.
`Limit` = 1 lets two requests fill the door.  `HealthFailures` = 2 is the
door's default, in the door part of `dispatch`; `restarts` uses 1, as a
failed probe below the threshold only counts.  In recovery and in `windows`
`MaxEvents` = 2 is one budget for everything that goes wrong or comes from
outside, so that any two of them meet at any two steps; the operations' own
steps are not bounded.  Two recovery operations suffice for an operation to
meet the remains of an earlier one; `SmallerHost` lets one mishap meet those of
systemd and docker, as launchd's helper does all that theirs do, with the same
checks, and meets two.  `View` makes one of the door's states that differ in
nothing a step or a property can tell: the number of a receipt beside whether
it is the one in force, a release that names its hold beside one that names
none, failed probes below a threshold of one.  In `windows` the pairs are the ones that
meet: a measurement of what a serving change replaces, on one worker, and two
windows on both workers, for the floor.  Those two share the gateway's pause
tables and nothing else, so while both have begun `BoundedSpec` allows one event;
each of them alone meets two.  `gateway_turns` starts from the requests that can
compete for a turn: conversations' own, and one advisory request, which names no
conversation (`genie.mjs`, `modelAnswer`).  In `restarts`, `MaxMishaps` = 3 lets a
dashboard, a runner and the return's runner die in one behaviour.  In
`standalone`, three media
jobs let a batch take a second one while a more urgent one arrives;
`MaxStarted` = 4 lets a process number be reused by another program and then
by a gateway; `MaxStream` = 5 letters over lines of at most 2 reach an
overflowing line cut across chunks and two finishes; three launchers and four
sockets let a third door find what the second left of the first's.  Of the
periphery the code's limits are cut so that each is reached: two bodies that
fill the budget of three units between them, one entry in the table of
watching clients, two held windows, a write batch and a queue of two rows, a
replay of two journal records and a memory of three.  Two pages let one
operator's form be overtaken, two engine sessions and two definitions let a
sample straddle a change, four lines cover a rotation and a truncation between
two polls, and two models share one of three machines.  While a number or a
context length is changed the dashboard does not restart (`DeskBound`): a restart
acts on tokens and open connections, which all kinds of change have in common,
and is met by a switch and by a waiting request.  Of an admission's two endpoints
the second is there to be inspected in the midst of the first's stages
(`FirstEndpoint`, `OtherStays`): it has no worker before, and no health.  `windows`,
`standalone` and, but for the door, `restarts` do not check type invariants; where a proof needs one it is a part of the inductive
invariant.

Fairness (`FairSpec`).  A running callback returns (weak fairness).  Every
upstream request ends: `request_timeout_ms` destroys the ones that do not
(strong fairness per request, as probes and arrivals interleave).  An armed
turn timer fires.  Nothing is assumed of clients, probes or operators, and not
of the queue allowance, 20,000 hours by default.

`Dispatch`'s `FairSpec` assumes that Node assigns a socket, that a connection
succeeds or fails within `connect_timeout_ms`, that destroyed sockets report
their close, that resolved promises continue and that the image helper
returns (it is killed by its own timeout).  It assumes nothing of clients or
workers: a worker may stay silent for ever.  `Door`'s `FairSpec` assumes that
the monitor's interval comes round, that a core that is up again and again
answers some probe, and that not every good answer loses the race against the
probe's deadline (both strong fairness, since holds void probes in flight).
The other runs check safety only.  Deadlock is checked in the runs of
`Gateway`; elsewhere the system may stop: one exchange ends, a closed door
with its requests answered stops, operations end once the bounded events have
happened.

### Findings

* **Readmission** (`gateway_readmission`).  `/resume-workers` refuses a worker
  that recovery owns, but looks before its awaits only; recovery may take the
  worker meanwhile and the commit puts it into service under the restart.
* **Operator's takeover** (`windows_pause`).  An operator who clears an agent's
  hold pauses the worker, but no operator action is recorded.  The conditional
  readmission of an operation compares recorded actions, finds none newer than
  its own snapshot and puts the worker back into service.  Pauses made with
  `/drain-workers` are safe (`DrainKept`).
* **Recheck** (`recovery_recheck`).  `reconcile()` looks for a task in this
  process and not for an unfinished operation in the store.  After a core
  restart an operation that waits to be resumed and a recheck of an older one
  are both pending.  Neither sends a second command (`OneCommand`).
* **Inspection under a stage** (`admission_overlap`).  `genie-admission.mjs` says
  that its tool never approves itself and that every mutating stage is asked
  for separately.  `busy` keeps stages apart, but `inspect` does not look at it:
  an inspection that ends while a stage awaits the core replaces proposal,
  fingerprint and completed stages.  The stage goes on with the new proposal, so
  that it removes or adds a worker that was not part of what the owner agreed
  to, and is counted among the stages of the new one.  `AdmissionSound` is what
  remains true (section 4).
* **Refused stop** (`stop_refused`).  `service-control.mjs` restores its fence on
  a stop that is refused, by the core.  `assertDashboardIdle` comes after the
  fence, outside the `try`: when Genie is at work the command ends with an error
  and the core stays draining until an operator lifts it.

Known limits, met while modelling and not claimed by any property:

* `close()` releases every turn reservation with its timer and does not call
  `schedule`: a request queued behind an idle reservation on a free worker
  waits for its queue timer, and `server.close()` for it.
* The no-wait test does not look at turn reservations, so an advisory request
  that asked not to wait can be queued.
* The continuation of the image helper looks at `job.cancelled` and not at
  `settled`: when the connection was lost while the helper ran, the request is
  answered 502 and its slot freed, and the second attempt is still issued.
  The request is executed at most once even then (`ExecutedAtMostOnce`).
* The deadline timer that fires while the image helper runs destroys an
  upstream request that is already over and is not armed again: the repaired
  attempt has no deadline.
* `docs/conversation-turns.md:19` and `docs/queue-priority.md:33` say that a
  higher priority takes precedence over a turn.  When the queue's head is
  cancelled or times out, `pumpWaiting` runs and `schedule(node)` does not: a
  more urgent request left behind it, which outranks the reservation in the
  only free slot, sleeps until the turn timer fires.  `NoLostWakeup` therefore
  lets a queued request wait for a reservation whose timer is running; that
  the timer ends the wait is `QueuedMovesOn`.
* `freeGenieNode` previews the next choice over the worker's queue together
  with the requests parked for it, `schedule` then chooses from the queue alone.
  A parked continuation of low priority can make the preview release a turn
  reservation that `schedule` keeps.  The flexible request is then left in the
  worker's queue, although `docs/observer.md:302` has it wait until a worker is
  free, and the queue may be one over `max_queued_per_node`.  It takes three
  priorities, a full queue and a worker that was away.  The proof of
  `QueueBounded` fails there, and TLC confirms it: two workers of which
  one is on the route, one slot, `QueueBound` = 2, two events, and six requests
  with priorities 1, 2, 0, 1, 1, 2, the second and third of one conversation and
  the last flexible.  So `QueueBounded` is checked for users' requests only, and
  `FlexibleNeverQueued` for requests of one priority.
* A request for an unknown model route is answered 400 without telling the
  client watch, which shows it as received (`WatchTrue` makes the exception).
* `dashboard.mjs:599` calls the power tool with `mode`, which
  `genie-power.mjs:69` rejects: starts and stops from the dashboard are always
  refused.  `Power` has the tool as Genie calls it.
* Without an exported start time, vLLM counters that were reset and grew past
  their old value look like one interval, as does an oMLX session younger than
  the interval (`IntervalsTrue` says what is left).
* `scanEpoch` delivers its newest marker first, so that older unattributed
  lines of a log are counted under the newer process.
* The guards of an engine start against a wrong owner (`Attribution`) are lost
  when the start itself is pruned and its row read again.
* `ui/ui.js` says after its own timeout that no receipt was created for a
  question, which the server may have accepted meanwhile.

## 4. Proofs

`GatewayProofs` proves, for every set of workers, conversations, routes and
slots and every value of the bounds, from the named assumptions of `Gateway`
only:

| Theorem | Statement |
| --- | --- |
| `Invariant` | `Spec => []IInv` |
| `TypeCorrect`, `HomeCorrect`, `OneActiveCorrect`, `CapacityCorrect`, `OrderCorrect` | the type invariant, `HomeOwnsWork`, `OneActivePerConversation`, `CapacityRespected`, `ConversationOrder` |
| `AllocationCorrect` | `OneAllocationPerConversation`: no conversation holds turns in two slots |
| `WakeupCorrect` | `NoLostWakeup`: between callbacks no runnable request sleeps beside a free slot |
| `ServiceCorrect` | `Spec => ServesConversations`: `Gateway` implements `Conversations` |

The inductive invariant `IInv` adds to the properties what they silently rest
on.  `Numbered` and `Placed` tie numbers and places to the status;
`PumpedWait` says that what `pumpWaiting` still has to visit is waiting.  The
interesting part is the order of a conversation.  `ConversationOrder` is not
inductive: in the middle of `schedule`'s loop over an unserviceable worker an
earlier request of a conversation has been parked while a later one is still
queued.  `ParkingOrder` says that this happens only at a free slot of the
worker being scheduled, which is out of service, and that the later request
is still eligible there, so the loop cannot leave the slot without parking it
too.

Turn reservations need two facts.  `TurnsOwned`: the allocation of a busy slot
is of the conversation it runs, which holds none in another slot, so that
neither a new allowance nor an allocation that revives with it makes a second
one.  `GraceSound`: a deadline runs only for an allocation that is not
exhausted, in a free slot.  That no wakeup is lost is a statement about the end
of a callback; inside one it is `WakeupsPending`: only the workers the callback
has yet to schedule (`due`), and the slots `schedule` has yet to visit, may
keep work asleep, except for what its parking loop is about to park.  It shows
that every place in the code that frees a slot, returns a worker or ends a
reservation does call `schedule` for that worker.

The argument has three layers.  Lemmas about each group of callbacks show that
types are kept.  `NextEffect` classifies every step of `Next` by its effect on
requests (nothing, created, settled, queued, waiting, started, moved, stopped)
with what the guards of the code then guarantee.  One lemma per part of the
invariant shows that every effect preserves it.  The refinement uses the same
effects: each is a step of `Conversations` or a stutter.

`DispatchProofs` proves `CertifiedNeverReached`, `ExecutedAtMostOnce` and
`SettledAnswered` (theorems `CertificateCorrect`, `ExecutionCorrect`,
`AnswerCorrect`) for any number of retries, the action property `EndedIsWhole`
(`WholeCorrect`), and `TypeOK`, which bounds the attempts.  Why
the certificate is right is `CertifiedOver`: once it is given, the exchange
has no event left that could reach a worker (its socket is closed and never
connected, or there is none), and `ReachedConnected`: bytes travel over a
connection of this attempt or of the one it repairs.  Why a repair is not a
second execution is `RejectedUnexecuted`: whatever is suspended to be repaired
was rejected before execution, with `ExecutionCurrent`, which ties the one
execution to the current attempt.  Why the client is not left waiting is
`AnswerBegun`: a forwarded response has begun the answer, and an upstream
request is destroyed only for a client that has gone.

A theorem that is not about any instance at all names what it assumes as a
hypothesis: `DoorGiven`, `RecoveryGiven`, `OperationsGiven`, `MediaGiven`,
`StoreGiven`, `StudyGiven` and `ChatGiven` are what their modules ask of the
constants (that the sets are not confused with `"none"`, that bounds are natural
numbers); `MCRestarts` and `MCStandalone` assume them, so TLC evaluates each on
the instance that is checked.

`DoorProofs` proves `TypeOK`, `NoneStranded`, `ExecutedAtMostOnce` and the
action property `ReleaseFenced` (`TypeCorrect`, `HeldCorrect`,
`ExecutionCorrect`, `ReleaseCorrect`) for any set of requests and classes, any
limit and any number of retries and restarts.  `NotForwarded` says that the
core has nothing of a request the door holds, refuses or certifies,
`CopyUnexecuted` that a copy the core still has to execute is of an unexecuted
request, `ProbeCurrent` that a hold leaves no probe of before it in flight.

It also proves `ControlPathKept` of `DoorStart` (`ControlPathCorrect`), for
any number of launchers.  The invariant adds that a process has seen only
identities that were given out (`SeenGivenOut`), that no two doors own a
socket (`OneOwner`), and that a socket which refused a connection and is still
at the path has no owner (`RefusedOwnerless`): so the second look cannot
remove a living door's path.

`GenieProofs` proves `GenieSound` (theorem `GenieCorrect`) for any set of chat
jobs.  The invariant of a review adds `CallSilent`
(during a provider call the review has said nothing, and it is revoked only if
its signal is set, so that an answer which counts is of a review nobody called
off), `ConnectingUnseen` (a provider that is not connected has received
nothing, so a fallback starts from zero) and `AcceptedNext` (an accepted
question finds Genie on and idle in the microtask that follows).

It also proves `AskedByOwner` and the action property `CrashRespected` of `Chat`
(`QuestionsCorrect`, `CrashCorrect`) for any questions, texts and number of
faults, if there is a question and none is called `"none"`.  The invariant speaks of the memory
and of the file in the same words (`Truthful`), since a restart makes the one
the other: a question that waits was never put to the model, a stopped one has
no answer.  `AtWork` follows the reply under way across both, and stays true when
its owner stops it.  `CrashSeen` says that a crash which cut a reply short can be
told from the file until the dashboard has read it, and that the conversation is
paused from then on, on disk too; `TextsGrow` that neither a restart nor the
checkpoint which is still to be written takes back text that was shown.

Three of Genie's tools have their theorems here too, each for its own
specification, which the run `standalone` checks on a small instance.

* `AdmissionSound` of `Admission` (`AdmissionCorrect`), with no assumption:
  inspections overlap stages as in the code.  What holds in spite of them: a
  stage removes only what it has itself seen dead and adds only a worker that
  was not there; the stages of a proposal keep their order if it was drafted
  while no stage was in progress (a draft that was not is `torn`, and the
  stage that was counted for it is the finding); and a stage acts on what its
  proposal names if no inspection ended meanwhile (`overlapped`).  `RunNext` says
  that a stage is the next one of the present draft or that draft is torn, and
  `StagesInOrder` that what is completed of an untorn draft is the beginning of
  what it expects, each stage for that draft.
* `NotebookSound` of `Notebook` (`NotebookCorrect`), if no note is named like a
  receipt.  Two processes share the file, and each knows the beginning of it
  (`KnownBefore`); only under the lock (`LockHeld`) does it know all, which is when
  the row it is about to write has the next revision (`RowFollows`).  What was
  acknowledged lies in the part a loss of power leaves (`Acknowledged`), and
  `Numbered` survives the cut of the file to any length after that part.
* `SparkSound` of `Spark` (`SparkCorrect`), with no assumption.  The watch acts on a
  snapshot of the host, but only a call moves the host from one stage to the
  next, and no call runs while a snapshot is held (`SnapshotTrue`, `CallAsked`).
  A stage somebody names was reached (`StagesReached`), and one that was prompted
  for is past, dispatched or pending (`PromptsKept`), so the next stage is a new one.
  `WorkerAdded` ties the core's worker to the step of the registration and to its
  file, which lags behind by one save.

`RecoveryProofs` proves `CommandedOnce` and the action property
`EndsRespected` (theorems `CommandedCorrect`, `EndsCorrect`) for any workers,
adapters, operations, ssh targets and number of mishaps.  Neither is inductive,
as the core's record, the helpers under way and the machine's journal can each
be lost or late.  `Recorded` ties the first two together: an operation is asked
for exactly if it is recorded as issued (`Asked`), the executor has not decided
on one that is (`Undecided`), and a helper works only for an issued operation
without a known outcome (`CallsOpen`, `Calling`), hence for none that is being
verified (`Verifying`).  `Journalled` is the machine's side: an intent and a
command have their receipt in the journal, a worker has one intent under way
(the file lock), and it repeats nothing that was commanded.  A helper that finds
a receipt of its operation or instance does not command, so two helpers of one
operation, started over two ssh targets, give one command.

`StandaloneProofs` proves, for any instance of each:

* `StoreSafe` of `Store` (`StoreCorrect`), assuming that no two gateways start
  in the same instant.  `LockTrue` says what a gateway's place in the code means
  for the lock file: an owner's name is in it, its writer finds it empty, and
  one that reclaims a lock reclaims that of a process which is gone; with
  `StartsGivenOut`, a reused process number has a later start time.
  `RenamedAhead` is the one moment at which the file is ahead of the memory.
* `StudyOnce` of `Study` (`StudyCorrect`).  `DueSpent` counts a due date as
  open, being started or spent, never two of these; `LastLive` says that a study
  at work is the plan's last and that there is none while one is started.
* `StopsFenced` and the action property `OperatorHoldKept` of `Supervisor`
  (`StopsCorrect`, `HoldCorrect`).  `FenceAwaited`, `FenceTaken` and
  `SignalsSent` follow the fence of a plain stop from its signal to its removal,
  `UnloadIdle` says that a core about to be unloaded, or waiting behind its fence
  for the dashboard's answer, is closed and idle or gone,
  and `ReceiptsOwn` that a command's receipt is never that of an operator's hold.
* `DeskSound` of `Desk` (`DeskCorrect`), if `"none"` is no value.  The chain of the
  gate lets one command at a time probe (`Checked`), so the value it was
  compared with is still the gate's when it commits; `ActsOnce` follows a
  command's body, limits and answer.
* `EvidenceSound` of `Evidence` (`EvidenceCorrect`), if a batch is a natural number of
  rows.  Rows and records are typed by what they say: a sequence of `TrueRows` stays
  one when any part of it is lost or read again, and a row stays true as its
  request goes on (`TruthLasts`), since no request is moved after its dispatch.
* `PowerSound` of `Power` (`PowerCorrect`) for any fleet in which every worker
  has a machine (`FleetGiven`).  `MachinesHeld`: a call that changes something
  holds each of its machines; `HardwareReserved`: nothing is loaded on them
  while a start script runs.

`WindowsProofs` proves `LocksSound`, `WorksAlone`, `RoutedApproved` and the
action property `DrainKept` of `Windows` (`LocksCorrect`, `WorkCorrect`,
`RoutingCorrect`, `DrainCorrect`), and its type invariant, for every finite set
of workers, any jobs of the four kinds on them and any bound on the events.  It
assumes what the modules name: `PausesAssumption`, and `MaintenanceAssumption`
(a job's target is a worker, and the operator is no job).  `WindowsInv` was a run's
invariant on the instance of `windows`, 1.67 million states, before it was proved.

* `PauseOwnership` needs `Forgotten`: the registry forgets the pause of a worker it
  removes, or one that is added again would come with it.
* That two jobs never work on one worker needs more than the locks.  A job whose
  process died has its lock still, and its worker in whatever state it left it:
  `Exclusive` counts it as long as it has begun to change the worker and holds
  the lock.  `HoldsLock` ties both to the lock's receipt.
* `Folders` says what the receipts in a job's folder tell of the step its process
  is at, per kind of job: a later process finds only the folder.  It is why a
  measurement is submitted once, and why nothing is returned that has not been
  settled.
* A request whose caller gave up may arrive when its job has ended (`Released`).
  A late readmission is harmless as it is conditional: while the operator action a
  job observed is the worker's last one, no drain followed the observation, and
  a readmission that anybody has seen is not asked for again (`Looked`).
* `RoutedApproved` is far from inductive: in most states of a window the server
  is neither verified nor the one on record.  `Accounted` says that then a job
  answers for it, which changed it, has not begun to return it and still holds its
  lock, so that the worker is out of routing.  `Passing` carries the verification
  from the check to the record.

What a lock protects is claimed as long as no operator has released one on the
worker by hand (`overridden`), in the properties as in the invariant.  The proof goes through the effects of the
steps.  `JobChange` says what a step of a process, or of its late request, may
change of its job, of the host and of the gateway, and each conjunct is proved
from it once; requests of operators and agents, and events of the host, have
shorter lemmas of their own.

`OperationsProofs` proves `ExecutedAlone` of `Operations` (`ExecutionCorrect`) and
`MediaOnce` of `MediaQueue` (`GenerationCorrect`) for any operations, jobs,
workers and number of mishaps, if none of them is called `"none"`.

* An operation's runner and its return are detached processes, which only files
  bind: `ReceiptsInOrder`, `RunnerSelected` and `ReturnSelected` say which receipt
  comes before which process.  That one operation is at work is `OneUnended`: of all
  that have a launch intent one has not ended.  An approval writes the intent after
  awaits in which it looks at the other operations one after another, while they
  go on.  `ApprovalWaits` says why that is enough: what it has seen of one
  stays true, since an end is final and only an approval makes an intent.
* A media job belongs to the operation it was assigned to for good (`JobsOwned`).
  `ReceiptsFollow` ties the rows of a batch to the runner's position in it, and
  `SentRecorded` says that a job which was sent is past its row `queued`, whatever
  became of the runner; so the next one does not send it.

Only model-checked: `QueueBounded` and `FlexibleNeverQueued` of `Gateway`
(neither holds for every instance, see the known limits; where they do they
rest on `canStartNow`, whose preview runs over the slots one after another and
would need induction over them); `StreamUnderstood` of `Stream`, whose reference
definition is a fold over data and would need induction too; the parts of the
periphery other than `Power`, `Desk`, `Evidence`, `Admission`, `Notebook` and
`Spark`; and `QueuedMovesOn`, `CancelledSettles` and `HeldMovesOn`, since
liveness under fairness is out of the prover's reach.

## 5. Plan

Done: the scheduler (`Gateway`, `Conversations`), the exchange (`Dispatch`,
`Stream`), the door (`Door`, `DoorStart`), recovery, the maintenance windows
with everything that keeps a worker out of routing, server operations, media
queue, store, supervisor and Genie, the periphery, and the proofs above.  Left,
in this order:

1. Proofs of the other parts of the periphery, beginning with the journal of
   `Readers`; `Uploads`, `Watch` and `Images` are built on folds and selections
   from sequences, whose facts need induction over data.
2. `QueueBounded` of `Gateway` without flexible requests.
3. That `Recovery` implements the two actions `Gateway` has for it.

Not modelled, and why: statistics, audits and comparisons over finished records
(`attribution-audit.mjs` and the like: functions of their input that nothing
acts on), the pages' layout and the screenshots of them, the door's control
client (one request, one answer: the control actions of `Door`), the
installation scripts (one-shot remote I/O), vendored examples, Genie's prompts
and the wording of his answers.  Within the scheduler: registration and removal
of workers and maintenance locks (they are in `Pauses`), context-limit changes
(their command is a `Desk` setting), and the numeric balancing policy of `pick`.
