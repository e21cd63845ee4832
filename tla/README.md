# Seleric Agent in TLA+

Seleric Agent answers business questions: a client posts a message, a *run* of an
agent mission is queued, a worker executes it, and the answer appears in the
conversation. Write actions that the agent proposes wait for a human approval.
This project models the parts of that system in which several processes,
requests and crashes meet over shared tables, checks them with TLC on small
instances and proves the central invariants with TLAPS for every instance.

Paths below are relative to `src/src/seleric_swarm/` unless they say otherwise.

## 1. Inventory

| Component | State it keeps | What is hard | What makes it correct |
|---|---|---|---|
| Durable run queue (`conversations/postgres.py`, `recovery.py`) | tables `runs`, `run_attempts`, `run_events`, `submission_outbox`; per worker its lists, claim and heartbeat task | replicas under one worker id, leases running out under a live worker, kills between any two transactions, cancels at any time; a second implementation in memory | rows, events and outbox agree; one owner; a run ends once, stays ended, and does end; both backends decide alike |
| In-process queue (`recovery.py`) | one task ("drive") per submission | drives share each other's work and end on their own reading | no open run is left without a drive |
| Submission, executor, cancel API (`api/conversations.py`) | the assistant's message of each run | its writes are neither fenced nor in the transaction of the run's outcome | an ended run does not show "Working…"; the reply is that of the attempt that ended the run |
| Missions (`api/async_missions.py`, `persistence/`, `cancellation.py`, `main.py`) | mission rows and events, cancellation flags, jobs | flag, row and job are written by several processes, any of which may die | a cancelled mission stays cancelled, an accepted cancel holds, no mission hangs (section 5 has the ways in which one does) |
| Activity events and streams (`conversations/events.py`, `api/conversations.py`) | event log, notifier, connections, cursors | overlapping transactions, wake-ups before the wait, broken connections, attempts that lost their lease | every client sees every event once, in order, and learns the outcome |
| Voice worker (`voice/worker.py`) | the running question, its run, its stream | a question superseded at any await | only a completed answer is spoken; a superseded question is silent |
| Approvals (`conversations/phase7.py`) | approval rows, audit trail, rollbacks; per process a lock and an outcome cache | check-then-act across processes, an external effect before the transition, expiry, death | the trail is a legal path and does not lie; dry runs stay dry |
| Threads, attachments, blobs (`api/conversations.py`, `conversations/blobs.py`) | rows and files in two stores | no common transaction, whole rows rewritten from stale reads, uploads that share a file or go on after the scan | an upload belongs to one message; what says READY has its content |
| Memory, context, lists (`conversations/context.py`, repositories) | memory rows; pages | consent, contradiction and deletion while a run is built; budgets; rows that move between pages | nothing superseded or deleted is used; the bundle fits; no row is skipped |
| Mission setup (`agent/intent.py`, `agent/scope.py`, `services/catalogue_bootstrap.py`) | the shared catalogue cache | a cache replaced between two awaits; a classifier that is down or garbled | a mission works on one whole catalogue; an outage never tightens its limits |
| Agent loop (`agent/`) | budgets, prior calls, tools offered, drafts | a model that repeats calls, raises, or is sent back | a mission ends within its budget and only a validated answer comes out |
| Model routing (`llm/`, `agent/model_health.py`) | breakers, cooldowns | several requests meet one half-open breaker, a request is cancelled, chains differ | one probe at a time, which is given back; some model is tried |
| Query tools and caches (`toolsets/semantic.py`, `state/cache.py`) | the mission's cache, flights, budget, evidence | calls of one batch interleave at every await | one value per query, written once; filters survive fallbacks |
| Evidence, analyses, derived claims (`agent/validation/`, `toolsets/analytics.py`, `causal`, `models`, `experiments`) | artifacts | rows chosen by a model, artifacts that accumulate | verdict, findings and claims rest on what was measured |
| Time ranges (`services/time_range.py`) | none | month ends, leap days, midnight | windows are sound and two halves of a comparison match |
| Write actions (`toolsets/actions.py`) | tokens, idempotency keys | lost replies, overlapping commits, restarts | what is told of an action is true; a spent token is not sent again |
| MCP transport (`protocols/mcp/servers/seleric_remote.py`) | one session, one lock | a server that forgets its sessions under concurrent calls | no lock-out, a fresh session is kept, every call ends |
| Middleware (`api/security.py`) | the limiter's window | boundary of the window, rounding, several authenticators | the window's bound; what is handled is authenticated |
| Domain health (`services/domain_health`, `services/business_state`) | one file per domain and day | kills while writing, nulls, missing history | the newest snapshot stays readable; status and signals follow from measured values |
| File store, migrations (`persistence/`) | JSON files; `schema_migrations` | kills in the middle of a write, saves in several threads, concurrent starts of several releases | acknowledged data survives; each script runs once and in order |
| Office UI stores and projections, adapters, checkpointer, sandbox, knowledge, wiring, evals | none of their own, or external | | not modelled, section 8 |

How they interact: `submit_message` writes run, first attempt, messages and
outbox row in one transaction, then calls the queue's `enqueue` (a no-op for the
polling worker, a new drive in process). Workers poll `list_recoverable`, `claim`
an attempt with a version that fences every later write, run a heartbeat thread
and the executor `_execute_submission`, which starts the run, emits
`run.started`, awaits the mission and rewrites the reply; the worker then
finalizes the attempt, or fails it, which may queue a retry. The mission takes a
snapshot of the catalogue, lets the agent call its tools (queries through the
MCP transport and the mission's cache, analyses, proposals of actions) and has
the answer validated. `cancel_run` ends the run and its attempts in one
transaction, raises the mission's flag and repairs the reply in others. Clients,
the voice worker among them, follow the events. Approvals, attachments and
memories are requests of their own; they meet the runs at submission.

## 2. Modules

| Module | Models | Composes |
|---|---|---|
| `RunLifecycle` | abstract: what a client of the queue sees | |
| `RunQueue` | the durable queue and its workers; implements `RunLifecycle` | |
| `MemoryRuns` | the in-memory repository, method by method, compared with each step of `RunQueue` | EXTENDS `RunQueue` |
| `Transcript` | the reply, the executor's write, the cancel request | EXTENDS `RunQueue` |
| `InProcessQueue` | the drives of the development queue | EXTENDS `RunQueue` |
| `MissionStore` | the mission row, its events, the guarded `put`, `prune`, in both backends | |
| `Missions` | submission, job, cooperative cancel, flags, process death | EXTENDS `MissionStore` |
| `EventLog` | `run_events`: appending transactions of executors and the API | |
| `Streams` | the two stream handlers, three notifiers, clients that resume | EXTENDS `EventLog` |
| `Voice` | `VoiceTurnRunner` on top of log and stream | EXTENDS `Streams` |
| `Approvals` | approvals and the requests that use them | |
| `Library`, `Memories`, `Context`, `Pages` | threads and attachments; memories; the context's budgets; pagination | |
| `MissionSetup`, `AgentRun`, `ModelRouting` | what precedes a mission; its loop; which model answers | |
| `Fetching`, `TimeRange`, `Analytics`, `Derivations`, `Evidence`, `Actions` | the tools and the verdict | |
| `Sessions`, `Admission`, `DomainHealth` | MCP transport; middleware; daily snapshots | |
| `FileStore`, `Migrations` | JSON files of development; the SQL runner | |
| `RunQueueProofs`, `TranscriptProofs` | theorems about `RunQueue`, `MemoryRuns`, `InProcessQueue`; about `Transcript` | |
| `MissionsProofs` | theorems about `Missions`, `DomainHealth`, `TimeRange` | |
| `ServicesProofs` | theorems about `Streams`, `Voice`, `Sessions`, `Admission` | |
| `ApprovalsProofs`, `ConversationsProofs` | theorems about `Approvals`; about `Library`, `Memories`, `FileStore`, `Pages`, `Context` | |
| `AgentProofs` | theorems about `MissionSetup`, `AgentRun`, `ModelRouting`, `Fetching`, `Actions`, `Analytics`, `Derivations`, `Evidence`, `Migrations` | EXTENDS `MCAgent` |
| `InductionLemmas` | induction over sets of numbers, recursion and sums along a list, enumeration of finite sets | |
| `MCRunQueue`, `MCTranscript`, `MCInProcessQueue`, `MCApprovals`, `MCStreams`, `MCVoice` | instances for TLC of one module each | |
| `MCMissions`, `MCConversations`, `MCAgent` | instances of several parts | `Missions`, `Sessions`, `Admission`, `DomainHealth`; `Approvals`, `Library`, `Memories`, `FileStore`, `Context`, `Pages`; the agent's parts |

Some parts that share no state are checked in one run (`MCConversations`, `MCAgent`,
`MCMissions`): each initial state chooses a part (`focus`), and a step of that
part leaves the variables of the others alone. The state space is the sum of the
parts', not their product.

`PROJECT.json` maps every definition to the lines it stands for. Definitions
whose name is another's with a suffix (`Fenced_NoVersion` beside `Fenced`) are
deliberate mutations that TLC must catch, one for each part of each property; no
action uses them.

A module states what must hold as named formulas, each with its comment, and
gathers those of one subject into one property that a run checks:

| Property | Of | Parts |
|---|---|---|
| `RowsAgree` | `RunQueue` | `TypeOK`, `AttemptsMatchRun`, `EventsMatchRun`, `OutboxSettled`, `CompletedWasStarted` |
| `OnlyForward` | `RunQueue` | `TerminalForever`, `AttemptsOnlyAdvance` |
| `ThreadTellsOutcome` | `MCTranscript` | `TranscriptInv` (types, `CompletedHasReply`, `CancelledHasReply`), `LoneReplyOfLastAttempt` |
| `InProcessInv` | `InProcessQueue` | types, `NoRetryLeftBehind` |
| `ApprovalsInv` | `Approvals` | types, `TrailIsPath`, `ExecutedWasApplied`, `RolledBackWasUndone`, `DryRunNotApplied`, `NotRepeated` |
| `MissionsInv` | `Missions` | types, `EventsMirrorRaw`, `StoresAgree`, `NoStickyFlag`, `AcceptedCancelHolds` |
| `CancelIsFinal` | `Missions` | `CancelledForever`, `OutcomeNeverCancelled` |
| `SessionsInv` | `Sessions` | types, `NoLockout` |
| `AdmissionInv` | `Admission` | types, `SlidingWindow`, `WaitingHelps`, `HandledIsAuthenticated` |
| `HealthInv` | `DomainHealth` | types, `LatestNeverGoesBack`, `StatusIsWorst`, `SignalIsMeasured` |
| `StreamsInv` | `Streams` | types, `StreamIsExact`, `ToldTheOutcome`, `NoLostWakeup` |
| `VoiceInv` | `Voice` | types, `OnlyCompletedSpoken` |
| `QuestionsSettle` | `Voice` | `EveryQuestionEnds`, `KnownRunIsAsked` |
| `LibraryInv` | `Library` | types, `AttachedOnce`, `ReadyHasContent` |
| `MemoriesInv` | `Memories` | types, `SupersededStaysOut`, `ActiveIsConsented` |
| `ContextFits` | `Context` | `BundleWithinBudget`, `SummaryIsPrefix` |
| `SetupInv` | `MissionSetup` | `SnapshotIsWhole`, `ScopeIsAnswerable`, `OutageNeverTightens` |
| `AgentInv` | `AgentRun` | types, `AnswerIsValidated`, `SpendIsBounded`, `SameCallIsBounded` |
| `RoutingInv` | `ModelRouting` | types, `ProbeHasCaller`, `SomeModelTried` |
| `FetchingInv` | `Fetching` | types, `OneValuePerQuery`, `RowsWrittenOnce`, `NothingStripped`, `WithinCubeBudget` |
| `ActionsInv` | `Actions` | `CommitIsTold`, `KeyKeepsItsAction` |
| `TimeInv` | `TimeRange` | `NeverMixed`, `TokenSaysTheSame`, `PeriodsMatch`, `WindowIsSound` |
| `FindingsInv` | `MCAgent` | `AnalyticsInv` (`LikeForLike`, `NeverPooled`, `NullIsNotZero`, `SameDirection`, `PartsAddUp`, `FunnelGoesDown`), `EvidenceInv` (`PassIsBacked`, `TwoSignals`), `DerivationsInv` (`DerivedWithinBudget`, `WiderNeverRefuses`, `EffectIsObserved`, `TruncationIsTold`, `RefutesTheSame`, `LiftIsMeasured`) |
| `MigrationsInv` | `Migrations` | `ScriptsRunOnce`, `ServesOnItsSchema`, `ScriptsInOrder` |
| `FileStoreInv` | `FileStore` | `SavedAlone`, `UnitIsWhole`, `FilesAgree`, each for files on which no two writers met |
| `SettledStays` | `MCConversations` | the action properties `DeletionIsKept` (`Library`), `ForgottenForGood` (`Memories`), `LoneSaveHeals` (`FileStore`) |

The remaining ones stand alone: `SingleOwner`, `EventuallyOver` and
`ImplementsLifecycle` of `RunQueue`, `BackendsAgree` of `MemoryRuns`,
`WalkIsComplete` of `Pages`, the action properties `LoneReplyStable`,
`FreshSessionKept`, `RejectIsFinal`, `SpentIsSpent` and `DroppedStaysSilent`, and
the liveness properties `NoMissionHangs`, `EveryPostEnds`, `EveryFollowerLearns` and `AgentsMissionEnds`.

### RunQueue

Every method of `PostgresRunRepository` is one transaction and therefore one
step; between two of them a worker is a program counter (`pc`), the token of its
claim (`job`: run, attempt number, version), the two lists it read (`expired`,
`candidates`), the executor's result (`outcome`) and the state of its heartbeat
task (`hb`). The rows keep what guards and properties read: status, current
attempt, retry count and backoff of a run; status, worker, lease and version of
an attempt; the `run.started` and terminal events; whether the outbox row is
published. Leases and `next_retry_at` are timers that `Tick` counts down, so
"expired" is 0.

A worker's cycle is `RecoverScan`, `RecoverAttempt`*, `ListCandidates`,
`CheckRun`, `Claim`; then, as the executor, `ExecBegin`, `ExecEnterRunning`,
(`ExecRefused`), `ExecEmitStarted`, `ExecReturn` or `ExecRaise`; then
`ResolveOutcome`, `FinalizeCommit` or `FinalizeRefused`, `FailAttempt`,
`EndExecute`, with `Heartbeat` and `LeaseLost` beside it. `TransitionFailed` is
the transaction shared by recovery and failure. A lost heartbeat's exception
leaves `run_once` through the `finally` branch and ends the process
(`EndExecute` to `"down"`, `Restart`).

Abstractions: `RecoverAttempt` joins the read and the fenced update of
`recover_expired` (the update repeats the read's conditions, so a row that
changes in between is skipped either way). The mission's cancellation flag may
be set at any moment, so `ExecBegin` may always find it. Deadlocks between
`cancel` and `finalize_attempt`, which lock in opposite order, are
`FinalizeRefused`, always possible. Left out: other database outages, the
`LIMIT` of scans, `RunAttempt.retryable` (never FALSE), progress events, the
`on_committed` callback (never set).

### Transcript

Adds the reply of each run (what it shows and which attempt wrote it), what each
executor is about to write, and how far each cancel request has come. From the
end of the mission's await to its return, `_execute_submission` does not yield,
so the worker's own later steps wait for `WriteReply`, while other processes, the
heartbeat thread and crashes do not. `ReadPlaceholder` and `ReplacePlaceholder`
are two transactions in the code and two steps here. A deployment has one worker
or two (`DeployedSpec` chooses in the initial state): the properties named
`Lone…` are of the first.

### InProcessQueue

The members of `Workers` are drives. A drive repeats `run_once` while
`HasPendingRetries`, and is over when it ends or when an exception leaves it.
There are no crashes: the repository dies with the process.

### Approvals

A request is served by a handler in some process: it sweeps expired approvals,
reads the approval, and then decides, executes or rolls back from what it read.
`Transition` is `transition_approval` with its compare-and-set; the computation
of the effective target and the update are one step, so a decision computed just
before the expiry and written just after it is not distinguished from one written
just before. Executors are external: what is kept is how often
they took effect (`applied`, `undone`, counted up to `MaxCalls`). Roles are
`DecideRefused`, which may always happen. A repeated `create` with the same
idempotency key changes nothing. `checkpoint_resume` is not modelled: nothing
wires it (`bootstrap.py` builds the service without executors or hook).

### Missions, MissionStore

A row keeps the typed status that the guard of `put` looks at, the status inside
the raw payload, the async marker and the events; jobs and cancel requests are
processes, every access to the store or a flag a step. Deliveries come from the
API's own task or from the durable queue; `PutBackGet`/`PutBackPut` are the end
of `submit_message`, which reads the result and writes it back. The Redis flag
outlives a process, the local one does not (its expiry after 24 hours is left out).
`Crash` kills a process with its jobs; `JobCancelled` is the `CancelledError` of a
lost heartbeat or of a worker that is stopped, which passes the job's `except
Exception`. Either way the delivery counts: a mission is delivered again only while
its run has attempts left (`MaxStarts`), and a run that recovery fails writes nothing
into the mission's row. `ended` are the missions that were delivered to the end.

### EventLog, Streams, Voice

An append is open until its transaction commits; until then its row is invisible
to others, and the advisory locks admit one open append per run and one per
thread. An executor that lost its lease goes on emitting. `Streams` adds, per
client, the server's generator (batch, cursor, final read, wait), the connection
and the client's own cursor; `Publish` is the notifier, which may reach a waiter
or not. `Voice` follows one run at a time and adds the task of the current
question, what was sent to the API and what was spoken; the server polls there, as
notifiers only shorten a wait. A POST may fail before or after the API has accepted
it (`PostFails`), and a request to cancel is sent once and may be lost.

### Library, Memories, Context, Pages

Requests read a row, work on a copy and write the whole row, and nothing keeps two
requests for one row apart. What such an overlap can do is not excluded but
remembered: `clashed` (Library) are the attachments whose row or blob was changed
between a request's check and its write, `clobbered` (Memories) the rows over which
an older copy was written. The invariants hold of all the others, and say of which
rows they hold; `Gone` and `ThreadGone` look at the copies that are still under way.
With MinIO the client may put the object as long as its URL is valid; two uploads to
the local store write into one temporary file, whose content is then anything that
either has sent. `Context` computes the two texts cut from a
conversation as functions of what is read: the greedy selection goes through a
source one text after the other (`take`, a recursive function of the number of
texts looked at), with what remains of the whole budget handed from source to
source. `Pages` takes a step per page.

### The agent

`MissionSetup` takes every await of `run_v3_mission` before the agent as a step,
over the one catalogue cache that missions share; phrases are sequences of words,
so that matching is modelled by what it does. `replaced` are the missions whose cache
another mission's refresh has loaded anew between their snapshot and the reading of
their scope. In `ModelRouting` a request may be cancelled while a model answers, and
then nothing is recorded (`Cancelled`, `abandoned`). `AgentRun` is the loop: a response
may call any offered tools, up to a batch at once; the repeat guard, the budgets
of requests and calls (shared out among the attempts by a rounded-up quotient),
the withdrawal of tools, output retries and revisions are the code's; the verdict
is free here, since `Evidence` decides it as a function of the artifacts. In
`Fetching` a value is the number of the fetch it came from, which tells a shared
value from an equal one. `TimeRange` numbers the days of the proleptic Gregorian
calendar and has a table of their dates from `FirstYear` to `LastYear`; a question is
the list of the date phrases found in it, and the code's tests for one kind of phrase
after another are lists of kinds of which the first that occurs decides.
`Analytics` and `Derivations` compute with integers (doubled medians, percent).
Whatever the code sorts is modelled by ranks: a segment is kept when fewer than
`MAX_SEGMENTS_REPORTED` are larger, a confounder rides along when few enough appeared
before it, the transitions of a funnel are the pairs of steps with none between. In
`Evidence` the trust score is the weighted mean of the dimensions that a check's
signal feeds, the profiles being lists of dimensions with their weights. What DoWhy
and statsmodels return is external and free.

### Sessions, Admission, DomainHealth

`Sessions`: the server's sessions are external variables; a post may fail before
or after the server has done its part. `_session_id` and the header that carries
it change together and are one variable. `Admission`: time is in ticks, two to
the second, because `Retry-After` is rounded to seconds; the limiter is on.
`DomainHealth`: reading the previous snapshot, resolving, and the three file
operations of `save` are steps; a run may be killed between any two and cron may
start the next at once.

### FileStore, Migrations, Actions

A save is snapshot, open, fill and rename, in threads that overlap and share one
temporary file per store; a writer that comes upon another's file finds it renamed
away or half filled. `met` are the files on which two writers were ever at work at
once, `lone` the writers that have had their file to themselves.
A migration's script and its two row updates are three transactions. The broker
of `Actions` is external: it gives a token to an eligible proposal and carries it
out at most once; either half of a call may be lost.

## 3. Runs

| Run | Instance | Shows |
|---|---|---|
| `race` | 1 run, 2 attempts, 2 workers with one id, 1 crash | all safety of the queue, that it implements `RunLifecycle`, and that the in-memory repository decides alike |
| `backlog` | 2 runs, 1 worker, 1 crash, fairness | every submitted run ends |
| `transcript_race` | 1 run, 1 or 2 workers, 1 crash, a cancel request that may die | a completed run, or an answered cancel, never leaves "Working…"; alone, a worker's reply is the last attempt's and stays |
| `drain` | 2 runs, 2 drives | the last drive to end leaves no open run |
| `missions` | 1 mission whose run has 2 attempts, 1 cancel, 1 crash, leases lost at any time; 2 MCP calls, 2 server restarts; a limit of 2 in 5 ticks; 2 domains, 2 days, 1 kill | missions and their stores; no lock-out from the MCP server; the window; snapshots |
| `streams` | 2 runs of a thread, 2 attempts, 3 rows each, 1 broken connection, 3 notifiers | exactly-once delivery in order, the outcome told, no lost wake-up |
| `voice` | 2 questions, 1 broken connection, any request lost | only completed answers are spoken, superseded ones are silent, every question ends, the cancellation of a known run is asked for |
| `conversations` | approvals: 2 requests in 2 processes; 1 attachment and 3 requests in both stores; 3 memories and 3 requests in both databases; a submission and a run that ends save files at once, 1 kill; 2 texts per source; 3 rows in pages of 1 or 2 | the trail of approvals; what overlapping requests, uploads and puts cannot do to attachments, deleted threads and memories; what survives overlapping saves and a kill, and that a lone save heals; budgets and pages |
| `agent` | 2 missions that start, 3 payloads of the catalogue, 5 answers of the classifier or none; 2 requests, 3 models, chains with and without the fast one; the inputs of the other eight parts are defined in `MCAgent` | the invariants of the agent's parts; a mission ends |
| `approval_early`, `mission_hung`, `retry_cached` | that of the passing run, or smaller | disagreements of code and its own words, section 5 |

Why the bounds are enough:

- Runs do not touch each other's rows; two matter only for a worker's lists
  (`backlog`), for drives that take each other's work (`drain`) and for a thread's
  stream (`streams`).
- Two attempts give a first, a retried and a last attempt; `CanRetry` is asked on
  both sides of its boundary. Two workers are a holder and a usurper; a third
  could only repeat the usurper's part. The proofs drop all these bounds.
- A lease of 1 tick expires at the first `Tick`, so every interleaving of expiry
  with every step is reached; `MaxBackoff` admits the delays that
  `RetryDelay` and `RetryJitter` give. In `drain` the lease is 2, so that it
  can be renewed.
- `MaxCrashes` counts kills, not exits on a lost heartbeat, which are unlimited.
- `drain` follows neither cancelled runs (a cancel only takes work away) nor
  drives that died (section 5), and assumes leases renewed in time (constraint
  `Followed`, which keeps the run small: the theorem does without it).
- `MaxCalls = 2` of approvals tells none, one and several calls apart.
- Two MCP calls and two restarts are the smallest with a drop of a session that
  another call has replaced and a second 404 of one call. `Window` 5 and `Ticks` 2
  put every request on and off the second; nine ticks hold two windows' turns.
- Two requests that overlap are enough for a stale read; a third changes the row
  between. Three requests on memories insert one, supersede it, and rewrite it from
  a stale copy.
- The submission and the run that ends have all kinds of writes, units of work
  included, and meet on two files. Two missions are enough for one to replace the
  cache under the other; two callers and a threshold of 2 for a probe beside a
  failure.
- Missions of the agent are two calls of two kinds in batches of two, one
  revision, one output retry: enough to repeat a call across and within batches
  and to run out of every budget. The three models of failure of the metrics
  service and three releases of migrations are those the code tells apart.
- Symmetry (workers, drives, handlers, processes, requests) is used with safety
  only; `race` and `conversations` use it with action properties, `race` with the
  refinement as well: safety formulas symmetric in the permuted constants.

Deadlock is checked for the queue, where `AllSettled` is the legitimate end of a
finite set of submissions. The other runs set `CHECK_DEADLOCK FALSE`: a finite set
of requests, questions or missions is served and the system rests.

## 4. Fairness

- `RunQueue`: weak fairness of `Tick` (time passes) and of every worker's own
  steps. Workers are restarted (`docker-compose.yml`, `restart: unless-stopped`)
  and missions are bounded by `mission_timeout_s`, so the executor returns or
  raises. Users, heartbeats and crashes owe nothing: `EventuallyOver` holds even
  if no heartbeat ever arrives.
- `Transcript`: the same, and a cancel request that is being served goes on.
- `InProcessQueue`: the event loop runs every ready task.
- `Approvals`: a request that is being served goes on; clients owe nothing.
- `Missions`: a live job and a cancel being served go on; the outbox and recovery
  deliver a mission as long as its run has attempts left and none of its deliveries
  has run to its end (`Deliver`). Crashes and lost leases owe nothing and use
  attempts up.
- `Streams`: generators and clients run on and an open transaction commits;
  nobody is obliged to emit, and connections may break.
- `Voice`: the worker's own task runs on, and its timeouts pass. Nothing else is owed:
  a POST or a request to cancel may be lost, the API may never answer and a run never
  end.
- `AgentRun`: the model answers or raises (`mission_timeout_s`, the providers'
  timeouts); what it answers is free.
- `Sessions`: a post is answered or times out (`_hard_timeout_s`).

## 5. Findings

Three are runs that TLC must refute; `PROJECT.json` quotes the lines.

- `approval_early`: an execution requested before approval calls the executor; it
  is refused only afterwards.
- `mission_hung`: `submit_message` commits the run and only then writes the
  mission back as it had seeded it; a worker that was faster has its outcome
  overwritten, and the mission shows running for ever.
- `retry_cached`: a transient error of the metrics service is stored in the
  mission's cache; the retry that the repeat guard lets through is answered with it.

The following statements are in the modules, are refuted by the code as well, and
have no run of their own (some are parts of a property that holds in the
configuration of section 3). To see one, add it to the named configuration in place
of its properties (with the constant given, if any).

| Statement | Of | Configuration | What happens |
|---|---|---|---|
| `CancelledNeverDangles` (`Transcript`) | `api/conversations.py` `_finalize_cancelled_placeholder` | `Transcript_race.cfg` for a module with `Transcript` alone, `TranscriptFairSpec`, one worker, no crash | a mission cancelled by its flag before its run starts ends CANCELLED with the reply still "Working…" |
| `StoresAgree` (`Missions`) | `persistence/` `put`, both backends | `Missions_race.cfg`, two jobs | two executions of one mission overlap; the one stopped by the flag puts back the payload it had read before the other's outcome: status completed, payload running |
| `CancelKeepsAnswer` (`Transcript`) | a test's name | `Transcript_race.cfg`, no symmetry | the cancel request reads the placeholder, the worker writes its answer, the cancel request overwrites it |
| `DrivenToTheEnd` (`InProcessQueue`) | `recovery.py` `_drive` | `InProcessQueue_drain.cfg`, `InProcessFairSpec`, one run and drive, `LeaseS = 1`, no symmetry or constraint | a late heartbeat ends the drive right after it has queued the retry |
| `CompensatedIsRolledBack` (`Approvals`) | a test of the rollback | `Approvals_early.cfg` with `FairSpec` | a rollback after `expires_at` compensates the action; the approval stays EXECUTED |
| `DraftOfOneAttempt` (`Streams`) | the UI's reset of a draft | `Streams_lossy.cfg`, `MaxRows = 4` | deltas of an attempt that lost its lease mix with its successor's |
| `FindingIsBacked` (`Analytics`) | `toolsets/analytics.py:66-68` | `Agent_parts.cfg` | rows of two metrics go into one finding |
| `OneActionPerKey` (`Actions`) | `toolsets/actions.py:266` | `Agent_parts.cfg` | a lost reply gives the key back although the action was carried out |
| `LiftIsLikeForLike`, `OnePointPerPeriod` (`Derivations`) | `toolsets/experiments.py:213`, `models/service.py:5-6` | `Agent_parts.cfg` | rows are told apart by label only; two segments become two points of a day |
| `HandshakeFirst` (`Sessions`) | `protocols/mcp/servers/seleric_remote.py:68` | `Missions_race.cfg` | a call overtakes `notifications/initialized`, or it is lost and not repeated |
| `KilledMissionsEnd` (`Missions`) | `api/async_missions.py:335`, "never leave a hung running mission" | `Missions_hung.cfg`, `MaxStarts = 2` | every attempt of the run is killed or loses its lease; recovery fails the run (`recovery.py:147`), nobody writes the mission's row, and it shows running |
| `PendingCancelEnds` (`Missions`) | `api/async_missions.py:337-339` | `Missions_hung.cfg`, `Clients = {c1}`, `MaxCrashes = 1` | the process of a cancel dies between the flag in Redis and its write; each later delivery finds the flag and returns without a terminal write |
| `SupersededIsCancelled` (`Voice`) | `voice/worker.py:463-464`, "the old run is cancelled" | `Voice_turns.cfg`, an invariant | a question is superseded before its POST has returned; its run goes on executing |
| `DeletionHolds` (`Library`) | the repository's `docs/47_CONVERSATION_DATA_POLICY.md:9` | `Conversations_parts.cfg` | a rename or a submission that had read the thread before its deletion writes the whole row back, undeleted |
| `ForgottenStaysOut` (`Memories`) | the same, lines 18-19, "deletion or revocation prevents future retrieval" | `Conversations_parts.cfg` | a change that had read a memory before its deletion or revocation writes the whole row back (`conversations/postgres.py:1507`) |
| `AcknowledgedSurvives` (`FileStore`) | `persistence/file_store.py:3-4` | `Conversations_parts.cfg`, an invariant | two saves of one file overlap, the older snapshot or a mixture stays, and what was acknowledged is gone after a restart |
| `ProbeIsClosed` (`ModelRouting`) | `llm/gateway.py:81-82`, "must still close the probe" | `Agent_parts.cfg`, an invariant | the task of a probing request is cancelled; `except Exception` misses it, nothing is recorded and the breaker refuses its model for good |
| `NoneSkippedWhenAllCool` (`ModelRouting`) | `agent/model_health.py:8-9` | `Agent_parts.cfg`, an invariant | a healthy model of another chain lets all cooling models of this one be skipped, and the request fails without a call |
| `DemandIsCaptured` (`MissionSetup`) | `agent/scope.py:13-17` | `Agent_parts.cfg`, an invariant | another mission's refresh empties the cache between a mission's snapshot and the reading of its scope (`agent/runner.py:561`, `570`): what was demanded is not required |
| `GarbledFieldsFailOpen` (`MissionSetup`) | `agent/intent.py:176-178` | `Agent_parts.cfg`, an invariant | one field of an unexpected type ends the parse of all, and the mission |
| `LatestNeverGoesBack` (`DomainHealth`) | `snapshot_store.py:34-43` | `Missions_race.cfg`, two `Runners` | overlapping runs share one temporary file; `SnapshotsAreKept` has the hypothesis `OneAtATime` |

## 6. Proofs

The theorems hold for every value of the constants that the named assumptions
allow: any sets of runs, workers, missions, requests, clients, files, models and
tools, any limits, any number of crashes. What a theorem assumes beyond that is a
hypothesis of its own and named below. Every proof has the same shape: an
inductive invariant (named `…IInv`), a lemma per action or group of actions, and
the property read off the invariant. Most invariants of the runs are not
inductive; what follows says what had to be added to each and why.

**`RunQueueProofs`** (`WorkersAssumption`, `LimitsAssumption`,
`BackoffAssumption`). That a finalize ends the run truthfully depends on what the
worker's token still means. The invariant is `IInv == DbInv /\ WorkerInv`.
`DbInv` is one formula per run over its four rows (`RowInv`: types, attempts
against run, leases only on RUNNING attempts, events against run, outbox,
completion after start). `WorkerInv` ties workers to rows: a token never is ahead
of the row's version, two workers never hold equal tokens (`TokensMatch`), and an
outcome COMPLETED is only held by a worker whose `run.started` is in the log
(`OutcomesMatch`). The lemmas follow that cut: what each transaction does to one
run's rows (`SubmitStep`, `CancelStep`, `TransitionFailedStep`, `FinalizeStep`,
…), that other runs are untouched (`OneRun`), that tokens survive (`TokenKept`),
then one lemma per group of actions. `DbStep`, proved of every step beside the
invariant, says how rows may move and gives the action properties and the
refinement. Results: `RowsAlwaysAgree`, `FencingHolds`, `StepsOnlyForward`,
`QueueImplementsLifecycle`, and the parts under their own names
(`TypeCorrect`, `AttemptsAgree`, `EventsAgree`, `OutboxAgrees`,
`CompletionFollowsStart`, `TerminalIsForever`, `AttemptsAdvanceOnly`).
`RepositoriesAgree`: the in-memory repository decides as Postgres does on every
reachable state, because only the current attempt can be live and the run of a
live attempt is open; on other states the two differ.

The drives of one process work the same queue (`DrivesWorkTheQueue`, a refinement
with the drives' bookkeeping hidden), so `IInv` holds of them. `DriveInv` adds what
lets a drive end: unless one has died, every running attempt is in the hands of the
drive that claimed it (`EveryAttemptInHand`), and as long as a submitted run is open
some drive is still going to look at it (`SomeoneLooks`). A drive ends on what it has
read itself, so the case that matters is a run that another drive has queued again
meanwhile: that one has not ended. `HoldKept` says of all steps of a drive at once
that an attempt keeps its holder. Result: `DrivesLeaveNothing`, with leases that run
out and cancels at any moment, which the run leaves out.

**`TranscriptProofs`**. A step of `Transcript` is one of the queue, so `IInv`
holds throughout. `TranscriptIInv` adds that a worker holding COMPLETED either
still has its reply to write or has written it (`WriterInv`), and that a completed
run, or an answered cancel, shows no placeholder (`RunReply`). `Summary` says of
all steps of a worker at once what the reply asks of them. `RepliesTellTheOutcome`
holds for any number of workers. With one worker, `LoneInv` adds that until it
settles its attempt the run ends only by a cancel and that the reply, once
written, carries its attempt's number; all other members of `Workers` are idle
(`OthersIdle`). That gives `ThreadsTellOutcomes` and `LoneRepliesAreFinal`.

**`MissionsProofs`**. `MissionsIInv`: a payload that says cancelled, in a row or
in the hands of a process, is that of a cancelled mission (`CancelsAreTrue`), a
flag that is set belongs to a settled mission or to a process on its way to take
it back (`FlagsAreOwned`), queued and running missions have rows. A delivery that is
cancelled or killed changes no row and gives back no flag, so the invariant does not
count deliveries. It gives
`CancelIsFinalAlways` and `MissionsHoldAlways` (all of `MissionsInv` but
`StoresAgree`) without hypothesis. `MissionsAgreeWhileApart` proves `StoresAgree`
as well under `DeliveriesApart`, that no two executions of one mission overlap;
the queue lets them overlap when a worker whose lease ran out goes on, and then
the statement is false (section 5). `SerialIInv` says what a job that is about to
put a row back has read of it. `RenumberIncreases` is about `Renumber` alone.

Of the daily snapshots, `HealthIInv` says that every file, temporary or not, and
what a process is about to write is torn or honest: of its own domain and day, with
the status of its worst metric and with signals that follow from measured points
(`Honest`). That survives any overlap of runs (`SnapshotsAreHonest`). That the newest
readable file is never older than one that was saved needs `FilesKept` and therefore
one run at a time (`OneAtATime`): the temporary file holds the whole snapshot when it
is renamed. Result: `SnapshotsAreKept`.

Of time ranges (`TimeRange`), `TimeIInv` says that what was read is what the
question says on the day it was asked, what it is resolved to is worked out on
that day or the next. The rest is the calendar: each month begins where the one
before it ends (`NextMonth`), so `Day` is increasing and the table inverts it,
and going back by months keeps the day or takes the month's last one. A question
is then read in one of five ways (`WaysToRead`), each with its own lemma. Result:
`WindowsAreSound`, for every table of years and every question over it.

**`ServicesProofs`**.

- *Sessions* (`SessionsIInv`): the lock is held during a handshake and only
  without a session; a session replaced is one that the server has forgotten, and
  what it has forgotten it never knows again; if the server has not restarted
  since a call began, whatever that call can still meet is known
  (`SinceBegin`). Results: `CallersAreNeverLockedOut`, `KnownSessionsAreKept`.
- *Admission* (`AdmissionIInv`): the times the limiter keeps are the last of those
  at which it admitted, the others have left the window; `Retry-After`, rounded
  down, tells less than a second too little. Result: `AdmissionIsFair`.
- *Streams* (`StreamsIInv`): the advisory locks number rows in the order of their
  commits (`LogSorted`, `IsNext`), so a later commit is above every cursor; what a
  client holds followed by what is on its wire are the rows up to its generator's
  cursor, once each and in order (`Exact`). `NoLostWakeup` is inductive with that.
  Result: `StreamsAreExact`.
- *Voice* (`VoiceIInv`), over requests that may fail or be lost: a busy task is that of the last question, which nobody
  has dropped; while it follows, the stream is of its run; when it fetches, that
  run has completed. A run that is over is not ended again, so its reply stays.
  Results: `AnswersAreOfCompletedRuns`, `DroppedIsSilent`.

**`ApprovalsProofs`** (`SettingsAssumption`, `HandlersAssumption`).
`TrailsArePaths` needs only the types of two tables: each step leaves a row
alone, creates it or moves it (`RowStep`). The other theorems (`ApprovalTypes`,
`ExecutedIsApplied`, `RolledBackIsUndone`, `DryRunIsDry`, `ActionNotRepeated`,
together `ApprovalsTellTheTruth`) come from `WorldInv`: types, per handler what it
has done by its point of the code (`HandlerInv`: it holds its process's lock while
executing, its approval is not dry past the read, has taken effect before
committing, is compensated and recorded before rolling back), per approval what
its row says of the outside world (`RowTrue`). `WorldFromStep` reduces a step to
its own handler and the rows.

**`ConversationsProofs`**.

- *Library* (`LibraryIInv`): the copy that a request carries was made from the row
  when it was PENDING or by the request's own check (`Carries`); of an attachment on
  which nobody clashed, a request about to write READY has found the blob that is
  still there (`CheckedIsFit`), and a READY row has it (`ReadyIsFit`). `clashed` only
  grows, so an overlap is in it before its damage is done (`SharedIsKnown`). Results:
  `AttachmentsAreSound`, and `DeletedThreadStays` from the guards of the thread's
  requests.
- *Memories* (`MemoriesIInv`): a copy that is about to be written follows from the
  row as it was read (`CallsFollow`), consent included; a new id has one inserter
  (`OneInserter`); a memory that another one supersedes is on its way out, out, or
  was overwritten by an older copy (`SupersededGoes`). Results: `MemoriesStayAsTold`,
  `GoneIsGone`.
- *FileStore* (`FileStoreIInv`): of a file on which nobody met, it lies between what
  was acknowledged and the store's memory, the steps behind a writer are on disk, rows
  are of steps that were reached (`QuietFile`), and those of a unit of work are absent
  from the disk until the rename (`QuietUnits`); that no two writers are at work on
  such a file is `WorkAlone`. A lone writer's snapshot is what is in memory until it
  renames (`LoneSaves`), because whoever changes that memory has met it. Results:
  `SnapshotsSurvive`, `LoneSavesHeal`.
- *Pages* (`PagesIInv`, `PagesAssumption`): a row that does not change lies beyond
  the cursor exactly if it was not shown yet; a page shows the first rows beyond it
  in the lexicographic order of time and id and moves the cursor to the last one
  shown. Result: `WalksAreComplete`.
- *Context* (`ContextAssumption`): nothing moves, so the property is a statement
  about two functions. By induction over the number of texts looked at, what was
  taken is what left the budgets, and a selection within a selection adds up by the
  lemmas on sums; the summary's lines are the first ones and each costs its newline.
  Result: `TextsFit`, for texts of any length and budgets of any size, zero included.

All of these hold without hypothesis, for any number of overlapping requests and
saves: what overlapping can break is named in the properties, and the statements
`DeletionHolds`, `ForgottenStaysOut` and `AcknowledgedSurvives` of section 5 show
that it does.

**`AgentProofs`**.

- *MissionSetup* (`SetupIInv`, `SetupAssumption`): the shared cache is of one
  version at every moment, since a refresh replaces it whole; as long as nobody has
  loaded it anew it is the mission's own snapshot (`Linked`), and a phrase names
  dimensions of that version. Result: `MissionsStartSound`.
- *AgentRun* (`AgentIInv`): each finished run has spent at most its share and the
  rounded shares add up to the bound; of one call, what was executed and what is
  still pending is at most `Batch * (1 + retries)`. Result: `AgentIsBounded`.
- *ModelRouting* (`RoutingIInv`): a caller's place in its chain is ahead of what it
  tried, and a probing model has a caller at its place or was abandoned by one. A chain
  that holds every known model and has tried none still has a model that nobody skips
  (`ChainsTry`): the last one that is not cooling, or any if all are. Result:
  `ModelsAreTried`, for chains that differ and calls cancelled at any moment.
- *Fetching* (`FetchIInv`): a query is fetched by one call and stored once, rows
  carry the stored value, the budget is charged before the fetch. Result:
  `FetchingIsConsistent`.
- *Actions* (`ActionsIInv`): what a call may still be answered, by the state of the
  broker and of its key; a token that brought a reply is spent. Results:
  `WritesAreToldTrue`, `TokensAreSentOnce`.
- *Migrations* (`MigrationsIInv`): the advisory lock is held while rows are read and
  scripts run; what is committed is what is not dirty, in the wording of its row;
  a replica that verifies or runs has seen all rows. Result: `SchemaIsTheReleases`.
- *Evidence*: what rejects an answer is an artifact and none is ever taken away
  (`RejectionIsFinal`); a pass means that each check approved (`PassesAreBacked`); a
  trust score is a natural number whatever signals there are, what earns STRONG is
  above what asks for a revision, and the cap of a blocking challenge is below every
  label (`TrustAndVerdictAgree`). The invariant under all of
  these is only `artifacts \in Seq(Kinds)`: the verdict is a function of the artifacts.
- *Analytics* (`AnalyticsIInv`, `AnalyticsAssumption`): each finding is `Sound` when
  it is written, one lemma per calculator. The sums come from `SumOfTwoParts`: the
  kept and the folded segments are disjoint parts of the measured ones; that no more
  than `MaxSegments` are kept is `FirstPlaces`. That the
  contributions of one series are its comparison (`MovesAgree`) rests on each label
  occurring once per period, so that both pair the same two rows. Result:
  `AnalysesAreSound`.
- *Derivations* (`DerivationsIInv`, `DerivationsAssumption`): every causal artifact is
  the frame of its own breadth over rows that do not change (`Estimated`), a lift
  cites the last measured row of each label (`Lifted`), artifacts are no more than
  the budget that was charged for them (`Budgeted`), and as long as budget is left
  the answer to an estimate depends on the rows alone (`Answered`). That a warning
  tells exactly when confounders were left out is a count of places: they are ordered
  by first appearance, and the last of them is kept exactly if there are no more than
  the cap admits (`OrdersHaveALast`). Result: `DerivationsAreObserved`.
- *All parts of an answer*: a step of one part is a step or a stutter of each other
  (`PartsTakeTurns`), so the three invariants hold together of `PartsSpec`, the
  specification that the run `agent` checks. Result: `FindingsAreBacked`.

**`InductionLemmas`**. The library's induction theorems take an operator and
cannot be used here; `InductionOverASet` takes the set of the numbers for which
the statement holds. From it follow

- `RecursionExists`: a function defined by recursion from the set of partial
  functions exists, hence `PartialSums`, and with it how sums behave
  (`SumOneMore`, `SumOfTwoParts`, `SumOfSums`, `SumReversed`, `SumOfNats`);
- `PlacesEnumerate`: counting predecessors in a total order enumerates a finite
  set, with `OrdersHaveALast` and `FirstPlaces`. Listings (`ListEvents`,
  `list_page`), lifts and cut-offs are written with that rank, so that they
  can be proved about.

All safety properties of the passing runs, invariants and action properties, are
stated by a theorem; so are the refinement `ImplementsLifecycle` and the comparison
`BackendsAgree`. Only model-checked are

- liveness (`EventuallyOver`, `NoMissionHangs`, `EveryPostEnds`,
  `EveryFollowerLearns`, `QuestionsSettle`, `AgentsMissionEnds`): it rests on
  fairness and ENABLED, beyond the prover;
- the three violations and the statements of section 5: a counterexample is TLC's.

What the theorems cannot lift is the models' own abstraction: the integers for
floating-point numbers, the table of years, the free answers of external services.

## 7. Plan

All components with shared state are modelled, checked and their safety proved. What
would come next:

1. Liveness by hand: the well-founded order behind `EventuallyOver` (attempts left,
   then leases, then the place of each worker in its code) as a state function that
   no fair step raises, which is a safety property and could be proved.
2. The hypotheses of section 6 (`OneAtATime`, `DeliveriesApart`) and the exceptions
   in the properties (`clashed`, `clobbered`, `met`, `abandoned`, `replaced`, `Killed`,
   `Orphaned`) each mark a change of the code that would make a theorem unconditional:
   an update with the version read, a temporary file per writer, a probe given back in
   a `finally`, a scope read from the snapshot, a fenced `put`. A variant of the module
   with that change shows whether it suffices.

## 8. Not modelled

`PROJECT.json` lists every component with its reason, and what is left out of the
modelled ones. In short: request and response formats, rendering, tracing and the
office UI's projections are pure I/O or read-only; searching numbers in text,
embeddings, ranking and floating-point statistics are out of TLC's reach; the
checkpointer, the sandbox, the speech framework and the model providers are third
parties; wiring and settings appear as constants. `main.py` beyond its mission
endpoints is wiring.
