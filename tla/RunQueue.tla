------------------------------ MODULE RunQueue ------------------------------
(***************************************************************************)
(* The durable run queue: the run and attempt rows kept by                 *)
(* conversations/postgres.py PostgresRunRepository, and the workers of     *)
(* recovery.py that claim, execute, finalize and recover attempts.  Every  *)
(* repository method is one database transaction, hence one atomic step;   *)
(* everything a worker does between two of them interleaves with the other *)
(* workers, with the API process and with the clock.                       *)
(*                                                                         *)
(* The executor is the callback of recovery.py ResumableRunExecutor; the   *)
(* steps of it that touch the queue (api/conversations.py                  *)
(* _execute_submission up to its await, and the result it returns) are     *)
(* here, what it writes into the transcript is in module Transcript.       *)
(*                                                                         *)
(* Time is kept as timers that count down: a lease of 0 has expired (or is *)
(* NULL), a retry_wait of 0 means that next_retry_at is NULL or past.      *)
(* RunAttempt.retryable is TRUE by default and nothing sets it to FALSE,   *)
(* so it is left out, and so is LIMIT (a scan sees every row).             *)
(***************************************************************************)
EXTENDS Integers, Sequences, FiniteSets

CONSTANTS
  Runs,         \* the runs a client may submit
  Workers,      \* worker processes (or concurrent drives of one process)
  WorkerIds,    \* values of settings.run_worker_id
  WorkerId,     \* the id of each worker: replicas may share one
  MaxAttempts,  \* settings.run_max_attempts
  LeaseS,       \* settings.run_lease_s, in clock ticks
  RetryDelay,   \* settings.run_retry_delay_s, in clock ticks
  RetryJitter,  \* settings.run_retry_jitter_s, in clock ticks
  MaxBackoff,   \* bound: the longest backoff a retry can get
  MaxCrashes    \* bound: how many times worker processes are killed

ASSUME WorkersAssumption == WorkerId \in [Workers -> WorkerIds]
ASSUME LimitsAssumption ==
  /\ MaxAttempts \in Nat \ {0}
  /\ LeaseS \in Nat \ {0}
  /\ RetryDelay \in Nat /\ RetryJitter \in Nat
  /\ MaxBackoff \in Nat
  /\ MaxCrashes \in Nat
ASSUME BackoffAssumption ==
  \A n \in 1..(MaxAttempts - 1) :
    RetryDelay * 2^(n - 1) + RetryJitter <= MaxBackoff

VARIABLES
  run,         \* the runs table
  attempt,     \* the run_attempts table, by run and attempt_number
  events,      \* the run_events table: per run, in sequence order, the
               \* run.started and the terminal events
  outbox,      \* the submission_outbox table
  pc,          \* where each worker is
  job,         \* the attempt each worker claimed, with its fencing token
  expired,     \* attempts the worker's recovery scan found expired
  candidates,  \* runs the worker's scan found claimable
  outcome,     \* what the executor returned
  hb,          \* the worker's heartbeat task
  crashes      \* how many crashes have happened

dbVars == <<run, attempt, events, outbox>>
workerVars == <<pc, job, expired, candidates, outcome, hb>>
vars == <<dbVars, workerVars, crashes>>

-----------------------------------------------------------------------------
\* Rows and their types

TerminalStatus == {"COMPLETED", "FAILED", "CANCELLED"}
OpenStatus == {"QUEUED", "RUNNING"}
RunStatus == {"NONE"} \cup OpenStatus \cup TerminalStatus
LiveStatus == {"RUNNING", "RETRYABLE"}
AttemptStatus == {"NONE"} \cup LiveStatus \cup TerminalStatus
NoWorker == "no worker"
AttemptNumber == 1..MaxAttempts

RunRow == [status: RunStatus, current_attempt: 0..MaxAttempts,
           retry_count: Nat, retry_wait: Nat]
AttemptRow == [status: AttemptStatus, worker: WorkerIds \cup {NoWorker},
               lease: Nat, version: Nat]

NoRun == [status |-> "NONE", current_attempt |-> 0, retry_count |-> 0,
          retry_wait |-> 0]
NoAttempt == [status |-> "NONE", worker |-> NoWorker, lease |-> 0,
              version |-> 0]
NewAttempt == [status |-> "RETRYABLE", worker |-> NoWorker, lease |-> 0,
               version |-> 0]

TerminalType == {"run.completed", "run.failed", "run.cancelled"}
EventType == {"run.started"} \cup TerminalType
Event == [type: EventType, attempt: 0..MaxAttempts]

Token == [run: Runs, number: AttemptNumber, version: Nat]
NoToken == [run |-> "none", number |-> 0, version |-> 0]

\* The program counter of a worker in recover_expired, run_once and _execute.
ScanPC == {"down", "idle", "recovering", "scanning"}
ExecutePC == {"claimed", "starting", "refused", "emitting", "executing",
              "returned", "finalizing", "failing", "ending"}
PC == ScanPC \cup {"checked"} \cup ExecutePC
Outcome == {"NONE", "RETRY"} \cup TerminalStatus

TypeOK ==
  /\ run \in [Runs -> RunRow]
  /\ attempt \in [Runs -> [AttemptNumber -> AttemptRow]]
  /\ events \in [Runs -> Seq(Event)]
  /\ outbox \in [Runs -> {"absent", "pending", "published"}]
  /\ pc \in [Workers -> PC]
  /\ job \in [Workers -> [run: Runs \cup {"none"}, number: 0..MaxAttempts,
                          version: Nat]]
  /\ expired \in [Workers -> SUBSET Token]
  /\ candidates \in [Workers -> SUBSET Runs]
  /\ outcome \in [Workers -> Outcome]
  /\ hb \in [Workers -> {"off", "on", "lost"}]
  /\ crashes \in 0..MaxCrashes

Init ==
  /\ run = [r \in Runs |-> NoRun]
  /\ attempt = [r \in Runs |-> [n \in AttemptNumber |-> NoAttempt]]
  /\ events = [r \in Runs |-> <<>>]
  /\ outbox = [r \in Runs |-> "absent"]
  /\ pc = [w \in Workers |-> "idle"]
  /\ job = [w \in Workers |-> NoToken]
  /\ expired = [w \in Workers |-> {}]
  /\ candidates = [w \in Workers |-> {}]
  /\ outcome = [w \in Workers |-> "NONE"]
  /\ hb = [w \in Workers |-> "off"]
  /\ crashes = 0

-----------------------------------------------------------------------------
\* What the repository's transactions have in common

\* INSERT INTO run_events ... ON CONFLICT (id) DO NOTHING: an event id names
\* the run, the attempt and the kind of event.
Inserted_ConflictOnAttempt(log, e) ==
  IF \E i \in DOMAIN log : log[i].attempt = e.attempt THEN log ELSE Append(log, e)
Inserted(log, e) ==
  IF \E i \in DOMAIN log : log[i] = e THEN log ELSE Append(log, e)

\* SET status=..., lease_expires_at=NULL, version=version + 1
Closed(a, status) ==
  [status |-> status, worker |-> a.worker, lease |-> 0, version |-> a.version + 1]

\* SET lease_expires_at=...
Leased(a, lease) ==
  [status |-> a.status, worker |-> a.worker, lease |-> lease, version |-> a.version]

\* UPDATE runs SET status=..., next_retry_at=...
Moved(row, status, wait) ==
  [status |-> status, current_attempt |-> row.current_attempt,
   retry_count |-> row.retry_count, retry_wait |-> wait]

\* The WHERE clause of every fenced update: the attempt is RUNNING, held by
\* this worker and still at the version that the worker's claim produced.
Fenced_NoVersion(t, worker) ==
  /\ attempt[t.run][t.number].status = "RUNNING"
  /\ attempt[t.run][t.number].worker = worker
Fenced(t, worker) ==
  /\ attempt[t.run][t.number].status = "RUNNING"
  /\ attempt[t.run][t.number].worker = worker
  /\ attempt[t.run][t.number].version = t.version

\* UPDATE submission_outbox SET published_at=COALESCE(published_at, now)
Publish_Forgotten(r) == UNCHANGED outbox
Publish(r) ==
  outbox' = [outbox EXCEPT ![r] = IF @ = "absent" THEN @ ELSE "published"]

\* The retry delays _next_attempt may draw for the attempt after the n-th:
\* RetryDelay doubled per attempt, plus a jitter unless the delay is 0.
Backoff(n) ==
  {d \in 0..MaxBackoff :
     /\ d >= RetryDelay * 2^(n - 1)
     /\ d <= RetryDelay * 2^(n - 1) + (IF RetryDelay = 0 THEN 0 ELSE RetryJitter)}

\* can_retry
CanRetry_OffByOne(n) == n <= MaxAttempts
CanRetry(n) == n < MaxAttempts

\* transition_failed_attempt on an attempt its fence has found: a cancelled
\* run cancels it; with attempts left the run is queued again behind a new
\* RETRYABLE attempt; on the last attempt the run fails for good.
TransitionFailed(r, n) ==
  \/ /\ run[r].status = "CANCELLED"
     /\ attempt' = [attempt EXCEPT ![r][n] = Closed(@, "CANCELLED")]
     /\ UNCHANGED <<run, events, outbox>>
  \/ /\ run[r].status # "CANCELLED"
     /\ ~ CanRetry(n)
     /\ attempt' = [attempt EXCEPT ![r][n] = Closed(@, "FAILED")]
     /\ run' = IF run[r].status \in OpenStatus
               THEN [run EXCEPT ![r] = Moved(@, "FAILED", 0)]
               ELSE run
     /\ events' = [events EXCEPT
                     ![r] = Inserted(@, [type |-> "run.failed", attempt |-> n])]
     /\ Publish(r)
  \/ /\ run[r].status # "CANCELLED"
     /\ CanRetry(n)
     /\ attempt' = [attempt EXCEPT
                      ![r][n] = Closed(@, "FAILED"),
                      ![r][n + 1] = IF @.status = "NONE" THEN NewAttempt ELSE @]
     /\ \E delay \in Backoff(n) :
          run' = IF run[r].status \in OpenStatus
                 THEN [run EXCEPT ![r] =
                         [status |-> "QUEUED", current_attempt |-> n + 1,
                          retry_count |-> IF @.retry_count + 1 <= MaxAttempts - 1
                                          THEN @.retry_count + 1
                                          ELSE MaxAttempts - 1,
                          retry_wait |-> delay]]
                 ELSE run
     /\ UNCHANGED <<events, outbox>>

-----------------------------------------------------------------------------
\* The API process: submit_message and cancel_run

\* The transaction of submit_message: the run, its first attempt and its
\* outbox row exist together or not at all.
Submit(r) ==
  /\ run[r].status = "NONE"
  /\ run' = [run EXCEPT ![r] = [status |-> "QUEUED", current_attempt |-> 1,
                                 retry_count |-> 0, retry_wait |-> 0]]
  /\ attempt' = [attempt EXCEPT ![r][1] = NewAttempt]
  /\ outbox' = [outbox EXCEPT ![r] = "pending"]
  /\ UNCHANGED <<events, workerVars, crashes>>

\* The request marks the outbox row once enqueue (a no-op of the polling
\* queue) has returned; when it raises, or the process dies, the row stays
\* pending.  In between it emits run.queued, which no property is about.
MarkOutboxPublished(r) ==
  /\ outbox[r] = "pending"
  /\ Publish(r)
  /\ UNCHANGED <<run, attempt, events, workerVars, crashes>>

\* WHERE status NOT IN ('COMPLETED', 'FAILED', 'CANCELLED')
NotOver_Dropped(r) == run[r].status # "NONE"
NotOver(r) == run[r].status \in OpenStatus

\* WHERE status IN ('RUNNING', 'RETRYABLE')
StillLive_RunningOnly(a) == a.status = "RUNNING"
StillLive(a) == a.status \in LiveStatus

\* PostgresRunRepository.cancel: the run, its open attempts, the terminal
\* event and the outbox row in one transaction; a terminal run is refused.
Cancel(r) ==
  /\ NotOver(r)
  /\ run' = [run EXCEPT ![r] = Moved(@, "CANCELLED", @.retry_wait)]
  /\ attempt' = [attempt EXCEPT
                   ![r] = [n \in AttemptNumber |->
                             IF StillLive(@[n])
                             THEN Closed(@[n], "CANCELLED") ELSE @[n]]]
  /\ events' = [events EXCEPT
                  ![r] = Inserted(@, [type |-> "run.cancelled", attempt |-> 0])]
  /\ Publish(r)
  /\ UNCHANGED <<workerVars, crashes>>

-----------------------------------------------------------------------------
\* RunRecoveryWorker.run_once: scan, recover, claim

\* list_recoverable: rows of open runs whose backoff has passed.
Recoverable_QueuedOnly(r) == run[r].status = "QUEUED" /\ run[r].retry_wait = 0
Recoverable(r) == run[r].status \in OpenStatus /\ run[r].retry_wait = 0
ExpiredAttempts ==
  {t \in [run: Runs, number: AttemptNumber,
          version: {attempt[r][n].version : r \in Runs, n \in AttemptNumber}] :
     /\ Recoverable(t.run)
     /\ attempt[t.run][t.number].status = "RUNNING"
     /\ attempt[t.run][t.number].lease = 0
     /\ attempt[t.run][t.number].version = t.version}
RetryableRuns ==
  {r \in Runs : /\ Recoverable(r)
                /\ \E n \in AttemptNumber : attempt[r][n].status = "RETRYABLE"}

\* recover_expired reads its list of expired attempts.
RecoverScan(w) ==
  /\ pc[w] = "idle"
  /\ expired' = [expired EXCEPT ![w] = ExpiredAttempts]
  /\ pc' = [pc EXCEPT ![w] = "recovering"]
  /\ UNCHANGED <<dbVars, job, candidates, outcome, hb, crashes>>

\* ... and fails each of them, unless it has moved on since the scan.
RecoverAttempt(w) ==
  /\ pc[w] = "recovering"
  /\ \E t \in expired[w] :
       /\ expired' = [expired EXCEPT ![w] = @ \ {t}]
       /\ IF /\ attempt[t.run][t.number].status = "RUNNING"
             /\ attempt[t.run][t.number].version = t.version
             /\ attempt[t.run][t.number].lease = 0
          THEN TransitionFailed(t.run, t.number)
          ELSE UNCHANGED dbVars
  /\ UNCHANGED <<pc, job, candidates, outcome, hb, crashes>>

\* run_once reads the list of candidates to claim.
ListCandidates(w) ==
  /\ pc[w] = "recovering"
  /\ expired[w] = {}
  /\ candidates' = [candidates EXCEPT ![w] = RetryableRuns]
  /\ pc' = [pc EXCEPT ![w] = "scanning"]
  /\ UNCHANGED <<dbVars, job, expired, outcome, hb, crashes>>

\* For each candidate: read the run, skip it when cancelled or backing off.
CheckRun(w) ==
  /\ pc[w] = "scanning"
  /\ \E r \in candidates[w] :
       /\ candidates' = [candidates EXCEPT ![w] = @ \ {r}]
       /\ IF run[r].status = "CANCELLED" \/ run[r].retry_wait > 0
          THEN UNCHANGED <<pc, job>>
          ELSE /\ pc' = [pc EXCEPT ![w] = "checked"]
               /\ job' = [job EXCEPT ![w] = [run |-> r, number |-> 0, version |-> 0]]
  /\ UNCHANGED <<dbVars, expired, outcome, hb, crashes>>

FinishScan(w) ==
  /\ pc[w] = "scanning"
  /\ candidates[w] = {}
  /\ pc' = [pc EXCEPT ![w] = "idle"]
  /\ UNCHANGED <<dbVars, job, expired, candidates, outcome, hb, crashes>>

\* The rows claim may take; it takes the one with the highest number, and
\* asks neither for the run's status nor for its backoff.
Claimable_Failed(r, n) ==
  \/ attempt[r][n].status \in {"RETRYABLE", "FAILED"}
  \/ attempt[r][n].status = "RUNNING" /\ attempt[r][n].lease = 0
Claimable(r, n) ==
  \/ attempt[r][n].status = "RETRYABLE"
  \/ attempt[r][n].status = "RUNNING" /\ attempt[r][n].lease = 0

Claim(w) ==
  LET r == job[w].run IN
  /\ pc[w] = "checked"
  /\ \/ \E n \in AttemptNumber :
          /\ Claimable(r, n)
          /\ \A m \in AttemptNumber : Claimable(r, m) => m <= n
          /\ attempt' = [attempt EXCEPT
                           ![r][n] = [status |-> "RUNNING", worker |-> WorkerId[w],
                                      lease |-> LeaseS, version |-> @.version + 1]]
          /\ job' = [job EXCEPT ![w] = [run |-> r, number |-> n,
                                        version |-> attempt[r][n].version + 1]]
          /\ pc' = [pc EXCEPT ![w] = "claimed"]
          /\ hb' = [hb EXCEPT ![w] = "on"]
     \/ /\ ~ \E n \in AttemptNumber : Claimable(r, n)
        /\ job' = [job EXCEPT ![w] = NoToken]
        /\ pc' = [pc EXCEPT ![w] = "scanning"]
        /\ UNCHANGED <<attempt, hb>>
  /\ UNCHANGED <<run, events, outbox, expired, candidates, outcome, crashes>>

-----------------------------------------------------------------------------
\* The heartbeat task of RunRecoveryWorker._heartbeat

\* repository.heartbeat extends a lease that has not expired; when the row
\* has moved on, the task raises "run attempt lease was lost".
Heartbeat(w) ==
  LET t == job[w] IN
  /\ pc[w] \in ExecutePC
  /\ hb[w] = "on"
  /\ IF Fenced(t, WorkerId[w]) /\ attempt[t.run][t.number].lease > 0
     THEN /\ attempt' = [attempt EXCEPT ![t.run][t.number] = Leased(@, LeaseS)]
          /\ UNCHANGED hb
     ELSE /\ hb' = [hb EXCEPT ![w] = "lost"]
          /\ UNCHANGED attempt
  /\ UNCHANGED <<run, events, outbox, pc, job, expired, candidates,
                 outcome, crashes>>

-----------------------------------------------------------------------------
\* The executor, as far as it touches the queue

Goto(w, label) == pc' = [pc EXCEPT ![w] = label]

\* _execute_submission first asks whether the run, or its mission, has been
\* cancelled; the mission's cancellation flag may be raised at any time.
ExecBegin(w) ==
  /\ pc[w] = "claimed"
  /\ \/ /\ outcome' = [outcome EXCEPT ![w] = "CANCELLED"]
        /\ Goto(w, "returned")
     \/ /\ run[job[w].run].status # "CANCELLED"
        /\ Goto(w, "starting")
        /\ UNCHANGED outcome
  /\ UNCHANGED <<dbVars, job, expired, candidates, hb, crashes>>

\* compare_and_set_status(run, {QUEUED}, RUNNING)
Startable_NotRunning(r) == run[r].status # "RUNNING"
Startable(r) == run[r].status = "QUEUED"

ExecEnterRunning(w) ==
  LET r == job[w].run IN
  /\ pc[w] = "starting"
  /\ IF Startable(r)
     THEN /\ run' = [run EXCEPT ![r] = Moved(@, "RUNNING", @.retry_wait)]
          /\ Goto(w, "emitting")
     ELSE /\ Goto(w, "refused")
          /\ UNCHANGED run
  /\ UNCHANGED <<attempt, events, outbox, job, expired, candidates, outcome,
                 hb, crashes>>

\* Refused: a cancelled run is reported as such, anything else raises.
ExecRefused(w) ==
  /\ pc[w] = "refused"
  /\ IF run[job[w].run].status = "CANCELLED"
     THEN /\ outcome' = [outcome EXCEPT ![w] = "CANCELLED"]
          /\ Goto(w, "returned")
     ELSE /\ Goto(w, "failing")
          /\ UNCHANGED outcome
  /\ UNCHANGED <<dbVars, job, expired, candidates, hb, crashes>>

\* The run.started event is a transaction of its own.
ExecEmitStarted_Dropped(w) ==
  /\ pc[w] = "emitting"
  /\ Goto(w, "executing")
  /\ UNCHANGED <<dbVars, job, expired, candidates, outcome, hb, crashes>>
ExecEmitStarted(w) ==
  LET t == job[w] IN
  /\ pc[w] = "emitting"
  /\ events' = [events EXCEPT ![t.run] =
                  Inserted(@, [type |-> "run.started", attempt |-> t.number])]
  /\ Goto(w, "executing")
  /\ UNCHANGED <<run, attempt, outbox, job, expired, candidates, outcome, hb,
                 crashes>>

\* The mission ends, in any way; a run seen CANCELLED overrides its status.
ExecReturn(w, result) ==
  /\ pc[w] = "executing"
  /\ outcome' = [outcome EXCEPT ![w] =
                   IF run[job[w].run].status = "CANCELLED" THEN "CANCELLED"
                   ELSE result]
  /\ Goto(w, "returned")
  /\ UNCHANGED <<dbVars, job, expired, candidates, hb, crashes>>

\* ... or the executor raises.
ExecRaise(w) ==
  /\ pc[w] \in {"claimed", "executing"}
  /\ Goto(w, "failing")
  /\ UNCHANGED <<dbVars, job, expired, candidates, outcome, hb, crashes>>

-----------------------------------------------------------------------------
\* RunRecoveryWorker._execute

\* The heartbeat task finished first (or with the executor): its exception
\* is raised and the executor is cancelled.
LeaseLost(w) ==
  /\ pc[w] \in {"executing", "returned"}
  /\ hb[w] = "lost"
  /\ Goto(w, "failing")
  /\ UNCHANGED <<dbVars, job, expired, candidates, outcome, hb, crashes>>

\* A retryable failure is raised; otherwise the run is read once more.
ResolveOutcome(w) ==
  /\ pc[w] = "returned"
  /\ IF outcome[w] = "RETRY"
     THEN /\ Goto(w, "failing")
          /\ UNCHANGED outcome
     ELSE /\ Goto(w, "finalizing")
          /\ outcome' = [outcome EXCEPT ![w] =
                           IF run[job[w].run].status = "CANCELLED"
                           THEN "CANCELLED" ELSE @]
  /\ UNCHANGED <<dbVars, job, expired, candidates, hb, crashes>>

TerminalEventType(status) ==
  IF status = "COMPLETED" THEN "run.completed"
  ELSE IF status = "CANCELLED" THEN "run.cancelled" ELSE "run.failed"

\* finalize_attempt commits attempt, run, terminal event and outbox in one
\* transaction, if the fence still holds and the run is not yet over.
FinalizeCommit(w) ==
  LET t == job[w]
      r == t.run
      final == IF run[r].status = "CANCELLED" THEN "CANCELLED" ELSE outcome[w]
      terminal == [type |-> TerminalEventType(final), attempt |-> t.number]
      cancelledAlready == \E i \in DOMAIN events[r] :
                             events[r][i].type = "run.cancelled"
  IN
  /\ pc[w] = "finalizing"
  /\ Fenced(t, WorkerId[w])
  /\ run[r].status \notin {"COMPLETED", "FAILED"}
  /\ attempt' = [attempt EXCEPT ![r][t.number] = Closed(@, final)]
  /\ run' = [run EXCEPT ![r] = Moved(@, final, 0)]
  /\ events' = IF final = "CANCELLED" /\ cancelledAlready THEN events
               ELSE [events EXCEPT ![r] = Inserted(@, terminal)]
  /\ Publish(r)
  /\ Goto(w, "ending")
  /\ UNCHANGED <<job, expired, candidates, outcome, hb, crashes>>

\* The fence refuses, or the transaction is aborted (cancel locks the run
\* before its attempts, finalize_attempt the attempt before its run).
FinalizeRefused(w) ==
  /\ pc[w] = "finalizing"
  /\ Goto(w, "failing")
  /\ UNCHANGED <<dbVars, job, expired, candidates, outcome, hb, crashes>>

\* The except branch of _execute: fail_attempt, fenced by worker and version.
FailAttempt(w) ==
  LET t == job[w] IN
  /\ pc[w] = "failing"
  /\ IF Fenced(t, WorkerId[w])
     THEN TransitionFailed(t.run, t.number)
     ELSE UNCHANGED dbVars
  /\ Goto(w, "ending")
  /\ UNCHANGED <<job, expired, candidates, outcome, hb, crashes>>

\* The finally branch awaits the heartbeat task: when that task has raised,
\* its exception leaves run_once and ends the worker process.
EndExecute(w) ==
  /\ pc[w] = "ending"
  /\ Goto(w, IF hb[w] = "lost" THEN "down" ELSE "scanning")
  /\ job' = [job EXCEPT ![w] = NoToken]
  /\ outcome' = [outcome EXCEPT ![w] = "NONE"]
  /\ hb' = [hb EXCEPT ![w] = "off"]
  /\ candidates' = IF hb[w] = "lost" THEN [candidates EXCEPT ![w] = {}]
                   ELSE candidates
  /\ UNCHANGED <<dbVars, expired, crashes>>

-----------------------------------------------------------------------------
\* The environment: crashes, restarts (docker-compose restart: unless-stopped)
\* and the clock

Crash(w) ==
  /\ pc[w] # "down"
  /\ crashes < MaxCrashes
  /\ crashes' = crashes + 1
  /\ Goto(w, "down")
  /\ job' = [job EXCEPT ![w] = NoToken]
  /\ expired' = [expired EXCEPT ![w] = {}]
  /\ candidates' = [candidates EXCEPT ![w] = {}]
  /\ outcome' = [outcome EXCEPT ![w] = "NONE"]
  /\ hb' = [hb EXCEPT ![w] = "off"]
  /\ UNCHANGED dbVars

Restart(w) ==
  /\ pc[w] = "down"
  /\ Goto(w, "idle")
  /\ UNCHANGED <<dbVars, job, expired, candidates, outcome, hb, crashes>>

Elapsed(timer) == IF timer > 0 THEN timer - 1 ELSE 0

Tick ==
  /\ \E r \in Runs : \/ run[r].retry_wait > 0
                     \/ \E n \in AttemptNumber : attempt[r][n].lease > 0
  /\ run' = [r \in Runs |->
               Moved(run[r], run[r].status, Elapsed(run[r].retry_wait))]
  /\ attempt' = [r \in Runs |-> [n \in AttemptNumber |->
                   Leased(attempt[r][n], Elapsed(attempt[r][n].lease))]]
  /\ UNCHANGED <<events, outbox, workerVars, crashes>>

-----------------------------------------------------------------------------
ApiStep(r) == Submit(r) \/ MarkOutboxPublished(r) \/ Cancel(r)

ScanStep(w) ==
  \/ RecoverScan(w) \/ RecoverAttempt(w) \/ ListCandidates(w)
  \/ CheckRun(w) \/ FinishScan(w) \/ Claim(w)

ExecutorStep(w) ==
  \/ ExecBegin(w) \/ ExecEnterRunning(w) \/ ExecRefused(w) \/ ExecEmitStarted(w)
  \/ \E result \in Outcome \ {"NONE"} : ExecReturn(w, result)
  \/ ExecRaise(w)

SettleStep(w) ==
  \/ LeaseLost(w) \/ ResolveOutcome(w) \/ FinalizeCommit(w) \/ FinalizeRefused(w)
  \/ FailAttempt(w) \/ EndExecute(w)

\* What the worker's own code does next.
WorkerStep(w) == ScanStep(w) \/ ExecutorStep(w) \/ SettleStep(w) \/ Restart(w)

Next ==
  \/ \E r \in Runs : ApiStep(r)
  \/ \E w \in Workers : WorkerStep(w) \/ Heartbeat(w) \/ Crash(w)
  \/ Tick

Spec == Init /\ [][Next]_vars

\* Workers keep running (their processes are restarted, their missions are
\* bounded by mission_timeout_s) and time passes; users, heartbeats and
\* crashes owe nothing.
Fairness == WF_vars(Tick) /\ \A w \in Workers : WF_vars(WorkerStep(w))
FairSpec == Spec /\ Fairness

-----------------------------------------------------------------------------
\* Safety

\* Run and attempt rows agree whatever the interleaving of workers, cancels
\* and recoveries: an open run has exactly one live attempt, its current one,
\* so it can neither be lost nor be run from two rows; every earlier attempt
\* has FAILED, no later one exists, and a run that is over ended the way its
\* last attempt did (finalize_attempt, transition_failed_attempt, cancel).
AttemptsMatchRun ==
  \A r \in Runs :
    LET cur == run[r].current_attempt IN
    /\ run[r].status = "NONE" <=> cur = 0
    /\ \A n \in AttemptNumber : n < cur => attempt[r][n].status = "FAILED"
    /\ \A n \in AttemptNumber : n > cur => attempt[r][n] = NoAttempt
    /\ run[r].status \in OpenStatus => attempt[r][cur].status \in LiveStatus
    /\ run[r].status \in TerminalStatus => attempt[r][cur].status = run[r].status
    /\ cur > 0 => run[r].retry_count = cur - 1

\* "emit a terminal conversation event only after the terminal
\* compare-and-set succeeds" (README): the log of a run holds a terminal
\* event exactly when the run is over, never two, and it tells the status the
\* run really ended with, for the attempt that ended it (0: the cancel API).
IsTerminal(e) == e.type \in TerminalType
EventsMatchRun ==
  \A r \in Runs :
    /\ run[r].status \in TerminalStatus =>
         \E i \in DOMAIN events[r] : IsTerminal(events[r][i])
    /\ \A i \in DOMAIN events[r] : IsTerminal(events[r][i]) =>
         /\ run[r].status \in TerminalStatus
         /\ events[r][i].type = TerminalEventType(run[r].status)
         /\ \/ events[r][i].attempt = run[r].current_attempt
            \/ events[r][i].attempt = 0 /\ run[r].status = "CANCELLED"
    /\ \A i, j \in DOMAIN events[r] :
         IsTerminal(events[r][i]) /\ IsTerminal(events[r][j]) => i = j

\* Fencing: of all the workers that ever claimed an attempt and are still
\* busy with it, at most one can pass a fence, even when they all run under
\* the same run_worker_id (docker-compose gives every replica the same one).
Owns(w) == pc[w] \in ExecutePC /\ Fenced(job[w], WorkerId[w])
SingleOwner ==
  \A v, w \in Workers :
    Owns(v) /\ Owns(w) /\ job[v].run = job[w].run => v = w

\* A settled run needs no dispatch: whatever ends a run also publishes its
\* outbox row, even when the submitting request died before doing so.
OutboxSettled ==
  \A r \in Runs : run[r].status \in TerminalStatus => outbox[r] = "published"

\* A run is only reported completed for an attempt whose start was reported
\* before: finalize_attempt cannot overtake the run.started event, and no
\* worker finishes an attempt that it, or the holder before it, did not start.
CompletedWasStarted ==
  \A r \in Runs : \A i \in DOMAIN events[r] :
    events[r][i].type = "run.completed" =>
      \E j \in 1..(i - 1) :
        events[r][j] = [type |-> "run.started", attempt |-> events[r][i].attempt]

\* A run that is over stays exactly as it ended: no late finalize, recovery,
\* retry or start revives it or changes how it ended.
TerminalForever ==
  [][\A r \in Runs :
       run[r].status \in TerminalStatus =>
         /\ run'[r].status = run[r].status
         /\ run'[r].current_attempt = run[r].current_attempt]_vars

\* An attempt that was closed is never claimed, extended or closed again, and
\* a fencing token is never reissued: versions only grow.
AttemptsOnlyAdvance ==
  [][\A r \in Runs, n \in AttemptNumber :
       /\ attempt[r][n].status \in TerminalStatus =>
            attempt'[r][n] = attempt[r][n]
       /\ attempt'[r][n].version >= attempt[r][n].version
       /\ attempt'[r][n].worker # attempt[r][n].worker =>
            attempt'[r][n].version > attempt[r][n].version]_vars

-----------------------------------------------------------------------------
\* Liveness

\* Every submitted run is eventually over, whichever workers crash, lose
\* their leases or exit on a lost heartbeat.
EventuallyOver ==
  \A r \in Runs :
    run[r].status \in OpenStatus ~> run[r].status \in TerminalStatus

-----------------------------------------------------------------------------
\* What a client of the queue sees: module RunLifecycle.

Shown(status) == IF status \in OpenStatus THEN "OPEN" ELSE status
Lifecycle == INSTANCE RunLifecycle WITH
  status <- [r \in Runs |-> Shown(run[r].status)],
  log <- [r \in Runs |-> {events[r][i].type : i \in
                            {j \in DOMAIN events[r] : IsTerminal(events[r][j])}}]
ImplementsLifecycle == Lifecycle!Spec

\* The four tables always tell one story of a run: its attempts, its event
\* log and its outbox row are what its own row says, whichever of cancel,
\* finalize, retry and recovery committed last.
RowsAgree ==
  /\ TypeOK
  /\ AttemptsMatchRun
  /\ EventsMatchRun
  /\ OutboxSettled
  /\ CompletedWasStarted

\* No step goes back: neither a run that is over nor an attempt that is
\* closed is written again, and no fencing token comes twice.
OnlyForward ==
  /\ TerminalForever
  /\ AttemptsOnlyAdvance
=============================================================================
