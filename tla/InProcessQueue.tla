--------------------------- MODULE InProcessQueue ---------------------------
(***************************************************************************)
(* The development queue of recovery.py InProcessRunQueue: no worker polls *)
(* for ever; every submission starts one drive, a task that calls run_once *)
(* and repeats it while a retry is pending.  The members of Workers are    *)
(* the drives.  The repository lives in the memory of the same process, so *)
(* neither crashes nor restarts happen: a drive that ends is gone.         *)
(*                                                                         *)
(* A drive gives up after _MAX_IDLE_POLLS = 240 polls of 0.5 s; the longest*)
(* backoff (run_retry_delay_s = 5 doubled once, plus jitter) is far below  *)
(* these two minutes, and the bound is left out.  So is close(), which     *)
(* ends the drives when the application stops.                             *)
(***************************************************************************)
EXTENDS RunQueue

VARIABLES
  enqueued,  \* the runs whose submission has called enqueue
  drive      \* per drive: the state of its task

driveVars == <<enqueued, drive>>
processVars == <<vars, driveVars>>

DriveState == {"unused", "running", "asking", "ended", "died"}

InProcessTypeOK ==
  /\ TypeOK
  /\ enqueued \subseteq Runs
  /\ drive \in [Workers -> DriveState]

InProcessInit ==
  /\ Init
  /\ enqueued = {}
  /\ drive = [w \in Workers |-> "unused"]

\* enqueue creates the drive's task; the request then marks the outbox row.
Enqueue(r) ==
  /\ run[r].status # "NONE"
  /\ r \notin enqueued
  /\ \E w \in Workers :
       /\ drive[w] = "unused"
       /\ drive' = [drive EXCEPT ![w] = "running"]
  /\ enqueued' = enqueued \cup {r}
  /\ UNCHANGED vars

SubmissionStep(r) ==
  \/ Submit(r) /\ UNCHANGED driveVars
  \/ Cancel(r) /\ UNCHANGED driveVars
  \/ r \in enqueued /\ MarkOutboxPublished(r) /\ UNCHANGED driveVars

\* run_once, up to its last candidate; an exception that leaves it ends the
\* drive (_finished only logs it).
RunOnceStep(w) ==
  /\ drive[w] = "running"
  /\ \/ /\ \/ RecoverScan(w) \/ RecoverAttempt(w) \/ ListCandidates(w)
           \/ CheckRun(w) \/ Claim(w) \/ ExecutorStep(w)
           \/ LeaseLost(w) \/ ResolveOutcome(w) \/ FinalizeCommit(w)
           \/ FinalizeRefused(w) \/ FailAttempt(w)
        /\ UNCHANGED drive
     \/ /\ EndExecute(w)
        /\ drive' = IF hb[w] = "lost" THEN [drive EXCEPT ![w] = "died"] ELSE drive
     \/ /\ FinishScan(w)
        /\ drive' = [drive EXCEPT ![w] = "asking"]
  /\ UNCHANGED enqueued

\* has_pending_retries looks past every backoff.
HasPendingRetries_Due == RetryableRuns # {}
HasPendingRetries ==
  \E r \in Runs, n \in AttemptNumber :
    run[r].status \in OpenStatus /\ attempt[r][n].status = "RETRYABLE"

\* _drive polls again, or returns.
AskPending(w) ==
  /\ drive[w] = "asking"
  /\ drive' = [drive EXCEPT ![w] = IF HasPendingRetries THEN "running" ELSE "ended"]
  /\ UNCHANGED <<vars, enqueued>>

DriveStep(w) == RunOnceStep(w) \/ AskPending(w)

\* Nothing is left to do: every drive is gone.
AllSettled ==
  /\ enqueued = Runs
  /\ \A r \in Runs : outbox[r] = "published"
  /\ \A w \in Workers : drive[w] \in {"ended", "died"}

InProcessNext ==
  \/ \E r \in Runs : Enqueue(r) \/ SubmissionStep(r)
  \/ \E w \in Workers :
       \/ DriveStep(w)
       \/ Heartbeat(w) /\ UNCHANGED driveVars
  \/ Tick /\ UNCHANGED driveVars
  \/ AllSettled /\ UNCHANGED processVars

InProcessSpec == InProcessInit /\ [][InProcessNext]_processVars

\* The event loop runs every task that is ready; missions end within
\* mission_timeout_s.
InProcessFairSpec ==
  /\ InProcessSpec
  /\ WF_processVars(Tick /\ UNCHANGED driveVars)
  /\ \A w \in Workers : WF_processVars(DriveStep(w))
  /\ \A r \in Runs : WF_processVars(Enqueue(r))

-----------------------------------------------------------------------------
\* No drive leaves work behind that nobody else will do: when every drive has
\* ended by itself, every run is over, though a drive ends without looking at
\* the runs that other drives are executing.
NoRetryLeftBehind ==
  /\ \A r \in Runs : run[r].status # "NONE" => r \in enqueued
  /\ \A w \in Workers : drive[w] \in {"unused", "ended"}
  => \A r \in Runs : run[r].status \notin OpenStatus

\* "keep draining until no retry is pending so the run reaches a terminal
\* state instead of hanging in RETRYABLE" (InProcessRunQueue._drive).
DrivenToTheEnd ==
  \A r \in Runs : run[r].status \in OpenStatus ~> run[r].status \in TerminalStatus

\* The drives end only when no retry is left for them (InProcessRunQueue).
InProcessInv ==
  /\ InProcessTypeOK
  /\ NoRetryLeftBehind
=============================================================================
