----------------------------- MODULE Transcript -----------------------------
(***************************************************************************)
(* The assistant's reply in the transcript, composed with the run queue.   *)
(* submit_message creates it as a pending "Working..." placeholder; after  *)
(* its mission _execute_submission replaces it by the answer or by a       *)
(* warning; cancel_run replaces a placeholder that is still pending.  None *)
(* of these writes is fenced: messages.update rewrites the row whoever     *)
(* calls it.                                                               *)
(*                                                                         *)
(* From the end of the mission's await to its return, _execute_submission  *)
(* runs on the event loop without yielding, so the worker's own code does  *)
(* nothing else meanwhile; other processes and a heartbeat thread do.  An  *)
(* exception after the reply is written has the effect of a crash there.   *)
(***************************************************************************)
EXTENDS RunQueue

CONSTANT ApiMayDie  \* whether the API process can be killed within cancel_run

ASSUME ApiAssumption == ApiMayDie \in BOOLEAN

VARIABLES
  reply,     \* per run: what the reply shows, and the attempt that wrote it
  writing,   \* per worker: the reply that its executor is about to write
  canceller  \* per run: how far the request that cancelled it has come

transcriptVars == <<reply, writing, canceller>>
allVars == <<vars, transcriptVars>>

Shows == {"none", "pending", "answer", "warning"}
Reply == [shows: Shows, by: 0..MaxAttempts]
Pending == [shows |-> "pending", by |-> 0]

TranscriptTypeOK ==
  /\ TypeOK
  /\ reply \in [Runs -> Reply]
  /\ writing \in [Workers -> {"nothing", "answer", "warning"}]
  /\ canceller \in [Runs -> {"none", "committed", "replacing", "done", "died"}]

TranscriptInit ==
  /\ Init
  /\ reply = [r \in Runs |-> [shows |-> "none", by |-> 0]]
  /\ writing = [w \in Workers |-> "nothing"]
  /\ canceller = [r \in Runs |-> "none"]

-----------------------------------------------------------------------------
\* submit_message creates the placeholder in the transaction of the run.
SubmitWithReply(r) ==
  /\ Submit(r)
  /\ reply' = [reply EXCEPT ![r] = Pending]
  /\ UNCHANGED <<writing, canceller>>

-----------------------------------------------------------------------------
\* The reply that _execute_submission writes for a mission's outcome: a
\* completed mission's response is an answer; a failure that the worker will
\* retry leaves the placeholder alone; anything else is a warning.
ReplyFor_NoEmptyWarning(result, responded, n) ==
  IF result = "COMPLETED" THEN IF responded THEN "answer" ELSE "nothing"
  ELSE IF result = "RETRY" /\ CanRetry(n) THEN "nothing"
  ELSE "warning"
ReplyFor(result, responded, n) ==
  IF result = "COMPLETED" /\ responded THEN "answer"
  ELSE IF result = "RETRY" /\ CanRetry(n) THEN "nothing"
  ELSE "warning"

\* The mission has ended: the outcome is settled, and so is what to write.
MissionEnds(w, result, responded) ==
  /\ ExecReturn(w, result)
  /\ writing' = [writing EXCEPT
                   ![w] = ReplyFor(outcome'[w], responded, job[w].number)]
  /\ UNCHANGED <<reply, canceller>>

\* messages.update, before the executor returns; nothing asks whether the
\* attempt is still this worker's.
WriteReply_PlaceholderOnly(w) ==
  LET t == job[w] IN
  /\ writing[w] # "nothing"
  /\ reply' = IF reply[t.run].shows = "pending"
              THEN [reply EXCEPT ![t.run] = [shows |-> writing[w], by |-> t.number]]
              ELSE reply
  /\ writing' = [writing EXCEPT ![w] = "nothing"]
  /\ UNCHANGED <<vars, canceller>>
WriteReply(w) ==
  LET t == job[w] IN
  /\ writing[w] # "nothing"
  /\ reply' = [reply EXCEPT ![t.run] = [shows |-> writing[w], by |-> t.number]]
  /\ writing' = [writing EXCEPT ![w] = "nothing"]
  /\ UNCHANGED <<vars, canceller>>

\* The worker's other steps wait for the write.
OtherWorkerStep_NoWait(w) ==
  /\ \/ ScanStep(w) \/ SettleStep(w) \/ Restart(w)
     \/ ExecBegin(w) \/ ExecEnterRunning(w) \/ ExecRefused(w)
     \/ ExecEmitStarted(w) \/ ExecRaise(w)
  /\ UNCHANGED transcriptVars
OtherWorkerStep(w) ==
  /\ writing[w] = "nothing"
  /\ \/ ScanStep(w) \/ SettleStep(w) \/ Restart(w)
     \/ ExecBegin(w) \/ ExecEnterRunning(w) \/ ExecRefused(w)
     \/ ExecEmitStarted(w) \/ ExecRaise(w)
  /\ UNCHANGED transcriptVars

\* A crash may hit before or after the write.
CrashInReply(w) ==
  /\ Crash(w)
  /\ writing' = [writing EXCEPT ![w] = "nothing"]
  /\ UNCHANGED <<reply, canceller>>

-----------------------------------------------------------------------------
\* cancel_run: the queue's transaction first, then the placeholder.
CancelRun(r) ==
  /\ Cancel(r)
  /\ canceller' = [canceller EXCEPT ![r] = "committed"]
  /\ UNCHANGED <<reply, writing>>

\* _finalize_cancelled_placeholder reads the reply and leaves it alone unless
\* it is still the placeholder.
SeesPlaceholder_Answered(r) == reply[r].shows = "answer"
SeesPlaceholder(r) == reply[r].shows = "pending"
ReadPlaceholder(r) ==
  /\ canceller[r] = "committed"
  /\ canceller' = [canceller EXCEPT
                     ![r] = IF SeesPlaceholder(r) THEN "replacing" ELSE "done"]
  /\ UNCHANGED <<vars, reply, writing>>

\* ... and replaces it by "Run cancelled.", whatever it holds by now.
ReplacePlaceholder(r) ==
  /\ canceller[r] = "replacing"
  /\ reply' = [reply EXCEPT ![r] = [shows |-> "warning", by |-> 0]]
  /\ canceller' = [canceller EXCEPT ![r] = "done"]
  /\ UNCHANGED <<vars, writing>>

CancelRequestDies(r) ==
  /\ ApiMayDie
  /\ canceller[r] \in {"committed", "replacing"}
  /\ canceller' = [canceller EXCEPT ![r] = "died"]
  /\ UNCHANGED <<vars, reply, writing>>

-----------------------------------------------------------------------------
CancelRequest(r) == ReadPlaceholder(r) \/ ReplacePlaceholder(r)

TranscriptWorkerStep(w) ==
  \/ \E result \in Outcome \ {"NONE"}, responded \in BOOLEAN :
       MissionEnds(w, result, responded)
  \/ WriteReply(w)
  \/ OtherWorkerStep(w)

TranscriptNext ==
  \/ \E r \in Runs :
       \/ SubmitWithReply(r) \/ CancelRun(r)
       \/ CancelRequest(r) \/ CancelRequestDies(r)
       \/ MarkOutboxPublished(r) /\ UNCHANGED transcriptVars
  \/ \E w \in Workers :
       \/ TranscriptWorkerStep(w) \/ CrashInReply(w)
       \/ Heartbeat(w) /\ UNCHANGED transcriptVars
  \/ Tick /\ UNCHANGED transcriptVars

TranscriptSpec == TranscriptInit /\ [][TranscriptNext]_allVars

\* As in RunQueue, and a request that is being served goes on.
TranscriptFairSpec ==
  /\ TranscriptSpec
  /\ WF_allVars(Tick /\ UNCHANGED transcriptVars)
  /\ \A w \in Workers : WF_allVars(TranscriptWorkerStep(w))
  /\ \A r \in Runs : WF_allVars(CancelRequest(r))

-----------------------------------------------------------------------------
\* What holds whatever the workers do

\* A run is never COMPLETED behind a reply that still says "Working...":
\* whichever worker commits the completion, stale writers and cancels
\* included, a reply has been written before.
CompletedHasReply ==
  \A r \in Runs :
    run[r].status = "COMPLETED" => reply[r].shows \in {"answer", "warning"}

\* Once cancel_run has answered its client, the placeholder is gone, however
\* it raced with the worker that was writing the reply.
CancelledHasReply ==
  \A r \in Runs : canceller[r] = "done" => reply[r].shows \in {"answer", "warning"}

-----------------------------------------------------------------------------
\* What holds as long as no second worker can be busy with the run

\* The reply of a completed run is the one of the attempt that completed it,
\* not that of an attempt which died after writing it.
ReplyOfLastAttempt ==
  \A r \in Runs :
    run[r].status = "COMPLETED" => reply[r].by = run[r].current_attempt

\* A reply that a client reads after its run has ended is the last it will
\* see: nothing rewrites the reply of a completed or failed run.
FinishedReplyStable ==
  [][\A r \in Runs :
       run[r].status \in {"COMPLETED", "FAILED"} => reply'[r] = reply[r]]_allVars

-----------------------------------------------------------------------------
\* What the code's comments say and the code does not do

\* "Replace a still-pending "Working..." reply so a cancelled run never leaves
\* it dangling" (_finalize_cancelled_placeholder).
CancelledNeverDangles ==
  \A r \in Runs :
    run[r].status = "CANCELLED" ~> reply[r].shows # "pending"

\* "test_cancelling_never_overwrites_an_answered_reply": the cancel request
\* never replaces an answer.
CancelKeepsAnswer ==
  [][\A r \in Runs :
       reply[r].shows = "answer" /\ canceller'[r] # canceller[r] =>
         reply'[r] = reply[r]]_allVars

\* What the reader of the thread finds is the outcome of the run: no answer
\* is missing behind COMPLETED, and no placeholder stays behind a cancel
\* that has answered.
TranscriptInv ==
  /\ TranscriptTypeOK
  /\ CompletedHasReply
  /\ CancelledHasReply
=============================================================================
