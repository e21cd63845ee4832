-------------------------- MODULE TranscriptProofs --------------------------
(***************************************************************************)
(* Machine-checked proofs about the reply in the transcript: with any      *)
(* number of workers on the queue, what a reader finds behind a run that   *)
(* has ended; and, with one worker deployed, that it is the last attempt's *)
(* and final.                                                              *)
(*                                                                         *)
(* Every step of the transcript is a step of the queue beneath it, so the  *)
(* queue's invariant (RunQueueProofs) holds throughout.  Of a worker's     *)
(* step the reply asks little: which worker it moves, which runs it ends   *)
(* and where the worker was before.  Summary says that much, once for all  *)
(* the steps that the transcript does not look into.                       *)
(***************************************************************************)
EXTENDS RunQueueProofs, MCTranscript

\* What a step of a worker may not do to a run: complete it without
\* finalizing it, or submit it.
Kept(r) ==
  /\ run'[r].status = "COMPLETED" => run[r].status = "COMPLETED"
  /\ run[r].status = "NONE" => run'[r].status = "NONE"

\* A new row for an open run that is not a completed one.
LEMMA RowKept ==
  ASSUME DbType, NEW q \in Runs, run[q].status \in OpenStatus,
         NEW row, row.status # "COMPLETED", run' = [run EXCEPT ![q] = row],
         NEW r \in Runs
  PROVE  Kept(r)
BY DEF DbType, Kept, OpenStatus

\* transition_failed_attempt completes nothing.
LEMMA FailKeeps ==
  ASSUME DbType, NEW q \in Runs, NEW n, TransitionFailed(q, n), NEW r \in Runs
  PROVE  Kept(r)
<1>1. CASE run' = run
  BY <1>1 DEF Kept
<1>2. CASE run[q].status \in OpenStatus /\ run' = [run EXCEPT ![q] = Moved(@, "FAILED", 0)]
  <2> DEFINE row == Moved(run[q], "FAILED", 0)
  <2>1. row.status # "COMPLETED"
    BY DEF Moved
  <2>2. run' = [run EXCEPT ![q] = row]
    BY <1>2
  <2> HIDE DEF row
  <2> QED BY <1>2, <2>1, <2>2, RowKept
<1>3. CASE run[q].status \in OpenStatus /\ \E c, d :
        run' = [run EXCEPT ![q] = [status |-> "QUEUED", current_attempt |-> n + 1,
                                   retry_count |-> c, retry_wait |-> d]]
  <2>1. PICK c, d :
        run' = [run EXCEPT ![q] = [status |-> "QUEUED", current_attempt |-> n + 1,
                                   retry_count |-> c, retry_wait |-> d]]
    BY <1>3
  <2> DEFINE row == [status |-> "QUEUED", current_attempt |-> n + 1,
                     retry_count |-> c, retry_wait |-> d]
  <2>2. row.status # "COMPLETED" /\ run' = [run EXCEPT ![q] = row]
    BY <2>1
  <2> HIDE DEF row
  <2> QED BY <1>3, <2>2, RowKept
<1>4. \/ run' = run
      \/ run[q].status \in OpenStatus /\ run' = [run EXCEPT ![q] = Moved(@, "FAILED", 0)]
      \/ run[q].status \in OpenStatus /\ \E c, d :
           run' = [run EXCEPT ![q] = [status |-> "QUEUED", current_attempt |-> n + 1,
                                      retry_count |-> c, retry_wait |-> d]]
  <2>1. CASE UNCHANGED <<run, events, outbox>>
    BY <2>1
  <2>2. CASE run' = IF run[q].status \in OpenStatus
             THEN [run EXCEPT ![q] = Moved(@, "FAILED", 0)]
             ELSE run
    BY <2>2
  <2>3. CASE \E delay \in Backoff(n) :
        run' = IF run[q].status \in OpenStatus
               THEN [run EXCEPT ![q] =
                       [status |-> "QUEUED", current_attempt |-> n + 1,
                        retry_count |-> IF @.retry_count + 1 <= MaxAttempts - 1
                                        THEN @.retry_count + 1
                                        ELSE MaxAttempts - 1,
                        retry_wait |-> delay]]
               ELSE run
    <3> DEFINE c == IF run[q].retry_count + 1 <= MaxAttempts - 1
                    THEN run[q].retry_count + 1 ELSE MaxAttempts - 1
    <3>1. PICK delay \in Backoff(n) :
        run' = IF run[q].status \in OpenStatus
               THEN [run EXCEPT ![q] =
                       [status |-> "QUEUED", current_attempt |-> n + 1,
                        retry_count |-> c, retry_wait |-> delay]]
               ELSE run
      BY <2>3
    <3> HIDE DEF c
    <3> QED BY <3>1
  <2> QED BY <2>1, <2>2, <2>3 DEF TransitionFailed
<1> QED BY <1>1, <1>2, <1>3, <1>4

-----------------------------------------------------------------------------
\* What a worker about to report an outcome has written before: label is where
\* it is, t its attempt, result its outcome, what the reply that it has still to
\* write, among the runs rn and the replies rp.
Answered(p) == p.shows \in {"answer", "warning"}
WriterInv(label, t, result, what, rn, rp) ==
  /\ what # "nothing" => label = "returned"
  /\ label \in ExecutePC => rn[t.run].status # "NONE"
  /\ (label \in {"returned", "finalizing"} /\ result = "COMPLETED") =>
       (what # "nothing" \/ Answered(rp[t.run]))
RunReply(rr, p, c) ==
  /\ rr.status # "NONE" => p.shows # "none"
  /\ rr.status = "COMPLETED" => Answered(p)
  /\ c # "none" => rr.status = "CANCELLED"
  /\ c = "done" => Answered(p)

ReplyTypes ==
  /\ reply \in [Runs -> Reply]
  /\ writing \in [Workers -> {"nothing", "answer", "warning"}]
  /\ canceller \in [Runs -> {"none", "committed", "replacing", "done", "died"}]
TranscriptIInv ==
  /\ ReplyTypes
  /\ \A w \in Workers : WriterInv(pc[w], job[w], outcome[w], writing[w], run, reply)
  /\ \A r \in Runs : RunReply(run[r], reply[r], canceller[r])

\* With one worker, until that worker settles its attempt the run has not
\* ended, except by a cancel, and once the reply is written it is its own.
Active == {"claimed", "starting", "refused", "emitting", "executing", "returned",
           "finalizing"}
Ended == {"COMPLETED", "FAILED"}
LoneWriter(label, t, result, what, rn, rp) ==
  /\ label \in Active => rn[t.run].status \notin Ended
  /\ (label \in {"returned", "finalizing"} /\ result = "COMPLETED" /\ what = "nothing") =>
       (rn[t.run].status = "CANCELLED" \/ rp[t.run].by = t.number)
LoneInv ==
  /\ \A w \in Workers : LoneWriter(pc[w], job[w], outcome[w], writing[w], run, reply)
  /\ \A r \in Runs : run[r].status = "COMPLETED" => reply[r].by = run[r].current_attempt

\* What a step of worker w leaves of everybody else, and where it may bring w.
Summary(w) ==
  /\ \A v \in Workers : v # w => pc'[v] = pc[v] /\ job'[v] = job[v] /\ outcome'[v] = outcome[v]
  /\ pc'[w] \in ExecutePC =>
       \/ /\ pc[w] \in ExecutePC /\ job'[w] = job[w]
          /\ pc'[w] \in Active => pc[w] \in Active
       \/ /\ pc'[w] = "claimed" /\ run' = run /\ job'[w].run \in Runs
          /\ run[job'[w].run].status \in OpenStatus
  /\ pc'[w] \in {"returned", "finalizing"} =>
       \/ outcome'[w] = "CANCELLED"
       \/ pc[w] = "returned" /\ outcome'[w] = outcome[w] /\ job'[w] = job[w] /\ run' = run
  /\ \A r \in Runs : run[r].status = "NONE" => run'[r].status = "NONE"
  /\ \A r \in Runs : run'[r].status = "COMPLETED" /\ run[r].status # "COMPLETED" =>
       /\ pc[w] = "finalizing" /\ r = job[w].run /\ outcome[w] = "COMPLETED"
       /\ run[r].status # "CANCELLED" /\ run'[r].current_attempt = job[w].number
  /\ pc'[w] \in Active =>
       \A r \in Runs : run'[r].status \in Ended => run'[r].status = run[r].status
  /\ pc[w] = "idle" => run' = run

\* The step changes nothing but w's place, outcome and what no property reads.
LEMMA MovesOnly ==
  ASSUME WorkerType, NEW w \in Workers, NEW label \in PC, NEW result,
         pc' = [pc EXCEPT ![w] = label], outcome' = [outcome EXCEPT ![w] = result],
         run' = run, job' = job,
         label \in ExecutePC => pc[w] \in ExecutePC,
         label \in Active => pc[w] \in Active,
         label \in {"returned", "finalizing"} =>
           result = "CANCELLED" \/ (pc[w] = "returned" /\ result = outcome[w])
  PROVE  Summary(w)
<1>1. pc'[w] = label /\ outcome'[w] = result
  BY DEF WorkerType
<1>2. \A v \in Workers : v # w => pc'[v] = pc[v] /\ outcome'[v] = outcome[v]
  BY DEF WorkerType
<1> QED BY <1>1, <1>2 DEF Summary

\* A step away from the executor that leaves the runs alone.
LEMMA MovesAway ==
  ASSUME WorkerType, NEW w \in Workers, NEW label \in PC \ ExecutePC,
         pc' = [pc EXCEPT ![w] = label], run' = run,
         \A v \in Workers : v # w => job'[v] = job[v] /\ outcome'[v] = outcome[v]
  PROVE  Summary(w)
<1>1. pc'[w] = label
  BY DEF WorkerType
<1>2. \A v \in Workers : v # w => pc'[v] = pc[v]
  BY DEF WorkerType
<1>3. label \notin Active /\ label \notin {"returned", "finalizing"}
  BY DEF Active, ExecutePC
<1> QED BY <1>1, <1>2, <1>3 DEF Summary

\* Recovering, scanning and claiming.
LEMMA ScanSettles ==
  ASSUME IInv, NEW w \in Workers, ScanStep(w)
  PROVE  Summary(w)
<1>1. WorkerType /\ DbInv
  BY DEF IInv, WorkerInv
<1>2. ASSUME NEW label \in ScanPC \cup {"checked"} PROVE label \in PC \ ExecutePC
  BY <1>2 DEF PC, ScanPC, ExecutePC
<1>3. CASE RecoverScan(w)
  BY <1>1, <1>2, <1>3, MovesAway DEF RecoverScan, dbVars, ScanPC
<1>4. CASE ListCandidates(w)
  BY <1>1, <1>2, <1>4, MovesAway DEF ListCandidates, dbVars, ScanPC
<1>5. CASE FinishScan(w)
  BY <1>1, <1>2, <1>5, MovesAway DEF FinishScan, dbVars, ScanPC
<1>6. CASE CheckRun(w)
  <2>1. CASE UNCHANGED <<pc, job>>
    <3>1. pc[w] = "scanning" /\ run' = run /\ pc' = pc /\ job' = job /\ outcome' = outcome
      BY <1>6, <2>1 DEF CheckRun, dbVars
    <3> QED BY <3>1 DEF Summary, ExecutePC, Active
  <2>2. CASE ~UNCHANGED <<pc, job>>
    <3>1. PICK r \in candidates[w] :
            /\ pc' = [pc EXCEPT ![w] = "checked"]
            /\ job' = [job EXCEPT ![w] = [run |-> r, number |-> 0, version |-> 0]]
      BY <1>6, <2>2 DEF CheckRun
    <3>2. run' = run /\ outcome' = outcome
      BY <1>6 DEF CheckRun, dbVars
    <3> QED BY <1>1, <1>2, <3>1, <3>2, MovesAway DEF WorkerType
  <2> QED BY <2>1, <2>2
<1>7. CASE RecoverAttempt(w)
  <2>1. pc[w] = "recovering" /\ UNCHANGED <<pc, job, outcome>>
    BY <1>7 DEF RecoverAttempt
  <2>2. PICK t \in expired[w] : run' = run \/ TransitionFailed(t.run, t.number)
    BY <1>7 DEF RecoverAttempt, dbVars
  <2>3. t.run \in Runs /\ DbType
    BY <1>1 DEF WorkerType, Token, DbInv
  <2>4. \A r \in Runs : Kept(r)
    BY <2>2, <2>3, FailKeeps DEF Kept
  <2> QED BY <2>1, <2>4 DEF Summary, Kept, ExecutePC, Active
<1>8. CASE Claim(w)
  <2>1. run' = run /\ outcome' = outcome /\ pc[w] = "checked"
    BY <1>8 DEF Claim
  <2>2. job[w].run \in Runs
    BY <2>1 DEF IInv, WorkerInv, TokensMatch
  <2>3. CASE job' = [job EXCEPT ![w] = NoToken] /\ pc' = [pc EXCEPT ![w] = "scanning"]
    BY <1>1, <1>2, <2>1, <2>3, MovesAway DEF WorkerType, ScanPC
  <2>4. CASE ~(job' = [job EXCEPT ![w] = NoToken] /\ pc' = [pc EXCEPT ![w] = "scanning"])
    <3>1. PICK n \in AttemptNumber :
            /\ Claimable(job[w].run, n)
            /\ job' = [job EXCEPT ![w] = [run |-> job[w].run, number |-> n,
                                          version |-> attempt[job[w].run][n].version + 1]]
            /\ pc' = [pc EXCEPT ![w] = "claimed"]
      BY <1>8, <2>4 DEF Claim
    <3>2. attempt[job[w].run][n].status \in LiveStatus
      BY <3>1 DEF Claimable, LiveStatus
    <3>3. AttemptsRow(run[job[w].run], attempt[job[w].run]) /\ run[job[w].run] \in RunRow
      BY <1>1, <2>2 DEF DbInv, RowInv, DbType
    <3>4. run[job[w].run].status \in OpenStatus
      BY <3>2, <3>3 DEF AttemptsRow, LiveStatus, OpenStatus, TerminalStatus, RunRow, RunStatus,
                        NoAttempt, AttemptNumber
    <3>5. pc'[w] = "claimed" /\ job'[w].run = job[w].run
      BY <1>1, <3>1 DEF WorkerType
    <3>6. \A v \in Workers : v # w => pc'[v] = pc[v] /\ job'[v] = job[v]
      BY <1>1, <3>1 DEF WorkerType
    <3> QED BY <2>1, <2>2, <3>4, <3>5, <3>6 DEF Summary
  <2> QED BY <2>3, <2>4
<1> QED BY <1>3, <1>4, <1>5, <1>6, <1>7, <1>8 DEF ScanStep

\* A move of the executor that may also touch its own run row, without ending it.
LEMMA MovesOpenRun ==
  ASSUME WorkerType, DbType, NEW w \in Workers, NEW label \in PC,
         pc' = [pc EXCEPT ![w] = label], outcome' = outcome, job' = job,
         NEW q \in Runs, run[q].status \in OpenStatus,
         NEW row, row.status = "RUNNING",
         run' = [run EXCEPT ![q] = row],
         pc[w] \in ExecutePC \cap Active, label \notin {"returned", "finalizing"}
  PROVE  Summary(w)
<1>1. pc'[w] = label /\ \A v \in Workers : v # w => pc'[v] = pc[v]
  BY DEF WorkerType
<1>2. \A r \in Runs : run'[r].status \in Ended \cup {"COMPLETED"} => run'[r] = run[r]
  BY DEF DbType, Ended
<1>3. pc[w] # "idle"
  BY DEF ExecutePC
<1>4. \A r \in Runs : run[r].status = "NONE" => run'[r].status = "NONE"
  BY DEF DbType, OpenStatus
<1> QED BY <1>1, <1>2, <1>3, <1>4 DEF Summary

\* The executor's steps before its mission ends.
LEMMA ExecutorSettles ==
  ASSUME IInv, NEW w \in Workers,
         \/ ExecBegin(w) \/ ExecEnterRunning(w) \/ ExecRefused(w)
         \/ ExecEmitStarted(w) \/ ExecRaise(w)
  PROVE  Summary(w)
<1>1. /\ WorkerType /\ DbType
      /\ outcome = [outcome EXCEPT ![w] = outcome[w]]
  BY DEF IInv, WorkerInv, DbInv, WorkerType
<1>2. /\ ExecutePC \subseteq PC
      /\ Active \subseteq ExecutePC
      /\ "failing" \in ExecutePC
  BY DEF ExecutePC, PC, Active
<1>3. CASE ExecBegin(w)
  <2>1. pc[w] = "claimed" /\ run' = run /\ job' = job
    BY <1>3 DEF ExecBegin, dbVars
  <2>2. CASE outcome' = [outcome EXCEPT ![w] = "CANCELLED"] /\ Goto(w, "returned")
    BY <1>1, <1>2, <2>1, <2>2, MovesOnly DEF Goto, Active
  <2>3. CASE outcome' = outcome /\ Goto(w, "starting")
    BY <1>1, <1>2, <2>1, <2>3, MovesOnly DEF Goto, Active
  <2> QED BY <1>3, <2>2, <2>3 DEF ExecBegin
<1>4. CASE ExecEnterRunning(w)
  <2>1. pc[w] = "starting" /\ outcome' = outcome /\ job' = job
    BY <1>4 DEF ExecEnterRunning
  <2>2. job[w].run \in Runs
    BY <2>1, TokenFacts DEF ExecutePC
  <2>3. CASE /\ Startable(job[w].run)
             /\ run' = [run EXCEPT ![job[w].run] = Moved(@, "RUNNING", @.retry_wait)]
             /\ Goto(w, "emitting")
    <3> DEFINE row == Moved(run[job[w].run], "RUNNING", run[job[w].run].retry_wait)
    <3>1. row.status = "RUNNING" /\ run' = [run EXCEPT ![job[w].run] = row]
      BY <2>3 DEF Moved
    <3>2. /\ pc[w] \in ExecutePC \cap Active
          /\ "emitting" \in PC /\ "emitting" \notin {"returned", "finalizing"}
          /\ pc' = [pc EXCEPT ![w] = "emitting"]
      BY <1>2, <2>1, <2>3 DEF Active, Goto
    <3>3. run[job[w].run].status \in OpenStatus
      BY <2>3 DEF Startable, OpenStatus
    <3> HIDE DEF row
    <3> QED BY <1>1, <2>1, <2>2, <3>1, <3>2, <3>3, MovesOpenRun
  <2>4. CASE run' = run /\ Goto(w, "refused")
    BY <1>1, <1>2, <2>1, <2>4, MovesOnly DEF Goto, Active
  <2> QED BY <1>4, <2>3, <2>4 DEF ExecEnterRunning
<1>5. CASE ExecRefused(w)
  <2>1. pc[w] = "refused" /\ run' = run /\ job' = job
    BY <1>5 DEF ExecRefused, dbVars
  <2>2. CASE outcome' = [outcome EXCEPT ![w] = "CANCELLED"] /\ Goto(w, "returned")
    BY <1>1, <1>2, <2>1, <2>2, MovesOnly DEF Goto, Active
  <2>3. CASE outcome' = outcome /\ Goto(w, "failing")
    <3>1. "failing" \notin Active
      BY DEF Active
    <3> QED BY <1>1, <1>2, <2>1, <2>3, <3>1, MovesOnly DEF Goto, Active
  <2> QED BY <1>5, <2>2, <2>3 DEF ExecRefused
<1>6. CASE ExecEmitStarted(w)
  <2>1. pc[w] = "emitting" /\ run' = run /\ job' = job /\ outcome' = outcome
        /\ Goto(w, "executing")
    BY <1>6 DEF ExecEmitStarted
  <2> QED BY <1>1, <1>2, <2>1, MovesOnly DEF Goto, Active
<1>7. CASE ExecRaise(w)
  <2>1. pc[w] \in Active /\ run' = run /\ job' = job /\ outcome' = outcome
        /\ Goto(w, "failing")
    BY <1>7 DEF ExecRaise, dbVars, Active
  <2>2. "failing" \notin {"returned", "finalizing"}
    OBVIOUS
  <2> QED BY <1>1, <1>2, <2>1, <2>2, MovesOnly DEF Goto
<1> QED BY <1>3, <1>4, <1>5, <1>6, <1>7

\* Finalizing, failing and ending an attempt.
LEMMA SettleSettles ==
  ASSUME IInv, NEW w \in Workers, SettleStep(w)
  PROVE  Summary(w)
<1>1. /\ WorkerType /\ DbType /\ DbInv
      /\ outcome = [outcome EXCEPT ![w] = outcome[w]]
  BY DEF IInv, WorkerInv, DbInv, WorkerType
<1>2. /\ ExecutePC \subseteq PC
      /\ Active \subseteq ExecutePC
      /\ "failing" \in ExecutePC /\ "failing" \notin Active
      /\ "returned" \in Active /\ "finalizing" \in Active /\ "executing" \in Active
  BY DEF ExecutePC, PC, Active
<1>3. CASE LeaseLost(w)
  <2>1. pc[w] \in Active /\ run' = run /\ job' = job /\ outcome' = outcome
        /\ Goto(w, "failing")
    BY <1>3 DEF LeaseLost, dbVars, Active
  <2>2. "failing" \notin {"returned", "finalizing"}
    OBVIOUS
  <2> QED BY <1>1, <1>2, <2>1, <2>2, MovesOnly DEF Goto
<1>4. CASE ResolveOutcome(w)
  <2>1. pc[w] = "returned" /\ run' = run /\ job' = job
    BY <1>4 DEF ResolveOutcome, dbVars
  <2>2. CASE outcome' = outcome /\ Goto(w, "failing")
    BY <1>1, <1>2, <2>1, <2>2, MovesOnly DEF Goto
  <2>3. CASE /\ Goto(w, "finalizing")
             /\ outcome' = [outcome EXCEPT ![w] =
                              IF run[job[w].run].status = "CANCELLED"
                              THEN "CANCELLED" ELSE @]
    <3> DEFINE result == IF run[job[w].run].status = "CANCELLED"
                         THEN "CANCELLED" ELSE outcome[w]
    <3>1. outcome' = [outcome EXCEPT ![w] = result]
      BY <2>3
    <3>2. result = "CANCELLED" \/ result = outcome[w]
      OBVIOUS
    <3> HIDE DEF result
    <3> QED BY <1>1, <1>2, <2>1, <2>3, <3>1, <3>2, MovesOnly DEF Goto
  <2> QED BY <1>4, <2>2, <2>3 DEF ResolveOutcome
<1>5. CASE FinalizeCommit(w)
  <2> DEFINE t == job[w]
             r == t.run
  <2>1. /\ pc[w] = "finalizing" /\ pc[w] \in ExecutePC
        /\ attempt[r][t.number].status \in LiveStatus
    BY <1>5 DEF FinalizeCommit, Fenced, ExecutePC, LiveStatus
  <2>2. r \in Runs /\ t.number \in AttemptNumber
    BY <2>1, TokenFacts
  <2>3. run[r].status \in OpenStatus /\ t.number = run[r].current_attempt
    BY <1>1, <2>1, <2>2, RowFacts, LiveIsCurrent
  <2>4. run[r].status # "CANCELLED"
    BY <2>3 DEF OpenStatus
  <2>5. run' = [run EXCEPT ![r] = Moved(@, outcome[w], 0)] /\ job' = job
        /\ outcome' = outcome /\ Goto(w, "ending")
    BY <1>5, <2>4 DEF FinalizeCommit
  <2>6. \A v \in Workers : v # w => pc'[v] = pc[v]
    BY <1>1, <2>5 DEF WorkerType, Goto
  <2>7. pc'[w] = "ending"
    BY <1>1, <2>5 DEF WorkerType, Goto
  <2>8. /\ run'[r] = Moved(run[r], outcome[w], 0)
        /\ \A q \in Runs : q # r => run'[q] = run[q]
    BY <1>1, <2>2, <2>5 DEF DbType
  <2>9. run'[r].status = outcome[w] /\ run'[r].current_attempt = t.number
    BY <2>3, <2>8 DEF Moved
  <2> HIDE DEF r
  <2>10. \A q \in Runs : run'[q].status = "COMPLETED" /\ run[q].status # "COMPLETED" =>
           /\ q = r /\ outcome[w] = "COMPLETED"
           /\ run[q].status # "CANCELLED" /\ run'[q].current_attempt = job[w].number
    BY <2>4, <2>8, <2>9
  <2>11. \A q \in Runs : run[q].status = "NONE" => run'[q].status = "NONE"
    BY <2>3, <2>8 DEF OpenStatus
  <2> QED BY <2>1, <2>5, <2>6, <2>7, <2>10, <2>11 DEF Summary, Active, r
<1>6. CASE FinalizeRefused(w)
  <2>1. pc[w] \in Active /\ run' = run /\ job' = job /\ outcome' = outcome
        /\ Goto(w, "failing")
    BY <1>6 DEF FinalizeRefused, dbVars, Active
  <2>2. "failing" \notin {"returned", "finalizing"}
    OBVIOUS
  <2> QED BY <1>1, <1>2, <2>1, <2>2, MovesOnly DEF Goto
<1>7. CASE FailAttempt(w)
  <2>1. /\ pc[w] = "failing" /\ pc[w] \in ExecutePC /\ job' = job /\ outcome' = outcome
        /\ Goto(w, "ending")
        /\ run' = run \/ TransitionFailed(job[w].run, job[w].number)
    BY <1>7, <1>2 DEF FailAttempt, dbVars
  <2>2. job[w].run \in Runs
    BY <2>1, TokenFacts
  <2>3. \A r \in Runs : Kept(r)
    BY <1>1, <2>1, <2>2, FailKeeps DEF Kept
  <2>4. pc'[w] = "ending" /\ \A v \in Workers : v # w => pc'[v] = pc[v]
    BY <1>1, <2>1 DEF WorkerType, Goto
  <2> QED BY <2>1, <2>3, <2>4 DEF Summary, Kept, Active
<1>8. CASE EndExecute(w)
  <2> DEFINE label == IF hb[w] = "lost" THEN "down" ELSE "scanning"
  <2>1. /\ pc' = [pc EXCEPT ![w] = label] /\ run' = run
        /\ job' = [job EXCEPT ![w] = NoToken]
        /\ outcome' = [outcome EXCEPT ![w] = "NONE"]
    BY <1>8 DEF EndExecute, Goto, dbVars
  <2>2. label \in PC \ ExecutePC
    BY DEF PC, ScanPC, ExecutePC
  <2>3. \A v \in Workers : v # w => job'[v] = job[v] /\ outcome'[v] = outcome[v]
    BY <1>1, <2>1 DEF WorkerType
  <2> HIDE DEF label
  <2> QED BY <1>1, <2>1, <2>2, <2>3, MovesAway
<1> QED BY <1>3, <1>4, <1>5, <1>6, <1>7, <1>8 DEF SettleStep

\* Every worker step that waits for the write.
LEMMA OtherStepSettles ==
  ASSUME IInv, NEW w \in Workers, OtherWorkerStep(w)
  PROVE  Summary(w)
<1>1. CASE Restart(w)
  <2>1. WorkerType /\ "idle" \in PC \ ExecutePC
    BY DEF IInv, WorkerInv, PC, ScanPC, ExecutePC
  <2>2. /\ pc' = [pc EXCEPT ![w] = "idle"] /\ run' = run
        /\ job' = job /\ outcome' = outcome
    BY <1>1 DEF Restart, Goto, dbVars
  <2> QED BY <2>1, <2>2, MovesAway
<1> QED BY <1>1, ScanSettles, ExecutorSettles, SettleSettles DEF OtherWorkerStep

-----------------------------------------------------------------------------
\* The reply's invariant, step by step

\* A step of the transcript is a step of the queue, or leaves it alone.
LEMMA NextBelow ==
  ASSUME IInv, TranscriptNext
  PROVE  DbStep /\ IInv'
<1>1. [Next]_vars
  BY DEF TranscriptNext, SubmitWithReply, CancelRun, CancelRequest, ReadPlaceholder,
         ReplacePlaceholder, CancelRequestDies, TranscriptWorkerStep, MissionEnds,
         WriteReply, OtherWorkerStep, CrashInReply, Next, ApiStep, WorkerStep,
         ExecutorStep
<1> QED BY <1>1, NextSteps

\* A run that was ever submitted stays so; one that is over stays as it is.
LEMMA RunsStay ==
  ASSUME IInv, DbStep, NEW r \in Runs
  PROVE  /\ run[r].status # "NONE" => run'[r].status # "NONE"
         /\ run[r].status \in TerminalStatus => run'[r].status = run[r].status
         /\ run[r].status \in TerminalStatus =>
              run'[r].current_attempt = run[r].current_attempt
<1>1. run[r].status \in RunStatus
  BY DEF IInv, DbInv, DbType, RunRow
<1>2. RunAdvances(run[r], run'[r], events[r], events'[r])
  BY DEF DbStep
<1> QED BY <1>1, <1>2 DEF RunAdvances, RunStatus, TerminalStatus, OpenStatus

\* A worker that does not move keeps its invariant, if what it relies on stays.
LEMMA WriterStays ==
  ASSUME IInv, DbStep, NEW v \in Workers,
         pc'[v] = pc[v], job'[v] = job[v], outcome'[v] = outcome[v],
         writing'[v] = writing[v],
         WriterInv(pc[v], job[v], outcome[v], writing[v], run, reply),
         \A r \in Runs : Answered(reply[r]) => Answered(reply'[r])
  PROVE  WriterInv(pc'[v], job'[v], outcome'[v], writing'[v], run', reply')
<1>1. CASE pc[v] \in ExecutePC
  <2>1. job[v].run \in Runs
    BY <1>1, TokenFacts
  <2> QED BY <2>1, RunsStay DEF WriterInv
<1>2. CASE pc[v] \notin ExecutePC
  BY <1>2 DEF WriterInv, ExecutePC
<1> QED BY <1>1, <1>2

\* The worker steps that wait for the write: they write no reply.
LEMMA OtherStepKeeps ==
  ASSUME IInv, DbStep, TranscriptIInv, NEW w \in Workers, OtherWorkerStep(w)
  PROVE  TranscriptIInv'
<1>1. Summary(w) /\ writing[w] = "nothing"
  BY OtherStepSettles DEF OtherWorkerStep
<1>2. reply' = reply /\ writing' = writing /\ canceller' = canceller
  BY DEF OtherWorkerStep, transcriptVars
<1>3. ASSUME NEW v \in Workers, v # w
      PROVE  WriterInv(pc'[v], job'[v], outcome'[v], writing'[v], run', reply')
  <2>1. pc'[v] = pc[v] /\ job'[v] = job[v] /\ outcome'[v] = outcome[v]
    BY <1>1, <1>3 DEF Summary
  <2>2. WriterInv(pc[v], job[v], outcome[v], writing[v], run, reply)
    BY DEF TranscriptIInv
  <2> QED BY <1>2, <2>1, <2>2, WriterStays
<1>4. WriterInv(pc'[w], job'[w], outcome'[w], writing'[w], run', reply')
  <2>1. pc'[w] \in ExecutePC => run'[job'[w].run].status # "NONE"
    <3>1. CASE pc[w] \in ExecutePC /\ job'[w] = job[w]
      <4>1. job[w].run \in Runs /\ run[job[w].run].status # "NONE"
        BY <3>1, TokenFacts DEF TranscriptIInv, WriterInv
      <4> QED BY <3>1, <4>1, RunsStay
    <3>2. CASE run' = run /\ run[job'[w].run].status \in OpenStatus
      BY <3>2 DEF OpenStatus
    <3> QED BY <1>1, <3>1, <3>2 DEF Summary
  <2>2. (pc'[w] \in {"returned", "finalizing"} /\ outcome'[w] = "COMPLETED") =>
          Answered(reply'[job'[w].run])
    <3>1. WriterInv(pc[w], job[w], outcome[w], writing[w], run, reply)
      BY DEF TranscriptIInv
    <3>2. (pc[w] = "returned" /\ outcome[w] = "COMPLETED") => Answered(reply[job[w].run])
      BY <1>1, <3>1 DEF WriterInv
    <3> QED BY <1>1, <1>2, <3>2 DEF Summary
  <2> QED BY <1>1, <1>2, <2>1, <2>2 DEF WriterInv
<1>5. ASSUME NEW r \in Runs PROVE RunReply(run'[r], reply'[r], canceller'[r])
  <2>1. RunReply(run[r], reply[r], canceller[r])
    BY DEF TranscriptIInv
  <2>2. run[r].status = "NONE" => run'[r].status = "NONE"
    BY <1>1 DEF Summary
  <2>3. run'[r].status = "COMPLETED" => Answered(reply[r])
    <3>1. CASE run[r].status = "COMPLETED"
      BY <2>1, <3>1 DEF RunReply
    <3>2. CASE run'[r].status = "COMPLETED" /\ run[r].status # "COMPLETED"
      <4>1. pc[w] = "finalizing" /\ r = job[w].run /\ outcome[w] = "COMPLETED"
        BY <1>1, <3>2 DEF Summary
      <4>2. WriterInv(pc[w], job[w], outcome[w], writing[w], run, reply)
        BY DEF TranscriptIInv
      <4> QED BY <1>1, <4>1, <4>2 DEF WriterInv
    <3> QED BY <3>1, <3>2
  <2>4. run[r].status = "CANCELLED" => run'[r].status = "CANCELLED"
    BY RunsStay DEF TerminalStatus
  <2> QED BY <1>2, <2>1, <2>2, <2>3, <2>4 DEF RunReply
<1>6. ReplyTypes'
  BY <1>2 DEF TranscriptIInv, ReplyTypes
<1> QED BY <1>3, <1>4, <1>5, <1>6 DEF TranscriptIInv

\* A step in which no worker moves and no run is submitted, completed or taken
\* out of its cancellation, such as a tick or a heartbeat.
LEMMA NobodyMoves ==
  ASSUME IInv, DbStep, TranscriptIInv, ReplyTypes',
         pc' = pc, job' = job, outcome' = outcome, writing' = writing,
         \A r \in Runs : Answered(reply[r]) => Answered(reply'[r]),
         \A r \in Runs : RunReply(run'[r], reply'[r], canceller'[r])
  PROVE  TranscriptIInv'
<1>1. ASSUME NEW v \in Workers
      PROVE  WriterInv(pc'[v], job'[v], outcome'[v], writing'[v], run', reply')
  BY WriterStays DEF TranscriptIInv
<1> QED BY <1>1 DEF TranscriptIInv

\* Submissions, cancels and the rest of the cancel request.
LEMMA ApiKeepsReply ==
  ASSUME IInv, DbStep, TranscriptIInv, NEW r \in Runs,
         \/ SubmitWithReply(r) \/ CancelRun(r)
         \/ CancelRequest(r) \/ CancelRequestDies(r)
         \/ MarkOutboxPublished(r) /\ UNCHANGED transcriptVars
  PROVE  TranscriptIInv'
<1>1. ReplyTypes /\ DbType
  BY DEF TranscriptIInv, IInv, DbInv
<1>2. \A q \in Runs : RunReply(run[q], reply[q], canceller[q])
  BY DEF TranscriptIInv
<1>3. Pending \in Reply /\ [shows |-> "warning", by |-> 0] \in Reply
  BY LimitsAssumption DEF Pending, Reply, Shows
<1>4. CASE SubmitWithReply(r)
  <2>1. /\ run[r].status = "NONE" /\ UNCHANGED workerVars
        /\ reply' = [reply EXCEPT ![r] = Pending] /\ canceller' = canceller
        /\ writing' = writing
    BY <1>4 DEF SubmitWithReply, Submit
  <2>2. run' = [run EXCEPT ![r] = [status |-> "QUEUED", current_attempt |-> 1,
                                   retry_count |-> 0, retry_wait |-> 0]]
    BY <1>4 DEF SubmitWithReply, Submit
  <2>3. run'[r].status = "QUEUED" /\ \A q \in Runs : q # r => run'[q] = run[q]
    BY <1>1, <2>2 DEF DbType
  <2>4. reply'[r] = Pending /\ \A q \in Runs : q # r => reply'[q] = reply[q]
    BY <1>1, <2>1 DEF ReplyTypes
  <2>5. canceller[r] = "none"
    BY <1>2, <2>1 DEF RunReply
  <2>6. RunReply(run'[r], reply'[r], canceller'[r])
    BY <2>1, <2>3, <2>4, <2>5 DEF RunReply, Pending
  <2>7. \A q \in Runs : RunReply(run'[q], reply'[q], canceller'[q])
    BY <1>2, <2>1, <2>3, <2>4, <2>6
  <2>8. ReplyTypes'
    BY <1>1, <1>3, <2>1 DEF ReplyTypes
  <2>9. ASSUME NEW v \in Workers
        PROVE  WriterInv(pc'[v], job'[v], outcome'[v], writing'[v], run', reply')
    <3>1. pc'[v] = pc[v] /\ job'[v] = job[v] /\ outcome'[v] = outcome[v]
          /\ writing'[v] = writing[v]
      BY <2>1 DEF workerVars
    <3>2. WriterInv(pc[v], job[v], outcome[v], writing[v], run, reply)
      BY DEF TranscriptIInv
    <3>3. CASE pc[v] \in ExecutePC
      <4>1. job[v].run \in Runs /\ run[job[v].run].status # "NONE"
        BY <3>2, <3>3, TokenFacts DEF WriterInv
      <4>2. job[v].run # r
        BY <2>1, <4>1
      <4>3. run'[job[v].run] = run[job[v].run] /\ reply'[job[v].run] = reply[job[v].run]
        BY <2>3, <2>4, <4>1, <4>2
      <4> QED BY <3>1, <3>2, <4>3 DEF WriterInv
    <3>4. CASE pc[v] \notin ExecutePC
      BY <3>1, <3>2, <3>4 DEF WriterInv, ExecutePC
    <3> QED BY <3>3, <3>4
  <2> QED BY <2>7, <2>8, <2>9 DEF TranscriptIInv
<1>5. CASE CancelRun(r)
  <2>1. /\ run[r].status \in OpenStatus /\ UNCHANGED workerVars
        /\ reply' = reply /\ canceller' = [canceller EXCEPT ![r] = "committed"]
        /\ writing' = writing
        /\ run' = [run EXCEPT ![r] = Moved(@, "CANCELLED", @.retry_wait)]
    BY <1>5 DEF CancelRun, Cancel, NotOver
  <2>2. run'[r].status = "CANCELLED" /\ \A q \in Runs : q # r => run'[q] = run[q]
    BY <1>1, <2>1 DEF DbType, Moved
  <2>3. canceller'[r] = "committed" /\ \A q \in Runs : q # r => canceller'[q] = canceller[q]
    BY <1>1, <2>1 DEF ReplyTypes
  <2>4. RunReply(run'[r], reply'[r], canceller'[r])
    <3>1. reply[r].shows # "none"
      BY <1>2, <2>1 DEF RunReply, OpenStatus
    <3> QED BY <2>1, <2>2, <2>3, <3>1 DEF RunReply
  <2>5. \A q \in Runs : RunReply(run'[q], reply'[q], canceller'[q])
    BY <1>2, <2>1, <2>2, <2>3, <2>4
  <2>6. ReplyTypes'
    BY <1>1, <2>1 DEF ReplyTypes
  <2> QED BY <2>1, <2>5, <2>6, NobodyMoves DEF workerVars
<1>6. CASE ReadPlaceholder(r)
  <2> DEFINE c == IF SeesPlaceholder(r) THEN "replacing" ELSE "done"
  <2>1. /\ canceller[r] = "committed" /\ UNCHANGED vars
        /\ canceller' = [canceller EXCEPT ![r] = c]
        /\ reply' = reply /\ writing' = writing
    BY <1>6 DEF ReadPlaceholder
  <2>2. run' = run /\ pc' = pc /\ job' = job /\ outcome' = outcome
    BY <2>1 DEF vars, dbVars, workerVars
  <2>3. c \in {"replacing", "done"}
    OBVIOUS
  <2>4. c = "done" => Answered(reply[r])
    <3>1. reply[r].shows # "none" /\ reply[r].shows \in Shows
      BY <1>1, <1>2, <2>1 DEF RunReply, ReplyTypes, Reply
    <3> QED BY <3>1 DEF SeesPlaceholder, Answered, Shows
  <2> HIDE DEF c
  <2>5. canceller'[r] = c /\ \A q \in Runs : q # r => canceller'[q] = canceller[q]
    BY <1>1, <2>1 DEF ReplyTypes
  <2>6. RunReply(run'[r], reply'[r], canceller'[r])
    BY <1>2, <2>1, <2>2, <2>4, <2>5 DEF RunReply
  <2>7. \A q \in Runs : RunReply(run'[q], reply'[q], canceller'[q])
    BY <1>2, <2>1, <2>2, <2>5, <2>6
  <2>8. ReplyTypes'
    BY <1>1, <2>1, <2>3 DEF ReplyTypes
  <2> QED BY <2>1, <2>2, <2>7, <2>8, NobodyMoves
<1>7. CASE ReplacePlaceholder(r)
  <2> DEFINE p == [shows |-> "warning", by |-> 0]
  <2>1. /\ canceller[r] = "replacing" /\ UNCHANGED vars
        /\ canceller' = [canceller EXCEPT ![r] = "done"]
        /\ reply' = [reply EXCEPT ![r] = p] /\ writing' = writing
    BY <1>7 DEF ReplacePlaceholder
  <2>2. run' = run /\ pc' = pc /\ job' = job /\ outcome' = outcome
    BY <2>1 DEF vars, dbVars, workerVars
  <2>3. Answered(p) /\ p.shows # "none" /\ p \in Reply
    BY <1>3 DEF Answered
  <2> HIDE DEF p
  <2>4. canceller'[r] = "done" /\ \A q \in Runs : q # r => canceller'[q] = canceller[q]
    BY <1>1, <2>1 DEF ReplyTypes
  <2>5. reply'[r] = p /\ \A q \in Runs : q # r => reply'[q] = reply[q]
    BY <1>1, <2>1 DEF ReplyTypes
  <2>6. RunReply(run'[r], reply'[r], canceller'[r])
    BY <1>2, <2>1, <2>2, <2>3, <2>4, <2>5 DEF RunReply
  <2>7. \A q \in Runs : RunReply(run'[q], reply'[q], canceller'[q])
    BY <1>2, <2>2, <2>4, <2>5, <2>6
  <2>8. ReplyTypes'
    BY <1>1, <2>1, <2>3 DEF ReplyTypes
  <2>9. \A q \in Runs : Answered(reply[q]) => Answered(reply'[q])
    BY <2>3, <2>5
  <2> QED BY <2>1, <2>2, <2>7, <2>8, <2>9, NobodyMoves
<1>8. CASE CancelRequestDies(r)
  <2>1. /\ canceller[r] \in {"committed", "replacing"} /\ UNCHANGED vars
        /\ canceller' = [canceller EXCEPT ![r] = "died"]
        /\ reply' = reply /\ writing' = writing
    BY <1>8 DEF CancelRequestDies
  <2>2. run' = run /\ pc' = pc /\ job' = job /\ outcome' = outcome
    BY <2>1 DEF vars, dbVars, workerVars
  <2>3. canceller'[r] = "died" /\ \A q \in Runs : q # r => canceller'[q] = canceller[q]
    BY <1>1, <2>1 DEF ReplyTypes
  <2>4. RunReply(run'[r], reply'[r], canceller'[r])
    BY <1>2, <2>1, <2>2, <2>3 DEF RunReply
  <2>5. \A q \in Runs : RunReply(run'[q], reply'[q], canceller'[q])
    BY <1>2, <2>1, <2>2, <2>3, <2>4
  <2>6. ReplyTypes'
    BY <1>1, <2>1 DEF ReplyTypes
  <2> QED BY <2>1, <2>2, <2>5, <2>6, NobodyMoves
<1>9. CASE MarkOutboxPublished(r) /\ UNCHANGED transcriptVars
  <2>1. /\ run' = run /\ pc' = pc /\ job' = job /\ outcome' = outcome
        /\ reply' = reply /\ writing' = writing /\ canceller' = canceller
    BY <1>9 DEF MarkOutboxPublished, workerVars, transcriptVars
  <2>2. ReplyTypes' /\ \A q \in Runs : RunReply(run'[q], reply'[q], canceller'[q])
    BY <1>1, <1>2, <2>1 DEF ReplyTypes
  <2> QED BY <2>1, <2>2, NobodyMoves
<1> QED BY <1>4, <1>5, <1>6, <1>7, <1>8, <1>9 DEF CancelRequest

\* A worker's move that leaves the runs and the replies alone.
LEMMA WriterGoes ==
  ASSUME IInv, DbStep, TranscriptIInv, ReplyTypes', NEW w \in Workers,
         run' = run, reply' = reply, canceller' = canceller,
         \A v \in Workers : v # w =>
           /\ pc'[v] = pc[v] /\ job'[v] = job[v] /\ outcome'[v] = outcome[v]
           /\ writing'[v] = writing[v],
         WriterInv(pc'[w], job'[w], outcome'[w], writing'[w], run, reply)
  PROVE  TranscriptIInv'
<1>1. ASSUME NEW v \in Workers
      PROVE  WriterInv(pc'[v], job'[v], outcome'[v], writing'[v], run', reply')
  <2>1. CASE v # w
    <3>1. WriterInv(pc[v], job[v], outcome[v], writing[v], run, reply)
      BY DEF TranscriptIInv
    <3> QED BY <2>1, <3>1
  <2>2. CASE v = w
    BY <2>2
  <2> QED BY <2>1, <2>2
<1>2. \A r \in Runs : RunReply(run'[r], reply'[r], canceller'[r])
  BY DEF TranscriptIInv
<1> QED BY <1>1, <1>2 DEF TranscriptIInv

\* A mission's end, the write, the steps that wait for it, and crashes.
LEMMA WorkerKeepsReply ==
  ASSUME IInv, DbStep, TranscriptIInv, NEW w \in Workers,
         \/ TranscriptWorkerStep(w) \/ CrashInReply(w)
         \/ Heartbeat(w) /\ UNCHANGED transcriptVars
  PROVE  TranscriptIInv'
<1>1. ReplyTypes /\ DbType /\ WorkerType
  BY DEF TranscriptIInv, IInv, DbInv, WorkerInv
<1>2. /\ \A q \in Runs : RunReply(run[q], reply[q], canceller[q])
      /\ WriterInv(pc[w], job[w], outcome[w], writing[w], run, reply)
  BY DEF TranscriptIInv
<1>3. ASSUME NEW result \in Outcome \ {"NONE"}, NEW responded \in BOOLEAN,
             MissionEnds(w, result, responded)
      PROVE  TranscriptIInv'
  <2> DEFINE what == ReplyFor(outcome'[w], responded, job[w].number)
  <2>1. /\ pc[w] = "executing" /\ pc' = [pc EXCEPT ![w] = "returned"]
        /\ job' = job /\ run' = run /\ reply' = reply /\ canceller' = canceller
        /\ writing' = [writing EXCEPT ![w] = what]
    BY <1>3 DEF MissionEnds, ExecReturn, Goto, dbVars
  <2>2. \A v \in Workers : v # w => pc'[v] = pc[v] /\ outcome'[v] = outcome[v]
    BY <1>1, <1>3 DEF MissionEnds, ExecReturn, Goto, WorkerType
  <2>3. pc'[w] = "returned"
    BY <1>1, <2>1 DEF WorkerType
  <2>4. what \in {"nothing", "answer", "warning"}
    BY DEF ReplyFor
  <2>5. outcome'[w] = "COMPLETED" => what # "nothing"
    BY DEF ReplyFor
  <2> HIDE DEF what
  <2>6. writing'[w] = what /\ \A v \in Workers : v # w => writing'[v] = writing[v]
    BY <1>1, <2>1 DEF ReplyTypes
  <2>7. run[job[w].run].status # "NONE"
    BY <1>2, <2>1 DEF WriterInv, ExecutePC
  <2>8. WriterInv(pc'[w], job'[w], outcome'[w], writing'[w], run, reply)
    BY <2>1, <2>3, <2>5, <2>6, <2>7 DEF WriterInv
  <2>9. ReplyTypes'
    BY <1>1, <2>1, <2>4 DEF ReplyTypes
  <2> QED BY <2>1, <2>2, <2>6, <2>8, <2>9, WriterGoes
<1>4. CASE WriteReply(w)
  <2> DEFINE q == job[w].run
             p == [shows |-> writing[w], by |-> job[w].number]
  <2>1. /\ writing[w] # "nothing" /\ UNCHANGED vars /\ canceller' = canceller
        /\ reply' = [reply EXCEPT ![q] = p]
        /\ writing' = [writing EXCEPT ![w] = "nothing"]
    BY <1>4 DEF WriteReply
  <2>2. run' = run /\ pc' = pc /\ job' = job /\ outcome' = outcome
    BY <2>1 DEF vars, dbVars, workerVars
  <2>3. pc[w] = "returned" /\ pc[w] \in ExecutePC
    BY <1>2, <2>1 DEF WriterInv, ExecutePC
  <2>4. q \in Runs /\ job[w].number \in AttemptNumber
    BY <2>3, TokenFacts
  <2>5. p \in Reply /\ Answered(p) /\ p.shows # "none"
    <3>1. writing[w] \in {"answer", "warning"}
      BY <1>1, <2>1 DEF ReplyTypes
    <3> QED BY <2>4, <3>1, LimitsAssumption DEF Reply, Shows, Answered, AttemptNumber
  <2> HIDE DEF p, q
  <2>6. reply'[q] = p /\ \A r \in Runs : r # q => reply'[r] = reply[r]
    BY <1>1, <2>1, <2>4 DEF ReplyTypes
  <2>7. \A r \in Runs : RunReply(run'[r], reply'[r], canceller'[r])
    BY <1>2, <2>1, <2>2, <2>5, <2>6 DEF RunReply
  <2>8. \A r \in Runs : Answered(reply[r]) => Answered(reply'[r])
    BY <2>5, <2>6
  <2>9. ReplyTypes'
    BY <1>1, <2>1, <2>5 DEF ReplyTypes
  <2>10. writing'[w] = "nothing" /\ \A v \in Workers : v # w => writing'[v] = writing[v]
    BY <1>1, <2>1 DEF ReplyTypes
  <2>11. ASSUME NEW v \in Workers
         PROVE  WriterInv(pc'[v], job'[v], outcome'[v], writing'[v], run', reply')
    <3>1. CASE v = w
      <4>1. run[q].status # "NONE"
        BY <1>2, <2>3 DEF WriterInv, q
      <4> QED BY <2>2, <2>5, <2>6, <2>10, <3>1, <4>1 DEF WriterInv, q
    <3>2. CASE v # w
      BY <2>2, <2>8, <2>10, <3>2, WriterStays DEF TranscriptIInv
    <3> QED BY <3>1, <3>2
  <2> QED BY <2>7, <2>9, <2>11 DEF TranscriptIInv
<1>5. CASE OtherWorkerStep(w)
  BY <1>5, OtherStepKeeps
<1>6. CASE CrashInReply(w)
  <2>1. /\ pc' = [pc EXCEPT ![w] = "down"] /\ run' = run
        /\ job' = [job EXCEPT ![w] = NoToken]
        /\ outcome' = [outcome EXCEPT ![w] = "NONE"]
        /\ writing' = [writing EXCEPT ![w] = "nothing"]
        /\ reply' = reply /\ canceller' = canceller
    BY <1>6 DEF CrashInReply, Crash, Goto, dbVars
  <2>2. pc'[w] = "down" /\ writing'[w] = "nothing"
    BY <1>1, <2>1 DEF WorkerType, ReplyTypes
  <2>3. \A v \in Workers : v # w =>
           /\ pc'[v] = pc[v] /\ job'[v] = job[v] /\ outcome'[v] = outcome[v]
           /\ writing'[v] = writing[v]
    BY <1>1, <2>1 DEF WorkerType, ReplyTypes
  <2>4. WriterInv(pc'[w], job'[w], outcome'[w], writing'[w], run, reply)
    BY <2>2 DEF WriterInv, ExecutePC
  <2>5. ReplyTypes'
    BY <1>1, <2>1 DEF ReplyTypes
  <2> QED BY <2>1, <2>3, <2>4, <2>5, WriterGoes
<1>7. CASE Heartbeat(w) /\ UNCHANGED transcriptVars
  <2>1. /\ run' = run /\ pc' = pc /\ job' = job /\ outcome' = outcome
        /\ reply' = reply /\ writing' = writing /\ canceller' = canceller
    BY <1>7 DEF Heartbeat, transcriptVars
  <2>2. ReplyTypes' /\ \A q \in Runs : RunReply(run'[q], reply'[q], canceller'[q])
    BY <1>1, <1>2, <2>1 DEF ReplyTypes
  <2> QED BY <2>1, <2>2, NobodyMoves
<1> QED BY <1>3, <1>4, <1>5, <1>6, <1>7 DEF TranscriptWorkerStep

\* The clock.
LEMMA TickKeepsReply ==
  ASSUME IInv, DbStep, TranscriptIInv, Tick, UNCHANGED transcriptVars
  PROVE  TranscriptIInv'
<1>1. ReplyTypes /\ \A q \in Runs : RunReply(run[q], reply[q], canceller[q])
  BY DEF TranscriptIInv
<1>2. /\ pc' = pc /\ job' = job /\ outcome' = outcome
      /\ reply' = reply /\ writing' = writing /\ canceller' = canceller
  BY DEF Tick, workerVars, transcriptVars
<1>3. \A r \in Runs : run'[r].status = run[r].status
  BY DEF Tick, Moved
<1>4. ReplyTypes' /\ \A q \in Runs : RunReply(run'[q], reply'[q], canceller'[q])
  BY <1>1, <1>2, <1>3 DEF ReplyTypes, RunReply
<1> QED BY <1>2, <1>4, NobodyMoves

\* Every step of the transcript.
LEMMA TranscriptSteps ==
  ASSUME IInv, TranscriptIInv, [TranscriptNext]_allVars
  PROVE  IInv' /\ TranscriptIInv'
<1>1. CASE TranscriptNext
  <2>1. DbStep /\ IInv'
    BY <1>1, NextBelow
  <2>2. CASE Tick /\ UNCHANGED transcriptVars
    BY <2>1, <2>2, TickKeepsReply
  <2> QED BY <1>1, <2>1, <2>2, ApiKeepsReply, WorkerKeepsReply DEF TranscriptNext
<1>2. CASE UNCHANGED allVars
  <2>1. UNCHANGED vars /\ UNCHANGED transcriptVars
    BY <1>2 DEF allVars
  <2>2. IInv'
    BY <2>1, NextSteps
  <2>3. /\ run' = run /\ pc' = pc /\ job' = job /\ outcome' = outcome
        /\ reply' = reply /\ writing' = writing /\ canceller' = canceller
    BY <2>1 DEF vars, dbVars, workerVars, transcriptVars
  <2> QED BY <2>2, <2>3 DEF TranscriptIInv, ReplyTypes
<1> QED BY <1>1, <1>2

\* No run, no reply, nobody busy.
LEMMA TranscriptInitHolds ==
  ASSUME TranscriptInit
  PROVE  IInv /\ TranscriptIInv
<1>1. IInv
  BY InitInv DEF TranscriptInit
<1>2. ReplyTypes
  BY LimitsAssumption DEF TranscriptInit, ReplyTypes, Reply, Shows
<1>3. \A w \in Workers : WriterInv(pc[w], job[w], outcome[w], writing[w], run, reply)
  BY DEF TranscriptInit, Init, WriterInv, ExecutePC
<1>4. \A r \in Runs : RunReply(run[r], reply[r], canceller[r])
  BY DEF TranscriptInit, Init, RunReply, NoRun
<1> QED BY <1>1, <1>2, <1>3, <1>4 DEF TranscriptIInv

\* What the inductive invariants say of a reader's view.
LEMMA IInvGivesTranscript ==
  ASSUME IInv, TranscriptIInv
  PROVE  TranscriptInv
<1>1. TypeOK
  BY DEF IInv, DbInv, WorkerInv, DbType, WorkerType, TypeOK
<1>2. CompletedHasReply /\ CancelledHasReply
  BY DEF TranscriptIInv, RunReply, Answered, CompletedHasReply, CancelledHasReply
<1> QED BY <1>1, <1>2 DEF TranscriptInv, TranscriptTypeOK, TranscriptIInv, ReplyTypes

\* A run is never completed behind a reply that says "Working...", nor is a
\* placeholder left behind a cancel that has answered, whichever workers write
\* the reply (CompletedHasReply, CancelledHasReply).
THEOREM RepliesTellTheOutcome == TranscriptSpec => []TranscriptInv
<1>1. TranscriptInit => IInv /\ TranscriptIInv
  BY TranscriptInitHolds
<1>2. IInv /\ TranscriptIInv /\ [TranscriptNext]_allVars => (IInv /\ TranscriptIInv)'
  BY TranscriptSteps
<1>3. IInv /\ TranscriptIInv => TranscriptInv
  BY IInvGivesTranscript
<1> QED BY <1>1, <1>2, <1>3, PTL DEF TranscriptSpec

-----------------------------------------------------------------------------
\* One worker deployed

\* What one step of the deployment's only worker u, or of anybody else, keeps:
\* its own writer invariant, and the replies of completed runs.
LEMMA LoneKept ==
  ASSUME NEW u \in Workers, \A w \in Workers : w # u => pc'[w] = "idle",
         LoneWriter(pc'[u], job'[u], outcome'[u], writing'[u], run', reply'),
         \A r \in Runs : run'[r].status = "COMPLETED" =>
           reply'[r].by = run'[r].current_attempt
  PROVE  LoneInv'
<1>1. ASSUME NEW w \in Workers
      PROVE  LoneWriter(pc'[w], job'[w], outcome'[w], writing'[w], run', reply')
  <2>1. CASE w = u
    BY <2>1
  <2>2. CASE w # u
    BY <2>2 DEF LoneWriter, Active
  <2> QED BY <2>1, <2>2
<1> QED BY <1>1 DEF LoneInv

\* u does not move, the runs and the replies that it or a reader relies on stay.
LEMMA LoneStays ==
  ASSUME IInv, TranscriptIInv, LoneInv, NEW u \in Workers,
         \A w \in Workers : w # u => pc'[w] = "idle",
         pc'[u] = pc[u], job'[u] = job[u], outcome'[u] = outcome[u],
         writing'[u] = writing[u],
         \A r \in Runs : run[r].status # "NONE" /\ run'[r].status # "CANCELLED" =>
           /\ run'[r].status = run[r].status /\ reply'[r].by = reply[r].by
           /\ run'[r].current_attempt = run[r].current_attempt,
         \A r \in Runs : run[r].status = "NONE" => run'[r].status # "COMPLETED"
  PROVE  LoneInv'
<1>1. LoneWriter(pc'[u], job'[u], outcome'[u], writing'[u], run', reply')
  <2>1. CASE pc[u] \in Active
    <3>1. pc[u] \in ExecutePC
      BY <2>1 DEF Active, ExecutePC
    <3>2. job[u].run \in Runs /\ run[job[u].run].status # "NONE"
      BY <3>1, TokenFacts DEF TranscriptIInv, WriterInv
    <3>3. LoneWriter(pc[u], job[u], outcome[u], writing[u], run, reply)
      BY DEF LoneInv
    <3>4. CASE run'[job[u].run].status = "CANCELLED"
      BY <3>4 DEF LoneWriter, Ended
    <3>5. CASE run'[job[u].run].status # "CANCELLED"
      BY <3>2, <3>3, <3>5 DEF LoneWriter
    <3> QED BY <3>4, <3>5
  <2>2. CASE pc[u] \notin Active
    BY <2>2 DEF LoneWriter, Active
  <2> QED BY <2>1, <2>2
<1>2. \A r \in Runs : run'[r].status = "COMPLETED" => reply'[r].by = run'[r].current_attempt
  BY DEF LoneInv
<1> QED BY <1>1, <1>2, LoneKept

\* Requests do not disturb the lone worker.
LEMMA ApiKeepsLone ==
  ASSUME IInv, TranscriptIInv, LoneInv, NEW u \in Workers,
         \A w \in Workers : w # u => pc'[w] = "idle",
         NEW r \in Runs,
         \/ SubmitWithReply(r) \/ CancelRun(r)
         \/ CancelRequest(r) \/ CancelRequestDies(r)
         \/ MarkOutboxPublished(r) /\ UNCHANGED transcriptVars
  PROVE  LoneInv'
<1>1. ReplyTypes /\ DbType
  BY DEF TranscriptIInv, IInv, DbInv
<1>2. pc' = pc /\ job' = job /\ outcome' = outcome /\ writing' = writing
  BY DEF SubmitWithReply, Submit, CancelRun, Cancel, CancelRequest, ReadPlaceholder,
         ReplacePlaceholder, CancelRequestDies, MarkOutboxPublished, vars, workerVars,
         transcriptVars
<1>3. CASE SubmitWithReply(r)
  <2>1. /\ run[r].status = "NONE"
        /\ run' = [run EXCEPT ![r] = [status |-> "QUEUED", current_attempt |-> 1,
                                   retry_count |-> 0, retry_wait |-> 0]]
        /\ reply' = [reply EXCEPT ![r] = Pending]
    BY <1>3 DEF SubmitWithReply, Submit
  <2>2. run'[r].status = "QUEUED" /\ \A q \in Runs : q # r => run'[q] = run[q]
    BY <1>1, <2>1 DEF DbType
  <2>3. \A q \in Runs : q # r => reply'[q] = reply[q]
    BY <1>1, <2>1 DEF ReplyTypes
  <2> QED BY <1>2, <2>1, <2>2, <2>3, LoneStays
<1>4. CASE CancelRun(r)
  <2>1. /\ run[r].status \in OpenStatus /\ reply' = reply
        /\ run' = [run EXCEPT ![r] = Moved(@, "CANCELLED", @.retry_wait)]
    BY <1>4 DEF CancelRun, Cancel, NotOver
  <2>2. run'[r].status = "CANCELLED" /\ \A q \in Runs : q # r => run'[q] = run[q]
    BY <1>1, <2>1 DEF DbType, Moved
  <2> QED BY <1>2, <2>1, <2>2, LoneStays
<1>5. CASE ReplacePlaceholder(r)
  <2>1. /\ canceller[r] = "replacing" /\ run' = run
        /\ reply' = [reply EXCEPT ![r] = [shows |-> "warning", by |-> 0]]
    BY <1>5 DEF ReplacePlaceholder, vars, dbVars
  <2>2. run[r].status = "CANCELLED"
    BY <2>1 DEF TranscriptIInv, RunReply
  <2>3. \A q \in Runs : q # r => reply'[q] = reply[q]
    BY <1>1, <2>1 DEF ReplyTypes
  <2> QED BY <1>2, <2>1, <2>2, <2>3, LoneStays
<1>6. CASE run' = run /\ reply' = reply
  BY <1>2, <1>6, LoneStays
<1>7. CASE \/ ReadPlaceholder(r) \/ CancelRequestDies(r)
           \/ MarkOutboxPublished(r) /\ UNCHANGED transcriptVars
  BY <1>6, <1>7 DEF ReadPlaceholder, CancelRequestDies, MarkOutboxPublished, vars,
                    dbVars, transcriptVars
<1> QED BY <1>3, <1>4, <1>5, <1>7 DEF CancelRequest

\* The clock and a heartbeat touch neither status nor reply.
LEMMA TimeKeepsLone ==
  ASSUME IInv, TranscriptIInv, LoneInv, NEW u \in Workers,
         \A w \in Workers : w # u => pc'[w] = "idle",
         Tick \/ \E w \in Workers : Heartbeat(w), UNCHANGED transcriptVars
  PROVE  LoneInv'
<1>1. /\ pc' = pc /\ job' = job /\ outcome' = outcome
      /\ reply' = reply /\ writing' = writing
  BY DEF Tick, Heartbeat, workerVars, transcriptVars
<1>2. \A r \in Runs : run'[r].status = run[r].status
                      /\ run'[r].current_attempt = run[r].current_attempt
  <2>1. CASE Tick
    BY <2>1 DEF Tick, Moved
  <2>2. CASE \E w \in Workers : Heartbeat(w)
    BY <2>2 DEF Heartbeat
  <2> QED BY <2>1, <2>2
<1> QED BY <1>1, <1>2, LoneStays

\* A worker that is not deployed does nothing.
LEMMA UndeployedKeepsLone ==
  ASSUME IInv, TranscriptIInv, LoneInv, NEW u \in Workers,
         \A w \in Workers : w # u => pc[w] = "idle" /\ pc'[w] = "idle",
         NEW w \in Workers, w # u,
         TranscriptWorkerStep(w) \/ CrashInReply(w)
  PROVE  LoneInv'
<1>1. pc[w] = "idle" /\ pc'[w] = "idle" /\ WorkerType
  BY DEF IInv, WorkerInv
<1>2. writing[w] = "nothing"
  BY <1>1 DEF TranscriptIInv, WriterInv
<1>3. ~ CrashInReply(w)
  BY <1>1 DEF CrashInReply, Crash, Goto, WorkerType
<1>4. ~ WriteReply(w) /\ ~ \E result, responded : MissionEnds(w, result, responded)
  BY <1>1, <1>2 DEF WriteReply, MissionEnds, ExecReturn
<1>5. OtherWorkerStep(w)
  BY <1>3, <1>4 DEF TranscriptWorkerStep
<1>6. Summary(w)
  BY <1>5, OtherStepSettles
<1>7. run' = run /\ pc'[u] = pc[u] /\ job'[u] = job[u] /\ outcome'[u] = outcome[u]
  BY <1>1, <1>6 DEF Summary
<1>8. reply' = reply /\ writing' = writing
  BY <1>5 DEF OtherWorkerStep, transcriptVars
<1> QED BY <1>7, <1>8, LoneStays

\* The lone worker's own steps.
LEMMA LoneStep ==
  ASSUME IInv, DbStep, TranscriptIInv, LoneInv, NEW u \in Workers,
         \A w \in Workers : w # u => pc'[w] = "idle",
         TranscriptWorkerStep(u) \/ CrashInReply(u)
  PROVE  LoneInv'
<1>1. ReplyTypes /\ DbType /\ WorkerType
  BY DEF TranscriptIInv, IInv, DbInv, WorkerInv
<1>2. /\ LoneWriter(pc[u], job[u], outcome[u], writing[u], run, reply)
      /\ \A r \in Runs : run[r].status = "COMPLETED" =>
           reply[r].by = run[r].current_attempt
  BY DEF LoneInv
<1>3. ASSUME NEW result \in Outcome \ {"NONE"}, NEW responded \in BOOLEAN,
             MissionEnds(u, result, responded)
      PROVE  LoneInv'
  <2>1. /\ pc[u] = "executing" /\ run' = run /\ reply' = reply /\ job' = job
        /\ writing' = [writing EXCEPT ![u] =
                         ReplyFor(outcome'[u], responded, job[u].number)]
    BY <1>3 DEF MissionEnds, ExecReturn, dbVars
  <2>2. outcome'[u] = "COMPLETED" => writing'[u] # "nothing"
    BY <1>1, <2>1 DEF ReplyTypes, ReplyFor
  <2>3. run[job[u].run].status \notin Ended
    BY <1>2, <2>1 DEF LoneWriter, Active
  <2>4. LoneWriter(pc'[u], job'[u], outcome'[u], writing'[u], run', reply')
    BY <2>1, <2>2, <2>3 DEF LoneWriter
  <2> QED BY <1>2, <2>1, <2>4, LoneKept
<1>4. CASE WriteReply(u)
  <2> DEFINE q == job[u].run
             p == [shows |-> writing[u], by |-> job[u].number]
  <2>1. /\ writing[u] # "nothing" /\ UNCHANGED vars
        /\ reply' = [reply EXCEPT ![q] = p]
    BY <1>4 DEF WriteReply
  <2>2. run' = run /\ pc' = pc /\ job' = job /\ outcome' = outcome
    BY <2>1 DEF vars, dbVars, workerVars
  <2>3. pc[u] = "returned" /\ pc[u] \in ExecutePC
    BY <2>1 DEF TranscriptIInv, WriterInv, ExecutePC
  <2>4. q \in Runs /\ run[q].status \notin Ended
    BY <1>2, <2>3, TokenFacts DEF LoneWriter, Active
  <2>5. p.by = job[u].number
    OBVIOUS
  <2> HIDE DEF p, q
  <2>6. reply'[q] = p /\ \A r \in Runs : r # q => reply'[r] = reply[r]
    BY <1>1, <2>1, <2>4 DEF ReplyTypes
  <2>7. LoneWriter(pc'[u], job'[u], outcome'[u], writing'[u], run', reply')
    BY <2>2, <2>4, <2>5, <2>6 DEF LoneWriter, q
  <2>8. \A r \in Runs : run'[r].status = "COMPLETED" => reply'[r].by = run'[r].current_attempt
    BY <1>2, <2>2, <2>4, <2>6 DEF Ended
  <2> QED BY <2>2, <2>7, <2>8, LoneKept
<1>5. CASE OtherWorkerStep(u)
  <2>1. Summary(u) /\ writing[u] = "nothing" /\ reply' = reply /\ writing' = writing
    BY <1>5, OtherStepSettles DEF OtherWorkerStep, transcriptVars
  <2>2. pc'[u] \in Active => run'[job'[u].run].status \notin Ended
    <3>1. SUFFICES ASSUME pc'[u] \in Active PROVE run'[job'[u].run].status \notin Ended
      OBVIOUS
    <3>2. pc'[u] \in ExecutePC
      BY <3>1 DEF Active, ExecutePC
    <3>3. CASE pc[u] \in ExecutePC /\ job'[u] = job[u] /\ pc[u] \in Active
      <4>1. job[u].run \in Runs /\ run[job[u].run].status \notin Ended
        BY <1>2, <3>3, TokenFacts DEF LoneWriter
      <4> QED BY <2>1, <3>1, <3>3, <4>1 DEF Summary
    <3>4. CASE run' = run /\ run[job'[u].run].status \in OpenStatus
      BY <3>4 DEF OpenStatus, Ended
    <3> QED BY <2>1, <3>1, <3>2, <3>3, <3>4 DEF Summary
  <2>3. (pc'[u] \in {"returned", "finalizing"} /\ outcome'[u] = "COMPLETED") =>
          (run'[job'[u].run].status = "CANCELLED" \/ reply'[job'[u].run].by = job'[u].number)
    <3>1. (pc[u] = "returned" /\ outcome[u] = "COMPLETED") =>
            (run[job[u].run].status = "CANCELLED" \/ reply[job[u].run].by = job[u].number)
      BY <1>2, <2>1 DEF LoneWriter
    <3> QED BY <2>1, <3>1 DEF Summary
  <2>4. LoneWriter(pc'[u], job'[u], outcome'[u], writing'[u], run', reply')
    BY <2>2, <2>3 DEF LoneWriter
  <2>5. ASSUME NEW r \in Runs, run'[r].status = "COMPLETED"
        PROVE  reply'[r].by = run'[r].current_attempt
    <3>1. CASE run[r].status = "COMPLETED"
      BY <1>2, <2>1, <3>1, RunsStay DEF TerminalStatus
    <3>2. CASE run[r].status # "COMPLETED"
      <4>1. /\ pc[u] = "finalizing" /\ r = job[u].run /\ outcome[u] = "COMPLETED"
            /\ run[r].status # "CANCELLED" /\ run'[r].current_attempt = job[u].number
        BY <2>1, <2>5, <3>2 DEF Summary
      <4> QED BY <1>2, <2>1, <4>1 DEF LoneWriter
    <3> QED BY <3>1, <3>2
  <2> QED BY <2>4, <2>5, LoneKept
<1>6. CASE CrashInReply(u)
  <2>1. pc'[u] = "down" /\ run' = run /\ reply' = reply
    BY <1>1, <1>6 DEF CrashInReply, Crash, Goto, dbVars, WorkerType
  <2>2. LoneWriter(pc'[u], job'[u], outcome'[u], writing'[u], run', reply')
    BY <2>1 DEF LoneWriter, Active
  <2> QED BY <1>2, <2>1, <2>2, LoneKept
<1> QED BY <1>3, <1>4, <1>5, <1>6 DEF TranscriptWorkerStep

\* The invariant of a deployment: workers outside it stay where they started,
\* and one worker alone knows what it has written.
OthersIdle == \A w \in Workers \ deployed : pc[w] = "idle"
DeployedIInv ==
  /\ IInv
  /\ TranscriptIInv
  /\ OthersIdle
  /\ Alone => LoneInv

\* Every step of a deployment.
LEMMA DeployedSteps ==
  ASSUME DeployedIInv, [DeployedNext]_deployedVars
  PROVE  DeployedIInv'
<1>1. CASE DeployedNext
  <2>1. /\ TranscriptNext /\ deployed' = deployed
        /\ \A w \in Workers \ deployed : pc'[w] = "idle"
    BY <1>1 DEF DeployedNext
  <2>2. IInv' /\ TranscriptIInv' /\ DbStep
    BY <2>1, TranscriptSteps, NextBelow DEF DeployedIInv
  <2>3. ASSUME Alone PROVE LoneInv'
    <3>1. PICK u \in Workers : deployed = {u}
      BY <2>3 DEF Alone
    <3>2. \A w \in Workers : w # u => pc[w] = "idle" /\ pc'[w] = "idle"
      BY <2>1, <3>1 DEF DeployedIInv, OthersIdle
    <3>3. IInv /\ TranscriptIInv /\ LoneInv
      BY <2>3 DEF DeployedIInv
    <3>4. ASSUME NEW r \in Runs,
                 \/ SubmitWithReply(r) \/ CancelRun(r)
                 \/ CancelRequest(r) \/ CancelRequestDies(r)
                 \/ MarkOutboxPublished(r) /\ UNCHANGED transcriptVars
          PROVE  LoneInv'
      BY <3>2, <3>3, <3>4, ApiKeepsLone
    <3>5. CASE (Tick \/ \E w \in Workers : Heartbeat(w)) /\ UNCHANGED transcriptVars
      BY <3>2, <3>3, <3>5, TimeKeepsLone
    <3>6. ASSUME NEW w \in Workers, TranscriptWorkerStep(w) \/ CrashInReply(w)
          PROVE  LoneInv'
      <4>1. CASE w = u
        BY <2>2, <3>2, <3>3, <3>6, <4>1, LoneStep
      <4>2. CASE w # u
        BY <3>2, <3>3, <3>6, <4>2, UndeployedKeepsLone
      <4> QED BY <4>1, <4>2
    <3> QED BY <2>1, <3>4, <3>5, <3>6 DEF TranscriptNext
  <2>4. Alone' => Alone
    BY <2>1 DEF Alone
  <2> QED BY <2>1, <2>2, <2>3, <2>4 DEF DeployedIInv, OthersIdle
<1>2. CASE UNCHANGED deployedVars
  <2>1. UNCHANGED allVars /\ deployed' = deployed
    BY <1>2 DEF deployedVars
  <2>2. IInv' /\ TranscriptIInv'
    BY <2>1, TranscriptSteps DEF DeployedIInv
  <2>3. /\ run' = run /\ pc' = pc /\ job' = job /\ outcome' = outcome
        /\ reply' = reply /\ writing' = writing
    BY <2>1 DEF allVars, vars, dbVars, workerVars, transcriptVars
  <2>4. OthersIdle' /\ (Alone' => Alone)
    BY <2>1, <2>3 DEF DeployedIInv, OthersIdle, Alone
  <2>5. LoneInv => LoneInv'
    BY <2>3 DEF LoneInv
  <2> QED BY <2>2, <2>4, <2>5 DEF DeployedIInv
<1> QED BY <1>1, <1>2

\* The invariant of a deployment holds in every reachable state.
LEMMA DeployedInvariance == DeployedSpec => []DeployedIInv
<1>1. DeployedInit => DeployedIInv
  <2> SUFFICES ASSUME DeployedInit PROVE DeployedIInv
    OBVIOUS
  <2>1. IInv /\ TranscriptIInv
    BY TranscriptInitHolds DEF DeployedInit
  <2>2. (\A w \in Workers : pc[w] = "idle") /\ \A r \in Runs : run[r].status = "NONE"
    BY DEF DeployedInit, TranscriptInit, Init, NoRun
  <2>3. OthersIdle /\ LoneInv
    BY <2>2 DEF OthersIdle, LoneInv, LoneWriter, Active
  <2> QED BY <2>1, <2>3 DEF DeployedIInv
<1>2. DeployedIInv /\ [DeployedNext]_deployedVars => DeployedIInv'
  BY DeployedSteps
<1> QED BY <1>1, <1>2, PTL DEF DeployedSpec

\* What the reader of the thread finds is the outcome of the run and, with one
\* worker deployed, that of the attempt that completed it: no attempt that died
\* after writing its reply speaks for a later one.
THEOREM ThreadsTellOutcomes == DeployedSpec => []ThreadTellsOutcome
<1>1. DeployedIInv => ThreadTellsOutcome
  <2> SUFFICES ASSUME DeployedIInv PROVE ThreadTellsOutcome
    OBVIOUS
  <2>1. TranscriptInv
    BY IInvGivesTranscript DEF DeployedIInv
  <2>2. LoneReplyOfLastAttempt
    BY DEF DeployedIInv, LoneInv, LoneReplyOfLastAttempt, ReplyOfLastAttempt
  <2> QED BY <2>1, <2>2 DEF ThreadTellsOutcome
<1> QED BY <1>1, DeployedInvariance, PTL

\* With one worker deployed nothing rewrites the reply of a run that has
\* completed or failed: not the worker, which writes only while its run is
\* open or cancelled, nor the cancel request, which replaces only the reply of
\* a cancelled run.
THEOREM LoneRepliesAreFinal == DeployedSpec => LoneReplyStable
<1> DEFINE Stable == Alone => \A r \in Runs :
             run[r].status \in {"COMPLETED", "FAILED"} => reply'[r] = reply[r]
<1>1. ASSUME DeployedIInv, DeployedNext PROVE Stable
  <2>1. SUFFICES ASSUME NEW u \in Workers, deployed = {u}, NEW r \in Runs,
                        run[r].status \in {"COMPLETED", "FAILED"}
                 PROVE  reply'[r] = reply[r]
    BY DEF Alone
  <2>2. /\ IInv /\ TranscriptIInv /\ ReplyTypes /\ LoneInv /\ TranscriptNext
        /\ \A w \in Workers : w # u => pc[w] = "idle"
    BY <1>1, <2>1 DEF DeployedIInv, TranscriptIInv, Alone, OthersIdle, DeployedNext
  <2>3. ASSUME NEW q \in Runs, SubmitWithReply(q) PROVE reply'[r] = reply[r]
    <3>1. run[q].status = "NONE" /\ reply' = [reply EXCEPT ![q] = Pending]
      BY <2>3 DEF SubmitWithReply, Submit
    <3> QED BY <2>1, <2>2, <3>1 DEF ReplyTypes
  <2>4. ASSUME NEW q \in Runs, ReplacePlaceholder(q) PROVE reply'[r] = reply[r]
    <3>1. /\ canceller[q] = "replacing"
          /\ reply' = [reply EXCEPT ![q] = [shows |-> "warning", by |-> 0]]
      BY <2>4 DEF ReplacePlaceholder
    <3>2. run[q].status = "CANCELLED"
      BY <2>2, <3>1 DEF TranscriptIInv, RunReply
    <3> QED BY <2>1, <2>2, <3>1, <3>2 DEF ReplyTypes
  <2>5. ASSUME NEW w \in Workers, WriteReply(w) PROVE reply'[r] = reply[r]
    <3>1. /\ writing[w] # "nothing"
          /\ reply' = [reply EXCEPT ![job[w].run] =
                         [shows |-> writing[w], by |-> job[w].number]]
      BY <2>5 DEF WriteReply
    <3>2. pc[w] = "returned"
      BY <2>2, <3>1 DEF TranscriptIInv, WriterInv
    <3>3. w = u
      BY <2>2, <3>2
    <3>4. LoneWriter(pc[u], job[u], outcome[u], writing[u], run, reply)
      BY <2>2 DEF LoneInv
    <3>5. run[job[w].run].status \notin Ended
      BY <3>2, <3>3, <3>4 DEF LoneWriter, Active
    <3>6. r # job[w].run
      BY <2>1, <3>5 DEF Ended
    <3> QED BY <2>2, <3>1, <3>6 DEF ReplyTypes
  <2>6. CASE reply' = reply
    BY <2>6
  <2> QED BY <2>2, <2>3, <2>4, <2>5, <2>6
          DEF TranscriptNext, CancelRun, CancelRequest, ReadPlaceholder, CancelRequestDies,
              TranscriptWorkerStep, MissionEnds, OtherWorkerStep, CrashInReply,
              transcriptVars
<1>2. ASSUME UNCHANGED deployedVars PROVE Stable
  BY <1>2 DEF deployedVars, allVars, transcriptVars
<1>3. DeployedIInv /\ [DeployedNext]_deployedVars => [Stable]_deployedVars
  BY <1>1, <1>2
<1> QED BY <1>3, DeployedInvariance, PTL DEF DeployedSpec, LoneReplyStable
=============================================================================
