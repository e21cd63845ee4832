----------------------------- MODULE MemoryRuns -----------------------------
(***************************************************************************)
(* The in-memory run repository (conversations/memory.py                   *)
(* InMemoryRunRepository), on which development servers and the test suite *)
(* run, as operators on the rows of one run: each method maps the rows it  *)
(* finds to the rows it leaves.  BackendsAgree compares them with the      *)
(* transactions of PostgresRunRepository on every step of module RunQueue. *)
(***************************************************************************)
EXTENDS RunQueue, FiniteSetsExt

Rows(r) == [run |-> run[r], attempts |-> attempt[r], log |-> events[r],
            outbox |-> outbox[r]]

Known(d) == {n \in AttemptNumber : d.attempts[n].status # "NONE"}
Settled(d) == IF d.outbox = "absent" THEN "absent" ELSE "published"
Holds(d, t, worker) ==
  /\ d.attempts[t.number].status = "RUNNING"
  /\ d.attempts[t.number].worker = worker
  /\ d.attempts[t.number].version = t.version

\* append_event: an id that is there already is not added again.
append_event(d, e) ==
  [d EXCEPT !.log = IF e \in {d.log[i] : i \in DOMAIN d.log} THEN d.log
                    ELSE Append(d.log, e)]

compare_and_set_status(d, expected, new) ==
  IF d.run.status \in expected THEN [d EXCEPT !.run.status = new] ELSE d

\* claim looks at the last attempt only.
claim_First(d, worker) ==
  IF Known(d) = {} THEN d ELSE
  LET n == Min(Known(d)) IN
  IF d.attempts[n].status = "RETRYABLE"
       \/ (d.attempts[n].status = "RUNNING" /\ d.attempts[n].lease = 0)
  THEN [d EXCEPT !.attempts[n] = [status |-> "RUNNING", worker |-> worker,
                                  lease |-> LeaseS, version |-> @.version + 1]]
  ELSE d
claim(d, worker) ==
  IF Known(d) = {} THEN d ELSE
  LET n == Max(Known(d)) IN
  IF d.attempts[n].status = "RETRYABLE"
       \/ (d.attempts[n].status = "RUNNING" /\ d.attempts[n].lease = 0)
  THEN [d EXCEPT !.attempts[n] = [status |-> "RUNNING", worker |-> worker,
                                  lease |-> LeaseS, version |-> @.version + 1]]
  ELSE d

heartbeat(d, t, worker) ==
  IF Holds(d, t, worker) /\ d.attempts[t.number].lease > 0
  THEN [d EXCEPT !.attempts[t.number].lease = LeaseS] ELSE d

\* finalize_attempt: a cancelled run stays cancelled, one that is over refuses.
finalize_attempt(d, t, worker, requested) ==
  LET final == IF d.run.status = "CANCELLED" THEN "CANCELLED" ELSE requested
      e == [type |-> TerminalEventType(final), attempt |-> t.number]
      there == \E i \in DOMAIN d.log :
                 d.log[i] = e \/ (final = "CANCELLED" /\ d.log[i].type = "run.cancelled")
  IN IF ~Holds(d, t, worker) \/ d.run.status \in {"COMPLETED", "FAILED"} THEN d
     ELSE [run |-> [d.run EXCEPT !.status = final, !.retry_wait = 0],
           attempts |-> [d.attempts EXCEPT ![t.number] = Closed(@, final)],
           log |-> IF there THEN d.log ELSE Append(d.log, e),
           outbox |-> Settled(d)]

\* transition_failed_attempt, behind its fence.  Unlike the SQL it does not ask
\* again whether the run is still open when it fails or requeues it.
transition_failed_attempt(d, n, delay) ==
  IF d.run.status = "CANCELLED"
  THEN [d EXCEPT !.attempts[n] = Closed(@, "CANCELLED")]
  ELSE IF n >= MaxAttempts
  THEN [append_event(d, [type |-> "run.failed", attempt |-> n])
          EXCEPT !.attempts[n] = Closed(@, "FAILED"), !.outbox = Settled(d),
                 !.run.status = "FAILED", !.run.retry_wait = 0]
  ELSE [d EXCEPT !.attempts[n] = Closed(@, "FAILED"),
                 !.attempts[n + 1] = IF @.status = "NONE" THEN NewAttempt ELSE @,
                 !.run = [status |-> "QUEUED", current_attempt |-> n + 1,
                          retry_count |-> Min({@.retry_count + 1, MaxAttempts - 1}),
                          retry_wait |-> delay]]

cancel(d) ==
  IF d.run.status \in TerminalStatus THEN d
  ELSE [append_event(d, [type |-> "run.cancelled", attempt |-> 0])
          EXCEPT !.run.status = "CANCELLED", !.outbox = Settled(d),
                 !.attempts = [n \in AttemptNumber |->
                                 IF @[n].status \in LiveStatus
                                 THEN Closed(@[n], "CANCELLED") ELSE @[n]]]

\* list_recoverable: attempts to retry, and running ones whose lease is over.
list_recoverable(d) ==
  {n \in Known(d) :
     /\ d.run.status \in OpenStatus /\ d.run.retry_wait = 0
     /\ \/ d.attempts[n].status = "RETRYABLE"
        \/ d.attempts[n].status = "RUNNING" /\ d.attempts[n].lease = 0}

-----------------------------------------------------------------------------
\* What each Postgres transaction of this step leaves is what the in-memory
\* method leaves of the same rows.
SameEffect(w, t, r) ==
  /\ Claim(w) => Rows(r)' = claim(Rows(r), WorkerId[w])
  /\ Heartbeat(w) => Rows(r)' = heartbeat(Rows(r), t, WorkerId[w])
  /\ ExecEnterRunning(w) => Rows(r)' = compare_and_set_status(Rows(r), {"QUEUED"}, "RUNNING")
  /\ ExecEmitStarted(w) =>
       Rows(r)' = append_event(Rows(r), [type |-> "run.started", attempt |-> t.number])
  /\ FinalizeCommit(w) => Rows(r)' =
         finalize_attempt(Rows(r), t, WorkerId[w], outcome[w])
  /\ FailAttempt(w) =>
       IF Holds(Rows(r), t, WorkerId[w])
       THEN \E delay \in 0..MaxBackoff :
              Rows(r)' = transition_failed_attempt(Rows(r), t.number, delay)
       ELSE Rows(r)' = Rows(r)
  /\ RecoverAttempt(w) =>
       \A q \in Runs : Rows(q)' # Rows(q) =>
         \E n \in AttemptNumber, delay \in 0..MaxBackoff :
            Rows(q)' = transition_failed_attempt(Rows(q), n, delay)
  /\ ListCandidates(w) =>
       candidates'[w] = {q \in Runs : \E n \in list_recoverable(Rows(q)) :
                                        attempt[q][n].status = "RETRYABLE"}

\* The two repositories are interchangeable: a test that passes on the
\* in-memory one has exercised what production does.  This rests on facts the
\* rows keep, not on the code being the same: the last attempt is the only one
\* that can be claimed, and a running attempt's run is never already over
\* unless it was cancelled.
BackendsAgree ==
  [][/\ \A w \in Workers : \A t \in {job[w]}, r \in Runs :
          r = t.run \/ t.run \notin Runs => SameEffect(w, t, r)
     /\ \A r \in Runs : Cancel(r) => Rows(r)' = cancel(Rows(r))]_vars

=============================================================================
