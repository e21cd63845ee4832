--------------------------- MODULE RunQueueProofs ---------------------------
(***************************************************************************)
(* Machine-checked proofs about RunQueue, for any number of runs, workers  *)
(* and attempts, any lease and backoff lengths, any number of crashes, and *)
(* any assignment of worker ids (all workers may share one). Then that the *)
(* repository in memory decides alike (MemoryRuns), and that the drives of *)
(* one process (InProcessQueue) work this queue and leave no run behind.   *)
(***************************************************************************)
EXTENDS MemoryRuns, InProcessQueue, TLAPS

\* A worker busy with an attempt holds a token no newer than the attempt row,
\* and no two workers hold the same token: claim issues a fresh version.
TokensMatch ==
  /\ \A w \in Workers :
       /\ pc[w] = "checked" => job[w].run \in Runs
       /\ pc[w] \in ExecutePC =>
            /\ job[w] \in Token
            /\ job[w].version <= attempt[job[w].run][job[w].number].version
  /\ \A v, w \in Workers :
       pc[v] \in ExecutePC /\ pc[w] \in ExecutePC /\ job[v] = job[w] => v = w

\* Whoever reports more than a cancellation has emitted run.started first.
StartedEvent(n) == [type |-> "run.started", attempt |-> n]
HasEvent(log, e) == \E i \in DOMAIN log : log[i] = e
OutcomeOK(label, n, result, log) ==
  /\ label = "returned" => result # "NONE"
  /\ label = "finalizing" => result \in TerminalStatus
  /\ label = "executing" => HasEvent(log, StartedEvent(n))
  /\ label \in {"returned", "finalizing"} /\ result # "CANCELLED" =>
       HasEvent(log, StartedEvent(n))
OutcomesMatch ==
  \A w \in Workers : pc[w] \in ExecutePC =>
    OutcomeOK(pc[w], job[w].number, outcome[w], events[job[w].run])

\* What the rows of one run satisfy together: its runs row rr, its attempts
\* at, its event log ev and its outbox row ob.
RowType(rr, at, ev, ob) ==
  /\ rr \in RunRow
  /\ at \in [AttemptNumber -> AttemptRow]
  /\ ev \in Seq(Event)
  /\ ob \in {"absent", "pending", "published"}

AttemptsRow(rr, at) ==
  LET cur == rr.current_attempt IN
  /\ rr.status = "NONE" <=> cur = 0
  /\ \A n \in AttemptNumber : n < cur => at[n].status = "FAILED"
  /\ \A n \in AttemptNumber : n > cur => at[n] = NoAttempt
  /\ rr.status \in OpenStatus => at[cur].status \in LiveStatus
  /\ rr.status \in TerminalStatus => at[cur].status = rr.status
  /\ cur > 0 => rr.retry_count = cur - 1

\* A closed attempt has no lease left to run out.
LeasesRow(at) ==
  \A n \in AttemptNumber : at[n].status \in TerminalStatus => at[n].lease = 0

EventsRow(rr, ev) ==
  /\ rr.status \in TerminalStatus => \E i \in DOMAIN ev : IsTerminal(ev[i])
  /\ \A i \in DOMAIN ev : IsTerminal(ev[i]) =>
       /\ rr.status \in TerminalStatus
       /\ ev[i].type = TerminalEventType(rr.status)
       /\ \/ ev[i].attempt = rr.current_attempt
          \/ ev[i].attempt = 0 /\ rr.status = "CANCELLED"
  /\ \A i, j \in DOMAIN ev : IsTerminal(ev[i]) /\ IsTerminal(ev[j]) => i = j

OutboxRow(rr, ob) ==
  /\ ob = "absent" => rr.status = "NONE"
  /\ rr.status \in TerminalStatus => ob = "published"

StartedRow(ev) ==
  \A i \in DOMAIN ev : ev[i].type = "run.completed" =>
    \E j \in 1..(i - 1) :
      ev[j] = [type |-> "run.started", attempt |-> ev[i].attempt]

RowInv(rr, at, ev, ob) ==
  /\ RowType(rr, at, ev, ob)
  /\ AttemptsRow(rr, at)
  /\ LeasesRow(at)
  /\ EventsRow(rr, ev)
  /\ OutboxRow(rr, ob)
  /\ StartedRow(ev)

\* What a transaction may do to the rows of one run: fencing tokens are never
\* taken back, closed attempts and finished runs never touched, events never
\* erased, and a run is open before it ends.
RunAdvances(rr, rr2, ev, ev2) ==
  /\ rr.status \in TerminalStatus =>
       /\ rr2.status = rr.status
       /\ rr2.current_attempt = rr.current_attempt
  /\ rr.status = "NONE" => rr2.status \in {"NONE", "QUEUED"}
  /\ rr.status \in OpenStatus => rr2.status # "NONE"
  /\ \A e \in Event : HasEvent(ev, e) => HasEvent(ev2, e)

AttemptsAdvance(at, at2) ==
  \A n \in AttemptNumber :
    /\ at[n].status \in TerminalStatus => at2[n] = at[n]
    /\ at2[n].version >= at[n].version
    /\ at2[n].worker # at[n].worker => at2[n].version > at[n].version

\* The inductive invariant: what the tables satisfy, and what the workers'
\* local state satisfies with respect to the tables.
DbType ==
  /\ run \in [Runs -> RunRow]
  /\ attempt \in [Runs -> [AttemptNumber -> AttemptRow]]
  /\ events \in [Runs -> Seq(Event)]
  /\ outbox \in [Runs -> {"absent", "pending", "published"}]

DbInv ==
  /\ DbType
  /\ \A r \in Runs : RowInv(run[r], attempt[r], events[r], outbox[r])

WorkerType ==
  /\ pc \in [Workers -> PC]
  /\ job \in [Workers -> [run: Runs \cup {"none"}, number: 0..MaxAttempts,
                          version: Nat]]
  /\ expired \in [Workers -> SUBSET Token]
  /\ candidates \in [Workers -> SUBSET Runs]
  /\ outcome \in [Workers -> Outcome]
  /\ hb \in [Workers -> {"off", "on", "lost"}]
  /\ crashes \in 0..MaxCrashes

WorkerInv == WorkerType /\ TokensMatch /\ OutcomesMatch

IInv == DbInv /\ WorkerInv

\* A step of the tables: each run's rows advance, and at most one run's status
\* and log change.
Touched(r) == run'[r].status # run[r].status \/ events'[r] # events[r]
DbStep ==
  /\ DbType'
  /\ \A r \in Runs :
       /\ RowInv(run[r], attempt[r], events[r], outbox[r])'
       /\ RunAdvances(run[r], run'[r], events[r], events'[r])
       /\ AttemptsAdvance(attempt[r], attempt'[r])
  /\ \A p, q \in Runs : Touched(p) /\ Touched(q) => p = q

-----------------------------------------------------------------------------
\* Facts about the operators of the repository

\* The retry delays that _next_attempt draws are natural numbers.
LEMMA BackoffNat ==
  ASSUME NEW n, NEW d \in Backoff(n)
  PROVE  d \in Nat
BY LimitsAssumption DEF Backoff

\* Inserting an event keeps every event of the log where it is and adds at
\* most the new one, at the end.
LEMMA InsertedFacts ==
  ASSUME NEW log \in Seq(Event), NEW e \in Event
  PROVE  /\ Inserted(log, e) \in Seq(Event)
         /\ DOMAIN log \subseteq DOMAIN Inserted(log, e)
         /\ \A i \in DOMAIN log : Inserted(log, e)[i] = log[i]
         /\ \A i \in DOMAIN Inserted(log, e) :
              i \notin DOMAIN log => /\ Inserted(log, e)[i] = e
                                     /\ i = Len(log) + 1
         /\ HasEvent(Inserted(log, e), e)
<1>1. CASE \E i \in DOMAIN log : log[i] = e
  BY <1>1 DEF Inserted, HasEvent
<1>2. CASE ~ \E i \in DOMAIN log : log[i] = e
  <2>1. Inserted(log, e) = Append(log, e)
    BY <1>2 DEF Inserted
  <2>2. /\ Append(log, e) \in Seq(Event)
        /\ DOMAIN Append(log, e) = 1..(Len(log) + 1)
        /\ DOMAIN log = 1..Len(log)
        /\ Len(log) \in Nat
        /\ \A i \in 1..Len(log) : Append(log, e)[i] = log[i]
        /\ Append(log, e)[Len(log) + 1] = e
    OBVIOUS
  <2> QED BY <2>1, <2>2 DEF HasEvent
<1> QED BY <1>1, <1>2

\* The positions of a log are numbers, and what they hold are events.
LEMMA IndexIsNat ==
  ASSUME NEW log \in Seq(Event), NEW i \in DOMAIN log
  PROVE  i \in Nat \ {0} /\ i <= Len(log) /\ log[i] \in Event /\ Len(log) \in Nat
OBVIOUS

\* Events

\* While a run stays open, its log needs no terminal event.
LEMMA EventsUnended ==
  ASSUME NEW rr, NEW rr2, NEW ev \in Seq(Event), EventsRow(rr, ev),
         rr.status \notin TerminalStatus, rr2.status \notin TerminalStatus
  PROVE  EventsRow(rr2, ev)
BY DEF EventsRow

\* A run.started event does not disturb what the log says of the end.
LEMMA EventsStarted ==
  ASSUME NEW rr, NEW ev \in Seq(Event), EventsRow(rr, ev),
         NEW e \in Event, e.type = "run.started"
  PROVE  EventsRow(rr, Inserted(ev, e))
<1> DEFINE ev2 == Inserted(ev, e)
<1>1. ~ IsTerminal(e)
  BY DEF IsTerminal, TerminalType
<1>2. \A i \in DOMAIN ev2 : IsTerminal(ev2[i]) => i \in DOMAIN ev /\ ev2[i] = ev[i]
  BY <1>1, InsertedFacts
<1>3. \A i \in DOMAIN ev : i \in DOMAIN ev2 /\ ev2[i] = ev[i]
  BY InsertedFacts
<1> HIDE DEF ev2
<1>4. EventsRow(rr, ev2)
  BY <1>2, <1>3 DEF EventsRow
<1> QED BY <1>4 DEF ev2

\* The transaction that ends a run appends its first terminal event.
LEMMA EventsEnded ==
  ASSUME NEW rr, NEW rr2, NEW ev \in Seq(Event), EventsRow(rr, ev),
         rr.status \notin TerminalStatus, rr2.status \in TerminalStatus,
         NEW e \in Event, e.type = TerminalEventType(rr2.status),
         \/ e.attempt = rr2.current_attempt
         \/ e.attempt = 0 /\ rr2.status = "CANCELLED"
  PROVE  EventsRow(rr2, Inserted(ev, e))
<1> DEFINE ev2 == Inserted(ev, e)
<1>1. IsTerminal(e)
  BY DEF IsTerminal, TerminalType, TerminalEventType, TerminalStatus
<1>2. \A i \in DOMAIN ev : ~ IsTerminal(ev[i])
  BY DEF EventsRow
<1>3. \A i \in DOMAIN ev2 : IsTerminal(ev2[i]) => ev2[i] = e /\ i = Len(ev) + 1
  BY <1>2, InsertedFacts
<1>4. \E i \in DOMAIN ev2 : ev2[i] = e
  BY InsertedFacts DEF HasEvent
<1> HIDE DEF ev2
<1>5. EventsRow(rr2, ev2)
  BY <1>1, <1>3, <1>4 DEF EventsRow
<1> QED BY <1>5 DEF ev2

\* An inserted event keeps starts before completions.
LEMMA StartedKept ==
  ASSUME NEW ev \in Seq(Event), StartedRow(ev), NEW e \in Event,
         e.type = "run.completed" =>
           HasEvent(ev, [type |-> "run.started", attempt |-> e.attempt])
  PROVE  StartedRow(Inserted(ev, e))
<1> DEFINE ev2 == Inserted(ev, e)
<1>1. \A i \in DOMAIN ev : i \in Nat \ {0} /\ i <= Len(ev)
  BY IndexIsNat
<1>2. /\ \A i \in DOMAIN ev : i \in DOMAIN ev2 /\ ev2[i] = ev[i]
      /\ \A i \in DOMAIN ev2 : i \notin DOMAIN ev => ev2[i] = e /\ i = Len(ev) + 1
      /\ Len(ev) \in Nat
      /\ DOMAIN ev = 1..Len(ev)
  BY InsertedFacts
<1> HIDE DEF ev2
<1> SUFFICES ASSUME NEW i \in DOMAIN ev2, ev2[i].type = "run.completed"
             PROVE  \E j \in 1..(i - 1) :
                      ev2[j] = [type |-> "run.started", attempt |-> ev2[i].attempt]
  BY DEF StartedRow, ev2
<1>3. CASE i \in DOMAIN ev
  <2>1. PICK j \in 1..(i - 1) :
          ev[j] = [type |-> "run.started", attempt |-> ev[i].attempt]
    BY <1>2, <1>3 DEF StartedRow
  <2>2. j \in DOMAIN ev
    BY <1>1, <1>2, <1>3
  <2> QED BY <1>2, <1>3, <2>1, <2>2
<1>4. CASE i \notin DOMAIN ev
  <2>1. ev2[i] = e /\ i = Len(ev) + 1
    BY <1>2, <1>4
  <2>2. PICK j \in DOMAIN ev :
          ev[j] = [type |-> "run.started", attempt |-> e.attempt]
    BY <2>1 DEF HasEvent
  <2>3. j \in 1..(i - 1)
    BY <1>1, <1>2, <2>1
  <2> QED BY <1>2, <2>1, <2>2, <2>3
<1> QED BY <1>3, <1>4

\* append_event never takes an event away.
LEMMA EventsNotErased ==
  ASSUME NEW ev \in Seq(Event), NEW e \in Event, NEW d \in Event,
         HasEvent(ev, d)
  PROVE  HasEvent(Inserted(ev, e), d)
BY InsertedFacts DEF HasEvent

-----------------------------------------------------------------------------
\* The rows of one run

\* Only the current attempt of an open run is live: whoever passes a fence
\* works for the current attempt of a run that is not over.
LEMMA LiveIsCurrent ==
  ASSUME NEW rr \in RunRow, NEW at \in [AttemptNumber -> AttemptRow],
         AttemptsRow(rr, at),
         NEW n \in AttemptNumber, at[n].status \in LiveStatus
  PROVE  rr.status \in OpenStatus /\ n = rr.current_attempt
<1>1. n \in Nat /\ rr.current_attempt \in Nat
  BY LimitsAssumption DEF AttemptNumber, RunRow
<1>2. ~ (n < rr.current_attempt) /\ ~ (n > rr.current_attempt)
  BY DEF AttemptsRow, LiveStatus, NoAttempt
<1>3. n = rr.current_attempt
  BY <1>1, <1>2
<1>4. rr.status \notin TerminalStatus
  BY <1>3 DEF AttemptsRow, LiveStatus, TerminalStatus
<1>5. rr.status # "NONE"
  BY <1>1, <1>3, LimitsAssumption DEF AttemptsRow, AttemptNumber
<1> QED BY <1>3, <1>4, <1>5 DEF RunRow, RunStatus

\* Changing the current attempt into another live row (claim, heartbeat).
LEMMA AttemptsStillLive ==
  ASSUME NEW rr \in RunRow, NEW at \in [AttemptNumber -> AttemptRow],
         AttemptsRow(rr, at),
         NEW n \in AttemptNumber, at[n].status \in LiveStatus,
         NEW a \in AttemptRow, a.status \in LiveStatus
  PROVE  AttemptsRow(rr, [at EXCEPT ![n] = a])
<1>1. rr.status \in OpenStatus /\ n = rr.current_attempt
  BY LiveIsCurrent
<1> QED BY <1>1, LimitsAssumption
        DEF AttemptsRow, OpenStatus, TerminalStatus, AttemptNumber

\* Ending the run with its current attempt (finalize, last failure, cancel).
LEMMA AttemptsEnded ==
  ASSUME NEW rr \in RunRow, NEW at \in [AttemptNumber -> AttemptRow],
         AttemptsRow(rr, at),
         NEW n \in AttemptNumber, at[n].status \in LiveStatus,
         NEW rr2 \in RunRow, rr2.status \in TerminalStatus,
         rr2.current_attempt = rr.current_attempt,
         rr2.retry_count = rr.retry_count,
         NEW a \in AttemptRow, a.status = rr2.status
  PROVE  AttemptsRow(rr2, [at EXCEPT ![n] = a])
<1>1. rr.status \in OpenStatus /\ n = rr.current_attempt
  BY LiveIsCurrent
<1> QED BY <1>1, LimitsAssumption
        DEF AttemptsRow, OpenStatus, TerminalStatus, AttemptNumber

\* Queueing the run again behind the next attempt.
LEMMA AttemptsRetried ==
  ASSUME NEW rr \in RunRow, NEW at \in [AttemptNumber -> AttemptRow],
         AttemptsRow(rr, at),
         NEW n \in AttemptNumber, n < MaxAttempts,
         at[n].status \in LiveStatus,
         NEW rr2 \in RunRow, rr2.status = "QUEUED",
         rr2.current_attempt = n + 1, rr2.retry_count = rr.retry_count + 1,
         NEW a \in AttemptRow, a.status = "FAILED"
  PROVE  AttemptsRow(rr2, [at EXCEPT ![n] = a, ![n + 1] = NewAttempt])
<1>1. rr.status \in OpenStatus /\ n = rr.current_attempt
  BY LiveIsCurrent
<1>2. n \in Nat /\ n > 0 /\ n + 1 \in AttemptNumber
  BY LimitsAssumption DEF AttemptNumber
<1>3. rr.retry_count = n - 1 /\ rr.retry_count \in Nat
  BY <1>1, <1>2 DEF AttemptsRow, RunRow
<1> DEFINE at2 == [at EXCEPT ![n] = a, ![n + 1] = NewAttempt]
<1>4. /\ at2[n + 1] = NewAttempt
      /\ at2[n] = a
      /\ \A m \in AttemptNumber : m # n /\ m # n + 1 => at2[m] = at[m]
  BY <1>2
<1> HIDE DEF at2
<1>5. \A m \in AttemptNumber : m < n + 1 => at2[m].status = "FAILED"
  BY <1>1, <1>2, <1>4, LimitsAssumption DEF AttemptsRow, AttemptNumber
<1>6. \A m \in AttemptNumber : m > n + 1 => at2[m] = NoAttempt
  BY <1>1, <1>2, <1>4, LimitsAssumption DEF AttemptsRow, AttemptNumber
<1>7. at2[n + 1].status \in LiveStatus
  BY <1>4 DEF NewAttempt, LiveStatus
<1>8. AttemptsRow(rr2, at2)
  BY <1>2, <1>3, <1>5, <1>6, <1>7 DEF AttemptsRow, OpenStatus, TerminalStatus
<1> QED BY <1>8 DEF at2

\* A live attempt may be replaced by a row with a newer token, or by one that
\* keeps its token and its worker.
LEMMA AttemptAdvances ==
  ASSUME NEW at \in [AttemptNumber -> AttemptRow],
         NEW n \in AttemptNumber, at[n].status \in LiveStatus,
         NEW a \in AttemptRow,
         \/ a.version > at[n].version
         \/ a.version = at[n].version /\ a.worker = at[n].worker
  PROVE  AttemptsAdvance(at, [at EXCEPT ![n] = a])
<1>1. \A m \in AttemptNumber : at[m] \in AttemptRow /\ at[m].version \in Nat
  BY DEF AttemptRow
<1>2. a.version \in Nat
  BY DEF AttemptRow
<1> QED BY <1>1, <1>2 DEF AttemptsAdvance, LiveStatus, TerminalStatus

\* What closing an attempt row changes.
LEMMA ClosedFacts ==
  ASSUME NEW a \in AttemptRow, NEW status \in AttemptStatus
  PROVE  /\ Closed(a, status) \in AttemptRow
         /\ Closed(a, status).status = status
         /\ Closed(a, status).lease = 0
         /\ Closed(a, status).version > a.version
BY DEF Closed, AttemptRow

-----------------------------------------------------------------------------
\* The transactions: each is a step of the tables

\* Rows that do not change advance.
LEMMA NoAdvance ==
  ASSUME NEW at \in [AttemptNumber -> AttemptRow]
  PROVE  AttemptsAdvance(at, at)
<1>1. \A n \in AttemptNumber : at[n] \in AttemptRow /\ at[n].version \in Nat
  BY DEF AttemptRow
<1> QED BY <1>1 DEF AttemptsAdvance

\* A step that writes nothing is a step of the database.
LEMMA DbUnchanged ==
  ASSUME DbInv, UNCHANGED dbVars
  PROVE  DbStep
<1>1. /\ run' = run /\ attempt' = attempt /\ events' = events /\ outbox' = outbox
  BY DEF dbVars
<1>2. DbType'
  BY <1>1 DEF DbInv, DbType
<1>3. \A r \in Runs : RowInv(run[r], attempt[r], events[r], outbox[r])'
  BY <1>1 DEF DbInv
<1>4. \A r \in Runs : RunAdvances(run[r], run'[r], events[r], events'[r])
  BY <1>1 DEF RunAdvances, OpenStatus
<1>5. \A r \in Runs : AttemptsAdvance(attempt[r], attempt'[r])
  BY <1>1, NoAdvance DEF DbInv, DbType
<1> QED BY <1>1, <1>2, <1>3, <1>4, <1>5 DEF DbStep, Touched

\* A transaction on the rows of one run leaves the other runs alone.
LEMMA OneRun ==
  ASSUME DbInv, NEW r \in Runs, DbType',
         \A q \in Runs : q # r =>
           /\ run'[q] = run[q] /\ attempt'[q] = attempt[q]
           /\ events'[q] = events[q] /\ outbox'[q] = outbox[q],
         RowInv(run[r], attempt[r], events[r], outbox[r])',
         RunAdvances(run[r], run'[r], events[r], events'[r]),
         AttemptsAdvance(attempt[r], attempt'[r])
  PROVE  DbStep
<1>1. \A q \in Runs : RowInv(run[q], attempt[q], events[q], outbox[q])'
  BY DEF DbInv
<1>2. \A q \in Runs : RunAdvances(run[q], run'[q], events[q], events'[q])
  BY DEF RunAdvances, OpenStatus
<1>3. \A q \in Runs : AttemptsAdvance(attempt[q], attempt'[q])
  BY NoAdvance DEF DbInv, DbType
<1>4. \A p, q \in Runs : Touched(p) /\ Touched(q) => p = q
  BY DEF Touched
<1> QED BY <1>1, <1>2, <1>3, <1>4 DEF DbStep

\* The rows of one run, with their types.
LEMMA RowFacts ==
  ASSUME DbInv, NEW r \in Runs
  PROVE  /\ run[r] \in RunRow
         /\ attempt[r] \in [AttemptNumber -> AttemptRow]
         /\ events[r] \in Seq(Event)
         /\ outbox[r] \in {"absent", "pending", "published"}
         /\ AttemptsRow(run[r], attempt[r])
         /\ LeasesRow(attempt[r])
         /\ EventsRow(run[r], events[r])
         /\ OutboxRow(run[r], outbox[r])
         /\ StartedRow(events[r])
BY DEF DbInv, RowInv, RowType

\* What moving a run row changes.
LEMMA MovedFacts ==
  ASSUME NEW rr \in RunRow, NEW status \in RunStatus, NEW wait \in Nat
  PROVE  /\ Moved(rr, status, wait) \in RunRow
         /\ Moved(rr, status, wait).status = status
         /\ Moved(rr, status, wait).current_attempt = rr.current_attempt
         /\ Moved(rr, status, wait).retry_count = rr.retry_count
BY DEF Moved, RunRow

\* What writing a lease changes.
LEMMA LeasedFacts ==
  ASSUME NEW a \in AttemptRow, NEW lease \in Nat
  PROVE  /\ Leased(a, lease) \in AttemptRow
         /\ Leased(a, lease).status = a.status
         /\ Leased(a, lease).worker = a.worker
         /\ Leased(a, lease).version = a.version
BY DEF Leased, AttemptRow

\* A step that changes neither whether the run is over nor its log.
LEMMA SameAdvances ==
  ASSUME NEW rr, NEW rr2, NEW ev, rr2.status = rr.status,
         rr2.current_attempt = rr.current_attempt
  PROVE  RunAdvances(rr, rr2, ev, ev)
BY DEF RunAdvances, OpenStatus

\* submit_message's transaction keeps the database invariant.
LEMMA SubmitStep ==
  ASSUME DbInv, NEW r \in Runs, Submit(r)
  PROVE  DbStep
<1> DEFINE rr2 == [status |-> "QUEUED", current_attempt |-> 1,
                   retry_count |-> 0, retry_wait |-> 0]
           at2 == [attempt[r] EXCEPT ![1] = NewAttempt]
<1>1. 1 \in AttemptNumber /\ NewAttempt \in AttemptRow /\ rr2 \in RunRow
  BY LimitsAssumption DEF AttemptNumber, NewAttempt, AttemptRow, AttemptStatus,
     LiveStatus, RunRow, RunStatus, OpenStatus
<1>2. /\ run'[r] = rr2 /\ attempt'[r] = at2
      /\ events'[r] = events[r] /\ outbox'[r] = "pending"
      /\ \A q \in Runs : q # r =>
           /\ run'[q] = run[q] /\ attempt'[q] = attempt[q]
           /\ events'[q] = events[q] /\ outbox'[q] = outbox[q]
      /\ run[r].status = "NONE"
  BY DEF Submit, DbInv, DbType
<1>3. DbType'
  BY <1>1 DEF Submit, DbInv, DbType
<1>4. /\ run[r].current_attempt = 0
      /\ \A n \in AttemptNumber : attempt[r][n] = NoAttempt
  BY <1>2, RowFacts, LimitsAssumption DEF AttemptsRow, AttemptNumber
<1>5. AttemptsRow(rr2, at2)
  BY <1>1, <1>4, RowFacts, LimitsAssumption
     DEF AttemptsRow, AttemptNumber, NewAttempt, LiveStatus, OpenStatus,
         TerminalStatus
<1>6. EventsRow(rr2, events[r])
  BY <1>2, RowFacts, EventsUnended DEF TerminalStatus
<1>7. OutboxRow(rr2, "pending")
  BY DEF OutboxRow, TerminalStatus
<1>8. AttemptsAdvance(attempt[r], at2)
  BY <1>1, <1>4, RowFacts DEF AttemptsAdvance, NoAttempt, NewAttempt,
     TerminalStatus
<1>9. RunAdvances(run[r], rr2, events[r], events[r])
  BY <1>2 DEF RunAdvances, TerminalStatus, OpenStatus
<1>10. LeasesRow(at2)
  BY <1>1, <1>4, RowFacts DEF LeasesRow, NoAttempt, NewAttempt, TerminalStatus
<1>11. RowInv(run[r], attempt[r], events[r], outbox[r])'
  BY <1>2, <1>3, <1>5, <1>6, <1>7, <1>10, RowFacts DEF RowInv, RowType, DbType
<1> HIDE DEF rr2, at2
<1> QED BY <1>2, <1>3, <1>8, <1>9, <1>11, OneRun

\* So does marking the outbox row.
LEMMA PublishStep ==
  ASSUME DbInv, NEW r \in Runs, MarkOutboxPublished(r)
  PROVE  DbStep
<1>1. /\ run' = run /\ attempt' = attempt /\ events' = events
      /\ outbox'[r] = "published"
      /\ \A q \in Runs : q # r => outbox'[q] = outbox[q]
      /\ DbType'
  BY DEF MarkOutboxPublished, Publish, DbInv, DbType
<1>2. OutboxRow(run[r], "published")
  BY DEF OutboxRow
<1>3. RowInv(run[r], attempt[r], events[r], outbox[r])'
  BY <1>1, <1>2, RowFacts DEF RowInv, RowType
<1> QED BY <1>1, <1>3, OneRun, NoAdvance, SameAdvances, RowFacts

\* The transactions that end a run close its live attempt, append the event
\* that says how it ended, and publish its outbox row.
LEMMA RunEnds ==
  ASSUME DbInv, NEW r \in Runs,
         NEW n \in AttemptNumber, attempt[r][n].status \in LiveStatus,
         NEW s \in TerminalStatus, NEW wait \in Nat, NEW e \in Event,
         e.type = TerminalEventType(s),
         e.attempt = n \/ (e.attempt = 0 /\ s = "CANCELLED"),
         s = "COMPLETED" =>
           HasEvent(events[r], [type |-> "run.started", attempt |-> e.attempt]),
         run' = [run EXCEPT ![r] = Moved(@, s, wait)],
         attempt' = [attempt EXCEPT ![r][n] = Closed(@, s)],
         events' = [events EXCEPT ![r] = Inserted(@, e)],
         Publish(r)
  PROVE  DbStep
<1> DEFINE rr2 == Moved(run[r], s, wait)
           a2 == Closed(attempt[r][n], s)
           at2 == [attempt[r] EXCEPT ![n] = a2]
           ev2 == Inserted(events[r], e)
<1>1. s \in RunStatus /\ s \in AttemptStatus
  BY DEF RunStatus, AttemptStatus
<1>2. run[r].status \in OpenStatus /\ n = run[r].current_attempt
  BY RowFacts, LiveIsCurrent
<1>3. /\ rr2 \in RunRow /\ rr2.status = s
      /\ rr2.current_attempt = run[r].current_attempt
      /\ rr2.retry_count = run[r].retry_count
  BY <1>1, RowFacts, MovedFacts
<1>4. /\ a2 \in AttemptRow /\ a2.status = s /\ a2.lease = 0
      /\ a2.version > attempt[r][n].version
  BY <1>1, RowFacts, ClosedFacts
<1>5. ev2 \in Seq(Event)
  BY RowFacts, InsertedFacts
<1>6. outbox[r] # "absent"
  BY <1>2, RowFacts DEF OutboxRow, OpenStatus
<1> HIDE DEF rr2, a2, ev2
<1>7. at2 \in [AttemptNumber -> AttemptRow]
  BY <1>4, RowFacts
<1>8. /\ run'[r] = rr2 /\ attempt'[r] = at2 /\ events'[r] = ev2
      /\ outbox'[r] = "published"
      /\ \A q \in Runs : q # r =>
           /\ run'[q] = run[q] /\ attempt'[q] = attempt[q]
           /\ events'[q] = events[q] /\ outbox'[q] = outbox[q]
  BY <1>6 DEF Publish, DbInv, DbType, rr2, a2, ev2
<1>9. DbType'
  <2>1. run' \in [Runs -> RunRow]
    BY <1>3 DEF DbInv, DbType, rr2
  <2>2. attempt' \in [Runs -> [AttemptNumber -> AttemptRow]]
    BY <1>4 DEF DbInv, DbType, a2
  <2>3. events' \in [Runs -> Seq(Event)]
    BY <1>5 DEF DbInv, DbType, ev2
  <2>4. outbox' \in [Runs -> {"absent", "pending", "published"}]
    BY DEF Publish, DbInv, DbType
  <2> QED BY <2>1, <2>2, <2>3, <2>4 DEF DbType
<1>10. AttemptsRow(rr2, at2)
  BY <1>3, <1>4, RowFacts, AttemptsEnded
<1>11. EventsRow(rr2, ev2)
  BY <1>2, <1>3, RowFacts, EventsEnded DEF ev2, OpenStatus, TerminalStatus
<1>12. StartedRow(ev2)
  <2>1. e.type = "run.completed" => s = "COMPLETED"
    BY DEF TerminalEventType, TerminalStatus
  <2> QED BY <2>1, RowFacts, StartedKept DEF ev2
<1>13. OutboxRow(rr2, "published")
  BY DEF OutboxRow
<1>14. RunAdvances(run[r], rr2, events[r], ev2)
  BY <1>2, <1>3, RowFacts, EventsNotErased
     DEF RunAdvances, OpenStatus, TerminalStatus, ev2
<1>15. AttemptsAdvance(attempt[r], at2)
  BY <1>4, RowFacts, AttemptAdvances
<1>16. LeasesRow(at2)
  BY <1>4, RowFacts DEF LeasesRow
<1>17. RowInv(run[r], attempt[r], events[r], outbox[r])'
  BY <1>3, <1>5, <1>7, <1>8, <1>10, <1>11, <1>12, <1>13, <1>16 DEF RowInv, RowType
<1> HIDE DEF at2
<1> QED BY <1>8, <1>9, <1>14, <1>15, <1>17, OneRun

\* So does cancel: run, live attempt, event and outbox move together.
LEMMA CancelStep ==
  ASSUME DbInv, NEW r \in Runs, Cancel(r)
  PROVE  DbStep
<1> DEFINE n == run[r].current_attempt
           e == [type |-> "run.cancelled", attempt |-> 0]
<1>1. n \in AttemptNumber /\ attempt[r][n].status \in LiveStatus
  <2>1. run[r].status \in OpenStatus
    BY DEF Cancel, NotOver
  <2> QED BY <2>1, RowFacts, LimitsAssumption
          DEF AttemptsRow, OpenStatus, RunRow, AttemptNumber
<1>2. \A m \in AttemptNumber : attempt[r][m].status \in LiveStatus => m = n
  BY RowFacts, LiveIsCurrent
<1>3. attempt' = [attempt EXCEPT ![r][n] = Closed(@, "CANCELLED")]
  <2>1. attempt[r] \in [AttemptNumber -> AttemptRow]
    BY RowFacts
  <2>2. [m \in AttemptNumber |-> IF attempt[r][m].status \in LiveStatus
                                 THEN Closed(attempt[r][m], "CANCELLED")
                                 ELSE attempt[r][m]]
          = [attempt[r] EXCEPT ![n] = Closed(attempt[r][n], "CANCELLED")]
    BY <1>1, <1>2, <2>1
  <2> QED BY <2>2 DEF Cancel, StillLive
<1>4. run[r].retry_wait \in Nat
  BY RowFacts DEF RunRow
<1>5. e \in Event /\ e.type = TerminalEventType("CANCELLED")
  BY LimitsAssumption DEF Event, EventType, TerminalType, TerminalEventType
<1>6. /\ run' = [run EXCEPT ![r] = Moved(@, "CANCELLED", run[r].retry_wait)]
      /\ events' = [events EXCEPT ![r] = Inserted(@, e)]
      /\ Publish(r)
  BY DEF Cancel
<1>7. "CANCELLED" \in TerminalStatus /\ e.attempt = 0
  BY DEF TerminalStatus
<1> HIDE DEF n, e
<1> QED BY <1>1, <1>3, <1>4, <1>5, <1>6, <1>7, RunEnds

\* transition_failed_attempt on an attempt that passed its fence: since only
\* an open run has one, the run fails for good or is queued again.
LEMMA TransitionFailedStep ==
  ASSUME DbInv, NEW r \in Runs, NEW n \in AttemptNumber,
         attempt[r][n].status \in LiveStatus, TransitionFailed(r, n)
  PROVE  DbStep
<1>1. run[r].status \in OpenStatus /\ n = run[r].current_attempt
  BY RowFacts, LiveIsCurrent
<1>2. run[r].status # "CANCELLED"
  BY <1>1 DEF OpenStatus
<1>3. n \in Nat /\ MaxAttempts \in Nat /\ n >= 1 /\ n <= MaxAttempts
  BY LimitsAssumption DEF AttemptNumber
<1>4. CASE n >= MaxAttempts
  <2> DEFINE e == [type |-> "run.failed", attempt |-> n]
  <2>1. /\ run' = [run EXCEPT ![r] = Moved(@, "FAILED", 0)]
        /\ attempt' = [attempt EXCEPT ![r][n] = Closed(@, "FAILED")]
        /\ events' = [events EXCEPT ![r] = Inserted(@, e)]
        /\ Publish(r)
    BY <1>1, <1>2, <1>3, <1>4 DEF TransitionFailed, CanRetry
  <2>2. e \in Event /\ e.type = TerminalEventType("FAILED") /\ e.attempt = n
    BY <1>3 DEF Event, EventType, TerminalType, TerminalEventType
  <2>3. "FAILED" \in TerminalStatus /\ 0 \in Nat
    BY DEF TerminalStatus
  <2> HIDE DEF e
  <2> QED BY <2>1, <2>2, <2>3, RunEnds
<1>5. CASE n < MaxAttempts
  <2>1. n + 1 \in AttemptNumber /\ attempt[r][n + 1] = NoAttempt
    BY <1>1, <1>3, <1>5, RowFacts DEF AttemptNumber, AttemptsRow
  <2>2. PICK delay \in Backoff(n) :
          /\ run' = [run EXCEPT ![r] =
                       [status |-> "QUEUED", current_attempt |-> n + 1,
                        retry_count |-> IF @.retry_count + 1 <= MaxAttempts - 1
                                        THEN @.retry_count + 1 ELSE MaxAttempts - 1,
                        retry_wait |-> delay]]
    BY <1>1, <1>2, <1>3, <1>5 DEF TransitionFailed, CanRetry
  <2>3. run[r].retry_count = n - 1
    BY <1>1, <1>3, RowFacts DEF AttemptsRow
  <2> DEFINE a2 == Closed(attempt[r][n], "FAILED")
             at2 == [attempt[r] EXCEPT ![n] = a2, ![n + 1] = NewAttempt]
             rr2 == [status |-> "QUEUED", current_attempt |-> n + 1,
                     retry_count |-> n, retry_wait |-> delay]
  <2>4. run'[r] = rr2 /\ \A q \in Runs : q # r => run'[q] = run[q]
    <3>1. run[r].retry_count + 1 <= MaxAttempts - 1 /\ run[r].retry_count + 1 = n
      BY <1>3, <1>5, <2>3
    <3> QED BY <2>2, <3>1 DEF DbInv, DbType
  <2>5. rr2 \in RunRow
    BY <1>3, <1>5, BackoffNat DEF RunRow, RunStatus, OpenStatus
  <2>6. /\ a2 \in AttemptRow /\ a2.status = "FAILED" /\ a2.lease = 0
        /\ a2.version > attempt[r][n].version
    BY RowFacts, ClosedFacts DEF AttemptStatus, TerminalStatus
  <2>7. NewAttempt \in AttemptRow
    BY DEF NewAttempt, AttemptRow, AttemptStatus, LiveStatus
  <2>8. /\ attempt'[r] = at2
        /\ \A q \in Runs : q # r => attempt'[q] = attempt[q]
        /\ attempt' \in [Runs -> [AttemptNumber -> AttemptRow]]
    <3>1. attempt' = [attempt EXCEPT
                        ![r][n] = Closed(@, "FAILED"),
                        ![r][n + 1] = IF @.status = "NONE" THEN NewAttempt ELSE @]
      BY <1>1, <1>2, <1>3, <1>5 DEF TransitionFailed, CanRetry
    <3>2. attempt \in [Runs -> [AttemptNumber -> AttemptRow]] /\ n + 1 # n
      BY <1>3 DEF DbInv, DbType
    <3>3. attempt[r][n + 1].status = "NONE"
      BY <2>1 DEF NoAttempt
    <3>4. attempt' = [attempt EXCEPT ![r] = at2]
      BY <2>1, <3>1, <3>2, <3>3
    <3> HIDE DEF a2
    <3>5. at2 \in [AttemptNumber -> AttemptRow]
      BY <2>1, <2>6, <2>7, <3>2
    <3> HIDE DEF at2
    <3> QED BY <3>2, <3>4, <3>5
  <2>9. events' = events /\ outbox' = outbox
    BY <1>1, <1>2, <1>3, <1>5 DEF TransitionFailed, CanRetry
  <2>10. DbType'
    <3>1. run' \in [Runs -> RunRow]
      BY <2>2, <2>4, <2>5 DEF DbInv, DbType
    <3> QED BY <2>8, <2>9, <3>1 DEF DbInv, DbType
  <2>11. AttemptsRow(rr2, at2)
    <3>1. /\ rr2.status = "QUEUED" /\ rr2.current_attempt = n + 1
          /\ rr2.retry_count = run[r].retry_count + 1
      BY <1>3, <2>3
    <3>2. /\ run[r] \in RunRow /\ AttemptsRow(run[r], attempt[r])
          /\ attempt[r] \in [AttemptNumber -> AttemptRow]
      BY RowFacts
    <3> HIDE DEF a2, rr2
    <3> QED BY <1>5, <2>5, <2>6, <3>1, <3>2, AttemptsRetried
  <2>12. AttemptsAdvance(attempt[r], at2)
    <3>1. attempt[r][n + 1].version = 0 /\ attempt[r][n + 1].worker = NoWorker
      BY <2>1 DEF NoAttempt
    <3>2. NewAttempt.version = 0 /\ NewAttempt.worker = NoWorker
      BY DEF NewAttempt
    <3>3. \A m \in AttemptNumber : attempt[r][m].version \in Nat
      BY RowFacts DEF AttemptRow
    <3>4. attempt[r][n].status \notin TerminalStatus
      BY DEF LiveStatus, TerminalStatus
    <3>5. attempt[r][n + 1].status \notin TerminalStatus
      BY <2>1 DEF NoAttempt, TerminalStatus
    <3>6. \A m \in AttemptNumber : m # n /\ m # n + 1 => at2[m] = attempt[r][m]
      BY <2>1, RowFacts
    <3>7. at2[n] = a2 /\ at2[n + 1] = NewAttempt
      BY <1>3, <2>1, RowFacts
    <3>8. a2.version \in Nat
      BY <2>6 DEF AttemptRow
    <3> HIDE DEF a2, at2
    <3> QED BY <2>1, <2>6, <3>1, <3>2, <3>3, <3>4, <3>5, <3>6, <3>7, <3>8
            DEF AttemptsAdvance
  <2>13. EventsRow(rr2, events[r])
    BY <1>1, RowFacts, EventsUnended DEF OpenStatus, TerminalStatus
  <2>14. OutboxRow(rr2, outbox[r])
    BY <1>1, RowFacts DEF OutboxRow, OpenStatus, TerminalStatus
  <2>15. RunAdvances(run[r], rr2, events[r], events[r])
    BY <1>1 DEF RunAdvances, OpenStatus, TerminalStatus
  <2>16. LeasesRow(at2)
    <3> HIDE DEF a2
    <3> QED BY <2>1, <2>6, RowFacts DEF LeasesRow, NewAttempt, TerminalStatus
  <2> HIDE DEF rr2, at2
  <2>17. RowInv(run[r], attempt[r], events[r], outbox[r])'
    BY <2>4, <2>8, <2>9, <2>10, <2>11, <2>13, <2>14, <2>16, RowFacts
       DEF RowInv, RowType, DbType
  <2> QED BY <2>4, <2>8, <2>9, <2>10, <2>12, <2>15, <2>17, OneRun
<1> QED BY <1>3, <1>4, <1>5

\* A transaction that only replaces a live attempt row by another one.
LEMMA AttemptStep ==
  ASSUME DbInv, NEW r \in Runs, NEW n \in AttemptNumber,
         attempt[r][n].status \in LiveStatus,
         NEW a \in AttemptRow, a.status \in LiveStatus,
         \/ a.version > attempt[r][n].version
         \/ a.version = attempt[r][n].version /\ a.worker = attempt[r][n].worker,
         attempt' = [attempt EXCEPT ![r][n] = a],
         UNCHANGED <<run, events, outbox>>
  PROVE  DbStep
<1> DEFINE at2 == [attempt[r] EXCEPT ![n] = a]
<1>1. /\ attempt'[r] = at2 /\ at2 \in [AttemptNumber -> AttemptRow]
      /\ \A q \in Runs : q # r => attempt'[q] = attempt[q]
      /\ run' = run /\ events' = events /\ outbox' = outbox
      /\ DbType'
  BY DEF DbInv, DbType
<1>2. AttemptsRow(run[r], at2)
  BY RowFacts, AttemptsStillLive
<1>3. AttemptsAdvance(attempt[r], at2)
  BY RowFacts, AttemptAdvances
<1>4. LeasesRow(at2)
  BY RowFacts DEF LeasesRow, LiveStatus, TerminalStatus
<1> HIDE DEF at2
<1>5. RowInv(run[r], attempt[r], events[r], outbox[r])'
  BY <1>1, <1>2, <1>4, RowFacts DEF RowInv, RowType
<1> QED BY <1>1, <1>3, <1>5, OneRun, SameAdvances

\* So does the unfenced QUEUED to RUNNING compare-and-set.
LEMMA EnterRunningStep ==
  ASSUME DbInv, NEW r \in Runs, run[r].status = "QUEUED",
         run' = [run EXCEPT ![r] = Moved(@, "RUNNING", @.retry_wait)],
         UNCHANGED <<attempt, events, outbox>>
  PROVE  DbStep
<1> DEFINE rr2 == Moved(run[r], "RUNNING", run[r].retry_wait)
<1>1. /\ rr2 \in RunRow /\ rr2.status = "RUNNING"
      /\ rr2.current_attempt = run[r].current_attempt
      /\ rr2.retry_count = run[r].retry_count
  <2>1. run[r].retry_wait \in Nat /\ run[r] \in RunRow
    BY RowFacts DEF RunRow
  <2>2. "RUNNING" \in RunStatus
    BY DEF RunStatus, OpenStatus
  <2> QED BY <2>1, <2>2, MovedFacts
<1> HIDE DEF rr2
<1>2. /\ run'[r] = rr2
      /\ \A q \in Runs : q # r => run'[q] = run[q]
      /\ attempt' = attempt /\ events' = events /\ outbox' = outbox
      /\ DbType'
  BY <1>1 DEF DbInv, DbType, rr2
<1>3. AttemptsRow(rr2, attempt[r])
  BY <1>1, RowFacts DEF AttemptsRow, OpenStatus, TerminalStatus
<1>4. EventsRow(rr2, events[r])
  BY <1>1, RowFacts, EventsUnended DEF TerminalStatus
<1>5. OutboxRow(rr2, outbox[r])
  BY <1>1, RowFacts DEF OutboxRow, TerminalStatus
<1>6. RunAdvances(run[r], rr2, events[r], events[r])
  BY <1>1 DEF RunAdvances, OpenStatus, TerminalStatus
<1>7. RowInv(run[r], attempt[r], events[r], outbox[r])'
  BY <1>1, <1>2, <1>3, <1>4, <1>5, RowFacts DEF RowInv, RowType
<1> QED BY <1>2, <1>6, <1>7, RowFacts, NoAdvance, OneRun

\* So does the run.started event, whichever attempt it names.
LEMMA EmitStartedStep ==
  ASSUME DbInv, NEW r \in Runs, NEW n \in AttemptNumber,
         events' = [events EXCEPT ![r] = Inserted(@, StartedEvent(n))],
         UNCHANGED <<run, attempt, outbox>>
  PROVE  DbStep
<1> DEFINE e == StartedEvent(n)
           ev2 == Inserted(events[r], e)
<1>1. e \in Event /\ e.type = "run.started"
  BY LimitsAssumption DEF StartedEvent, Event, EventType, AttemptNumber
<1> HIDE DEF e
<1>2. ev2 \in Seq(Event)
  BY <1>1, RowFacts, InsertedFacts
<1>3. /\ events'[r] = ev2
      /\ \A q \in Runs : q # r => events'[q] = events[q]
      /\ run' = run /\ attempt' = attempt /\ outbox' = outbox
      /\ DbType'
  BY <1>2 DEF DbInv, DbType, e
<1>4. EventsRow(run[r], ev2)
  BY <1>1, RowFacts, EventsStarted
<1>5. StartedRow(ev2)
  BY <1>1, RowFacts, StartedKept
<1>6. RunAdvances(run[r], run[r], events[r], ev2)
  BY <1>1, RowFacts, EventsNotErased DEF RunAdvances, OpenStatus
<1> HIDE DEF ev2
<1>7. RowInv(run[r], attempt[r], events[r], outbox[r])'
  BY <1>2, <1>3, <1>4, <1>5, RowFacts DEF RowInv, RowType
<1> QED BY <1>3, <1>6, <1>7, RowFacts, NoAdvance, OneRun

\* So does the clock, which only shortens leases and backoffs.
LEMMA TickStep ==
  ASSUME DbInv, Tick
  PROVE  DbStep
<1>1. \A r \in Runs :
        /\ run'[r] = Moved(run[r], run[r].status, Elapsed(run[r].retry_wait))
        /\ attempt'[r] = [n \in AttemptNumber |->
             Leased(attempt[r][n], Elapsed(attempt[r][n].lease))]
  BY DEF Tick
<1>2. events' = events /\ outbox' = outbox
  BY DEF Tick
<1>3. ASSUME NEW r \in Runs
      PROVE  /\ run'[r] \in RunRow /\ run'[r].status = run[r].status
             /\ run'[r].current_attempt = run[r].current_attempt
             /\ run'[r].retry_count = run[r].retry_count
  <2>1. run[r] \in RunRow /\ run[r].status \in RunStatus /\ run[r].retry_wait \in Nat
    BY RowFacts DEF RunRow
  <2>2. Elapsed(run[r].retry_wait) \in Nat
    BY <2>1 DEF Elapsed
  <2>3. run'[r] = Moved(run[r], run[r].status, Elapsed(run[r].retry_wait))
    BY <1>1
  <2> HIDE DEF Elapsed
  <2> QED BY <2>1, <2>2, <2>3, MovedFacts
<1>4. ASSUME NEW r \in Runs, NEW n \in AttemptNumber
      PROVE  /\ attempt'[r][n] \in AttemptRow
             /\ attempt'[r][n].status = attempt[r][n].status
             /\ attempt'[r][n].worker = attempt[r][n].worker
             /\ attempt'[r][n].version = attempt[r][n].version
  <2>1. attempt[r][n] \in AttemptRow /\ attempt[r][n].lease \in Nat
    BY RowFacts DEF AttemptRow
  <2>2. Elapsed(attempt[r][n].lease) \in Nat
    BY <2>1 DEF Elapsed
  <2>3. attempt'[r][n] = Leased(attempt[r][n], Elapsed(attempt[r][n].lease))
    BY <1>1
  <2> QED BY <2>1, <2>2, <2>3, LeasedFacts
<1>5. DbType'
  <2>1. run' \in [Runs -> RunRow]
    BY <1>3 DEF Tick
  <2>2. attempt' \in [Runs -> [AttemptNumber -> AttemptRow]]
    BY <1>4 DEF Tick
  <2> QED BY <1>2, <2>1, <2>2 DEF DbInv, DbType
<1>6. ASSUME NEW r \in Runs, NEW n \in AttemptNumber, attempt[r][n].lease = 0
      PROVE  attempt'[r][n] = attempt[r][n]
  <2>1. attempt[r][n] \in AttemptRow
    BY RowFacts
  <2>2. Elapsed(attempt[r][n].lease) = 0
    BY <1>6 DEF Elapsed
  <2>3. attempt'[r][n] = Leased(attempt[r][n], 0)
    BY <1>1, <2>2
  <2> QED BY <1>6, <2>1, <2>3 DEF Leased, AttemptRow
<1>7. ASSUME NEW r \in Runs
      PROVE  AttemptsRow(run[r], attempt[r])' /\ LeasesRow(attempt[r])'
  <2>1. \A n \in AttemptNumber : attempt[r][n] = NoAttempt => attempt'[r][n] = NoAttempt
    BY <1>6 DEF NoAttempt
  <2>2. \A n \in AttemptNumber :
          attempt[r][n].status \in TerminalStatus => attempt'[r][n].lease = 0
    BY <1>6, RowFacts DEF LeasesRow
  <2>3. run[r].current_attempt \in 0..MaxAttempts /\ MaxAttempts \in Nat
    BY RowFacts, LimitsAssumption DEF RunRow
  <2>4. AttemptsRow(run[r], attempt[r])'
    <3> DEFINE cur == run[r].current_attempt
    <3>1. AttemptsRow(run[r], attempt[r])
      BY RowFacts
    <3>2. run[r].status # "NONE" => cur \in AttemptNumber
      BY <2>3, <3>1 DEF AttemptsRow, AttemptNumber
    <3>3. run[r].status # "NONE" => attempt'[r][cur].status = attempt[r][cur].status
      BY <1>4, <3>2
    <3>4. \A n \in AttemptNumber : n < cur => attempt'[r][n].status = "FAILED"
      BY <1>4, <3>1 DEF AttemptsRow
    <3>5. \A n \in AttemptNumber : n > cur => attempt'[r][n] = NoAttempt
      BY <2>1, <3>1 DEF AttemptsRow
    <3> QED BY <1>3, <3>1, <3>3, <3>4, <3>5
            DEF AttemptsRow, OpenStatus, TerminalStatus
  <2> QED BY <1>4, <2>2, <2>4 DEF LeasesRow
<1>8. ASSUME NEW r \in Runs
      PROVE  AttemptsAdvance(attempt[r], attempt'[r])
  <2>1. \A n \in AttemptNumber : attempt[r][n].version \in Nat
    BY RowFacts DEF AttemptRow
  <2>2. \A n \in AttemptNumber :
          attempt[r][n].status \in TerminalStatus => attempt'[r][n] = attempt[r][n]
    BY <1>6, RowFacts DEF LeasesRow
  <2> QED BY <1>4, <2>1, <2>2 DEF AttemptsAdvance
<1>9. ASSUME NEW r \in Runs
      PROVE  EventsRow(run[r], events[r])' /\ OutboxRow(run[r], outbox[r])'
  BY <1>2, <1>3, RowFacts DEF EventsRow, OutboxRow
<1>10. \A r \in Runs : RowInv(run[r], attempt[r], events[r], outbox[r])'
  BY <1>2, <1>5, <1>7, <1>9, RowFacts DEF RowInv, RowType, DbType
<1>11. \A r \in Runs : RunAdvances(run[r], run'[r], events[r], events'[r])
  BY <1>2, <1>3, SameAdvances
<1>12. \A r \in Runs : ~ Touched(r)
  BY <1>2, <1>3 DEF Touched
<1> QED BY <1>5, <1>8, <1>10, <1>11, <1>12 DEF DbStep

-----------------------------------------------------------------------------
\* The workers

\* A worker that executes holds a well-formed fencing token.
LEMMA TokenFacts ==
  ASSUME IInv, NEW w \in Workers, pc[w] \in ExecutePC
  PROVE  /\ job[w] \in Token
         /\ job[w].run \in Runs
         /\ job[w].number \in AttemptNumber
         /\ job[w].version \in Nat
         /\ job[w].version <= attempt[job[w].run][job[w].number].version
         /\ StartedEvent(job[w].number) \in Event
<1>1. /\ job[w] \in Token
      /\ job[w].version <= attempt[job[w].run][job[w].number].version
  BY DEF IInv, WorkerInv, TokensMatch
<1> QED BY <1>1, LimitsAssumption
        DEF Token, StartedEvent, Event, EventType, AttemptNumber

\* No step of the tables takes a token or a started event from a worker.
LEMMA TokenKept ==
  ASSUME IInv, DbStep, NEW w \in Workers, pc[w] \in ExecutePC
  PROVE  /\ job[w].version <= attempt'[job[w].run][job[w].number].version
         /\ \A label, result :
              OutcomeOK(label, job[w].number, result, events[job[w].run]) =>
              OutcomeOK(label, job[w].number, result, events'[job[w].run])
<1> DEFINE r == job[w].run
           n == job[w].number
<1>1. /\ r \in Runs /\ n \in AttemptNumber /\ job[w].version \in Nat
      /\ job[w].version <= attempt[r][n].version
      /\ StartedEvent(n) \in Event
  BY TokenFacts
<1>2. attempt[r][n].version \in Nat
  BY <1>1, RowFacts DEF AttemptRow, IInv
<1>3. attempt'[r][n].version \in Nat
  BY <1>1 DEF DbStep, DbType, AttemptRow
<1>4. attempt'[r][n].version >= attempt[r][n].version
  BY <1>1 DEF DbStep, AttemptsAdvance
<1>5. HasEvent(events[r], StartedEvent(n)) => HasEvent(events'[r], StartedEvent(n))
  BY <1>1 DEF DbStep, RunAdvances
<1> QED BY <1>1, <1>2, <1>3, <1>4, <1>5 DEF OutcomeOK

\* A step of worker w, with or without a step of the tables.
LEMMA OneWorker ==
  ASSUME IInv, DbStep, NEW w \in Workers, WorkerType',
         \A v \in Workers : v # w =>
           pc'[v] = pc[v] /\ job'[v] = job[v] /\ outcome'[v] = outcome[v],
         pc'[w] = "checked" => job'[w].run \in Runs,
         pc'[w] \in ExecutePC =>
           /\ job'[w] \in Token
           /\ job'[w].version <= attempt'[job'[w].run][job'[w].number].version
           /\ OutcomeOK(pc'[w], job'[w].number, outcome'[w], events'[job'[w].run])
           /\ \A v \in Workers : v # w /\ pc[v] \in ExecutePC => job[v] # job'[w]
  PROVE  IInv'
<1>1. DbInv'
  BY DEF DbStep, DbInv
<1>2. ASSUME NEW v \in Workers
      PROVE  /\ pc'[v] = "checked" => job'[v].run \in Runs
             /\ pc'[v] \in ExecutePC =>
                  /\ job'[v] \in Token
                  /\ job'[v].version <= attempt'[job'[v].run][job'[v].number].version
                  /\ OutcomeOK(pc'[v], job'[v].number, outcome'[v], events'[job'[v].run])
  <2>1. CASE v = w
    BY <2>1
  <2>2. CASE v # w
    <3>1. pc[v] = "checked" => job[v].run \in Runs
      BY DEF IInv, WorkerInv, TokensMatch
    <3>2. pc[v] \in ExecutePC =>
            OutcomeOK(pc[v], job[v].number, outcome[v], events[job[v].run])
      BY DEF IInv, WorkerInv, OutcomesMatch
    <3> QED BY <2>2, <3>1, <3>2, TokenFacts, TokenKept
  <2> QED BY <2>1, <2>2
<1>3. ASSUME NEW u \in Workers, NEW v \in Workers,
             pc'[u] \in ExecutePC, pc'[v] \in ExecutePC, job'[u] = job'[v]
      PROVE  u = v
  <2>1. pc[u] \in ExecutePC /\ pc[v] \in ExecutePC /\ job[u] = job[v] => u = v
    BY DEF IInv, WorkerInv, TokensMatch
  <2> QED BY <1>3, <2>1
<1>4. TokensMatch' /\ OutcomesMatch'
  BY <1>2, <1>3 DEF TokensMatch, OutcomesMatch
<1> QED BY <1>1, <1>4 DEF IInv, WorkerInv

\* A step of the tables that no worker takes part in.
LEMMA NoWorkerStep ==
  ASSUME IInv, DbStep, UNCHANGED workerVars, crashes' \in 0..MaxCrashes
  PROVE  IInv'
<1>1. /\ pc' = pc /\ job' = job /\ outcome' = outcome
      /\ expired' = expired /\ candidates' = candidates /\ hb' = hb
  BY DEF workerVars
<1>2. WorkerType'
  BY <1>1 DEF IInv, WorkerInv, WorkerType
<1>3. DbInv'
  BY DEF DbStep, DbInv
<1>4. ASSUME NEW v \in Workers, pc[v] \in ExecutePC
      PROVE  OutcomeOK(pc[v], job[v].number, outcome[v], events[job[v].run])
  BY <1>4 DEF IInv, WorkerInv, OutcomesMatch
<1>5. TokensMatch'
  <2>1. \A v \in Workers : pc[v] \in ExecutePC =>
          /\ job[v] \in Token
          /\ job[v].version <= attempt'[job[v].run][job[v].number].version
    BY TokenFacts, TokenKept
  <2> QED BY <1>1, <2>1 DEF TokensMatch, IInv, WorkerInv
<1>6. OutcomesMatch'
  BY <1>1, <1>4, TokenKept DEF OutcomesMatch
<1> QED BY <1>2, <1>3, <1>5, <1>6 DEF IInv, WorkerInv

\* A worker that moves on in _execute with the token it has.
LEMMA WorkerGoes ==
  ASSUME IInv, DbStep, NEW w \in Workers, pc[w] \in ExecutePC,
         NEW label \in PC, pc' = [pc EXCEPT ![w] = label],
         NEW result \in Outcome, outcome' = [outcome EXCEPT ![w] = result],
         label # "checked",
         OutcomeOK(label, job[w].number, result, events'[job[w].run]),
         UNCHANGED <<job, expired, candidates, crashes>>,
         hb' \in [Workers -> {"off", "on", "lost"}]
  PROVE  IInv'
<1>1. WorkerType'
  BY DEF IInv, WorkerInv, WorkerType
<1>2. /\ pc'[w] = label /\ job'[w] = job[w] /\ outcome'[w] = result
      /\ \A v \in Workers : v # w =>
           pc'[v] = pc[v] /\ job'[v] = job[v] /\ outcome'[v] = outcome[v]
  BY DEF IInv, WorkerInv, WorkerType
<1>3. /\ job[w] \in Token
      /\ job[w].version <= attempt'[job[w].run][job[w].number].version
  BY TokenFacts, TokenKept
<1>4. \A v \in Workers : v # w /\ pc[v] \in ExecutePC => job[v] # job[w]
  BY DEF IInv, WorkerInv, TokensMatch
<1> QED BY <1>1, <1>2, <1>3, <1>4, OneWorker

-----------------------------------------------------------------------------
\* Every action is a step of the tables and keeps the invariant

\* The crash counter stays within its bound.
LEMMA CrashesType ==
  ASSUME IInv
  PROVE  crashes \in 0..MaxCrashes
BY DEF IInv, WorkerInv, WorkerType

\* Submissions, outbox marks and cancels preserve the invariant.
LEMMA ApiSteps ==
  ASSUME IInv, NEW r \in Runs, ApiStep(r)
  PROVE  DbStep /\ IInv'
<1>1. DbInv
  BY DEF IInv
<1>2. DbStep
  BY <1>1, SubmitStep, PublishStep, CancelStep DEF ApiStep
<1>3. UNCHANGED workerVars /\ crashes' = crashes
  BY DEF ApiStep, Submit, MarkOutboxPublished, Cancel
<1> QED BY <1>2, <1>3, NoWorkerStep, CrashesType

\* The clock preserves the invariant.
LEMMA TickSteps ==
  ASSUME IInv, Tick
  PROVE  DbStep /\ IInv'
<1>1. DbStep
  BY TickStep DEF IInv
<1>2. UNCHANGED workerVars /\ crashes' = crashes
  BY DEF Tick
<1> QED BY <1>1, <1>2, NoWorkerStep, CrashesType

\* claim issues a token newer than any token held for its attempt row.
LEMMA ClaimSteps ==
  ASSUME IInv, NEW w \in Workers, Claim(w)
  PROVE  DbStep /\ IInv'
<1> DEFINE r == job[w].run
<1>1. DbInv /\ WorkerType /\ r \in Runs
  BY DEF IInv, WorkerInv, TokensMatch, Claim
<1>2. CASE \E n \in AttemptNumber : Claimable(r, n)
  <2> DEFINE a2(n) == [status |-> "RUNNING", worker |-> WorkerId[w],
                       lease |-> LeaseS, version |-> attempt[r][n].version + 1]
             t2(n) == [run |-> r, number |-> n, version |-> attempt[r][n].version + 1]
  <2>1. PICK n \in AttemptNumber :
          /\ Claimable(r, n)
          /\ attempt' = [attempt EXCEPT ![r][n] = a2(n)]
          /\ job' = [job EXCEPT ![w] = t2(n)]
          /\ pc' = [pc EXCEPT ![w] = "claimed"]
          /\ hb' = [hb EXCEPT ![w] = "on"]
    BY <1>2 DEF Claim
  <2>2. /\ UNCHANGED <<run, events, outbox>>
        /\ UNCHANGED <<expired, candidates, outcome, crashes>>
    BY DEF Claim
  <2>3. attempt[r][n].status \in LiveStatus
    BY <2>1 DEF Claimable, LiveStatus
  <2>4. attempt[r][n].version \in Nat
    BY <1>1, RowFacts DEF AttemptRow
  <2>5. /\ a2(n) \in AttemptRow /\ a2(n).status \in LiveStatus
        /\ a2(n).version > attempt[r][n].version
    BY <2>4, WorkersAssumption, LimitsAssumption
       DEF AttemptRow, AttemptStatus, LiveStatus
  <2>6. t2(n) \in Token
    BY <1>1, <2>4 DEF Token
  <2>7. DbStep
    <3> HIDE DEF a2, r
    <3> QED BY <1>1, <2>1, <2>2, <2>3, <2>5, AttemptStep
  <2>8. WorkerType'
    BY <1>1, <2>1, <2>2, <2>6, LimitsAssumption
       DEF WorkerType, PC, ExecutePC, Token, AttemptNumber
  <2>9. /\ pc'[w] = "claimed" /\ job'[w] = t2(n)
        /\ \A v \in Workers : v # w =>
             pc'[v] = pc[v] /\ job'[v] = job[v] /\ outcome'[v] = outcome[v]
    BY <1>1, <2>1, <2>2 DEF WorkerType
  <2>10. attempt'[r][n].version = attempt[r][n].version + 1
    BY <1>1, <2>1 DEF DbInv, DbType
  <2>11. t2(n).version <= attempt'[t2(n).run][t2(n).number].version
    BY <2>4, <2>10
  <2>12. ASSUME NEW v \in Workers, v # w, pc[v] \in ExecutePC
         PROVE  job[v] # t2(n)
    <3>1. /\ job[v].version \in Nat
          /\ job[v].version <= attempt[job[v].run][job[v].number].version
      BY <2>12, TokenFacts
    <3> QED BY <2>4, <3>1
  <2>13. OutcomeOK(pc'[w], job'[w].number, outcome'[w], events'[job'[w].run])
    BY <2>9 DEF OutcomeOK
  <2>14. pc'[w] # "checked"
    BY <2>9
  <2> HIDE DEF t2, a2
  <2> QED BY <2>6, <2>7, <2>8, <2>9, <2>11, <2>12, <2>13, <2>14, OneWorker
<1>3. CASE ~ \E n \in AttemptNumber : Claimable(r, n)
  <2>1. /\ job' = [job EXCEPT ![w] = NoToken]
        /\ pc' = [pc EXCEPT ![w] = "scanning"]
        /\ UNCHANGED dbVars
        /\ UNCHANGED <<hb, expired, candidates, outcome, crashes>>
    BY <1>3 DEF Claim, dbVars
  <2>2. DbStep
    BY <1>1, <2>1, DbUnchanged
  <2>3. WorkerType'
    BY <1>1, <2>1, LimitsAssumption DEF WorkerType, PC, ScanPC, NoToken
  <2>4. /\ pc'[w] = "scanning"
        /\ \A v \in Workers : v # w =>
             pc'[v] = pc[v] /\ job'[v] = job[v] /\ outcome'[v] = outcome[v]
    BY <1>1, <2>1 DEF WorkerType
  <2>5. pc'[w] # "checked" /\ pc'[w] \notin ExecutePC
    BY <2>4 DEF ExecutePC
  <2> QED BY <2>2, <2>3, <2>4, <2>5, OneWorker
<1> QED BY <1>2, <1>3

\* Recovering, scanning and claiming preserve the invariant.
LEMMA ScanSteps ==
  ASSUME IInv, NEW w \in Workers, ScanStep(w)
  PROVE  DbStep /\ IInv'
<1> DEFINE Rest(v) == pc'[v] = pc[v] /\ job'[v] = job[v] /\ outcome'[v] = outcome[v]
<1>1. DbInv /\ WorkerType
  BY DEF IInv, WorkerInv
<1>2. CASE RecoverScan(w)
  <2>1. DbStep
    BY <1>1, <1>2, DbUnchanged DEF RecoverScan
  <2>2. ExpiredAttempts \subseteq Token
    <3>1. \A r \in Runs, n \in AttemptNumber : attempt[r][n].version \in Nat
      BY <1>1, RowFacts DEF AttemptRow
    <3> QED BY <3>1 DEF ExpiredAttempts, Token
  <2>3. WorkerType'
    BY <1>1, <1>2, <2>2 DEF RecoverScan, WorkerType, PC, ScanPC
  <2>4. pc'[w] = "recovering" /\ \A v \in Workers : v # w => Rest(v)
    BY <1>1, <1>2 DEF RecoverScan, WorkerType
  <2>5. pc'[w] # "checked" /\ pc'[w] \notin ExecutePC
    BY <2>4 DEF ExecutePC
  <2> QED BY <2>1, <2>3, <2>4, <2>5, OneWorker
<1>3. CASE RecoverAttempt(w)
  <2>1. PICK t \in expired[w] :
          /\ expired' = [expired EXCEPT ![w] = @ \ {t}]
          /\ IF /\ attempt[t.run][t.number].status = "RUNNING"
                /\ attempt[t.run][t.number].version = t.version
                /\ attempt[t.run][t.number].lease = 0
             THEN TransitionFailed(t.run, t.number)
             ELSE UNCHANGED dbVars
    BY <1>3 DEF RecoverAttempt
  <2>2. t.run \in Runs /\ t.number \in AttemptNumber
    BY <1>1 DEF WorkerType, Token
  <2>3. DbStep
    BY <1>1, <2>1, <2>2, DbUnchanged, TransitionFailedStep DEF LiveStatus
  <2>4. pc' = pc /\ job' = job /\ outcome' = outcome
    BY <1>3 DEF RecoverAttempt
  <2>5. WorkerType'
    BY <1>1, <1>3, <2>1 DEF RecoverAttempt, WorkerType
  <2>6. pc'[w] = "recovering"
    BY <1>3 DEF RecoverAttempt
  <2>7. pc'[w] # "checked" /\ pc'[w] \notin ExecutePC
    BY <2>6 DEF ExecutePC
  <2> QED BY <2>3, <2>4, <2>5, <2>7, OneWorker
<1>4. CASE ListCandidates(w)
  <2>1. DbStep
    BY <1>1, <1>4, DbUnchanged DEF ListCandidates
  <2>2. WorkerType'
    BY <1>1, <1>4 DEF ListCandidates, WorkerType, PC, ScanPC, RetryableRuns
  <2>3. pc'[w] = "scanning" /\ \A v \in Workers : v # w => Rest(v)
    BY <1>1, <1>4 DEF ListCandidates, WorkerType
  <2>4. pc'[w] # "checked" /\ pc'[w] \notin ExecutePC
    BY <2>3 DEF ExecutePC
  <2> QED BY <2>1, <2>2, <2>3, <2>4, OneWorker
<1>5. CASE CheckRun(w)
  <2>1. DbStep
    BY <1>1, <1>5, DbUnchanged DEF CheckRun
  <2>2. PICK r \in candidates[w] :
          /\ candidates' = [candidates EXCEPT ![w] = @ \ {r}]
          /\ IF run[r].status = "CANCELLED" \/ run[r].retry_wait > 0
             THEN UNCHANGED <<pc, job>>
             ELSE /\ pc' = [pc EXCEPT ![w] = "checked"]
                  /\ job' = [job EXCEPT ![w] =
                               [run |-> r, number |-> 0, version |-> 0]]
    BY <1>5 DEF CheckRun
  <2>3. r \in Runs /\ pc[w] = "scanning"
    BY <1>1, <1>5 DEF CheckRun, WorkerType
  <2>4. WorkerType'
    BY <1>1, <1>5, <2>2, <2>3, LimitsAssumption DEF CheckRun, WorkerType, PC
  <2>5. \A v \in Workers : v # w => Rest(v)
    BY <1>1, <1>5, <2>2 DEF CheckRun, WorkerType
  <2>6. pc'[w] \notin ExecutePC
    BY <1>1, <2>2, <2>3 DEF ExecutePC, WorkerType
  <2>7. pc'[w] = "checked" => job'[w].run \in Runs
    BY <1>1, <2>2, <2>3 DEF WorkerType
  <2> QED BY <2>1, <2>4, <2>5, <2>6, <2>7, OneWorker
<1>6. CASE FinishScan(w)
  <2>1. DbStep
    BY <1>1, <1>6, DbUnchanged DEF FinishScan
  <2>2. WorkerType'
    BY <1>1, <1>6 DEF FinishScan, WorkerType, PC, ScanPC
  <2>3. pc'[w] = "idle" /\ \A v \in Workers : v # w => Rest(v)
    BY <1>1, <1>6 DEF FinishScan, WorkerType
  <2>4. pc'[w] # "checked" /\ pc'[w] \notin ExecutePC
    BY <2>3 DEF ExecutePC
  <2> QED BY <2>1, <2>2, <2>3, <2>4, OneWorker
<1>7. CASE Claim(w)
  BY <1>7, ClaimSteps
<1> QED BY <1>2, <1>3, <1>4, <1>5, <1>6, <1>7 DEF ScanStep

\* Heartbeats, won or lost, preserve the invariant.
LEMMA HeartbeatSteps ==
  ASSUME IInv, NEW w \in Workers, Heartbeat(w)
  PROVE  DbStep /\ IInv'
<1> DEFINE t == job[w]
           a == attempt[t.run][t.number]
<1>1. /\ DbInv /\ WorkerType /\ pc[w] \in ExecutePC
      /\ UNCHANGED <<run, events, outbox>>
      /\ UNCHANGED <<pc, job, expired, candidates, outcome, crashes>>
  BY DEF IInv, WorkerInv, Heartbeat
<1>2. t.run \in Runs /\ t.number \in AttemptNumber
  BY <1>1, TokenFacts
<1>3. DbStep
  <2>1. CASE UNCHANGED attempt
    BY <1>1, <2>1, DbUnchanged DEF dbVars
  <2>2. CASE /\ a.status = "RUNNING"
             /\ attempt' = [attempt EXCEPT ![t.run][t.number] = Leased(@, LeaseS)]
    <3>1. a \in AttemptRow
      BY <1>1, <1>2, RowFacts
    <3>2. /\ Leased(a, LeaseS) \in AttemptRow
          /\ Leased(a, LeaseS).status = a.status
          /\ Leased(a, LeaseS).worker = a.worker
          /\ Leased(a, LeaseS).version = a.version
      BY <3>1, LeasedFacts, LimitsAssumption
    <3>3. a.status \in LiveStatus
      BY <2>2 DEF LiveStatus
    <3>4. attempt' = [attempt EXCEPT ![t.run][t.number] = Leased(a, LeaseS)]
      BY <2>2
    <3> HIDE DEF t
    <3> QED BY <1>1, <1>2, <3>2, <3>3, <3>4, AttemptStep
  <2> QED BY <2>1, <2>2 DEF Heartbeat, Fenced
<1>4. hb' \in [Workers -> {"off", "on", "lost"}]
  BY <1>1 DEF Heartbeat, WorkerType
<1>5. pc' = pc /\ outcome' = outcome /\ job' = job
  BY <1>1
<1>6. WorkerType'
  BY <1>1, <1>4 DEF WorkerType
<1>7. /\ job[w] \in Token
      /\ job[w].version <= attempt'[job[w].run][job[w].number].version
      /\ OutcomeOK(pc[w], job[w].number, outcome[w], events'[job[w].run])
      /\ \A v \in Workers : v # w /\ pc[v] \in ExecutePC => job[v] # job[w]
  <2>1. OutcomeOK(pc[w], job[w].number, outcome[w], events[job[w].run])
    BY <1>1 DEF IInv, WorkerInv, OutcomesMatch
  <2> QED BY <1>1, <1>3, <2>1, TokenFacts, TokenKept
          DEF IInv, WorkerInv, TokensMatch
<1>8. pc[w] # "checked"
  BY <1>1 DEF ExecutePC
<1> QED BY <1>3, <1>5, <1>6, <1>7, <1>8, OneWorker

\* ... keeping what its executor returned.
LEMMA WorkerGoesOn ==
  ASSUME IInv, DbStep, NEW w \in Workers, pc[w] \in ExecutePC,
         NEW label \in {"starting", "refused", "emitting", "failing", "ending"},
         pc' = [pc EXCEPT ![w] = label],
         UNCHANGED <<outcome, job, expired, candidates, hb, crashes>>
  PROVE  IInv'
<1>1. OutcomeOK(label, job[w].number, outcome[w], events'[job[w].run])
  BY DEF OutcomeOK
<1>2. label \in PC /\ label # "checked"
  BY DEF PC, ExecutePC
<1>3. /\ outcome[w] \in Outcome /\ outcome' = [outcome EXCEPT ![w] = outcome[w]]
      /\ hb' \in [Workers -> {"off", "on", "lost"}]
  BY DEF IInv, WorkerInv, WorkerType
<1> QED BY <1>1, <1>2, <1>3, WorkerGoes

\* ... or having found the run cancelled.
LEMMA WorkerFindsCancelled ==
  ASSUME IInv, DbStep, NEW w \in Workers, pc[w] \in ExecutePC,
         pc' = [pc EXCEPT ![w] = "returned"],
         outcome' = [outcome EXCEPT ![w] = "CANCELLED"],
         UNCHANGED <<job, expired, candidates, hb, crashes>>
  PROVE  IInv'
<1>1. OutcomeOK("returned", job[w].number, "CANCELLED", events'[job[w].run])
  BY DEF OutcomeOK
<1>2. "returned" \in PC /\ "CANCELLED" \in Outcome
  BY DEF PC, ExecutePC, Outcome, TerminalStatus
<1>3. hb' \in [Workers -> {"off", "on", "lost"}]
  BY DEF IInv, WorkerInv, WorkerType
<1> QED BY <1>1, <1>2, <1>3, WorkerGoes

\* The executor's steps preserve the invariant.
LEMMA ExecutorSteps ==
  ASSUME IInv, NEW w \in Workers, ExecutorStep(w)
  PROVE  DbStep /\ IInv'
<1> DEFINE t == job[w]
           Started == HasEvent(events[t.run], StartedEvent(t.number))
<1>1. /\ DbInv /\ WorkerType
      /\ hb \in [Workers -> {"off", "on", "lost"}]
      /\ outcome \in [Workers -> Outcome] /\ outcome[w] \in Outcome
      /\ outcome = [outcome EXCEPT ![w] = outcome[w]]
  BY DEF IInv, WorkerInv, WorkerType
<1>2. "CANCELLED" \in Outcome
  BY DEF Outcome, TerminalStatus
<1>3. {"claimed", "starting", "refused", "emitting", "executing", "returned",
       "failing"} \subseteq ExecutePC /\ ExecutePC \subseteq PC
  BY DEF ExecutePC, PC
<1>4. pc[w] \in ExecutePC /\ hb' = hb /\ UNCHANGED <<job, expired, candidates, crashes>>
  BY <1>3 DEF ExecutorStep, ExecBegin, ExecEnterRunning, ExecRefused,
     ExecEmitStarted, ExecReturn, ExecRaise
<1>5. t.run \in Runs /\ t.number \in AttemptNumber
  BY <1>4, TokenFacts
<1>6. pc[w] = "executing" => Started
  BY <1>4 DEF IInv, WorkerInv, OutcomesMatch, OutcomeOK
<1> HIDE DEF Started
<1>7. CASE ExecBegin(w)
  <2>1. DbStep
    BY <1>1, <1>7, DbUnchanged DEF ExecBegin
  <2>2. CASE /\ outcome' = [outcome EXCEPT ![w] = "CANCELLED"]
             /\ pc' = [pc EXCEPT ![w] = "returned"]
    BY <1>4, <2>1, <2>2, WorkerFindsCancelled
  <2>3. CASE /\ outcome' = outcome
             /\ pc' = [pc EXCEPT ![w] = "starting"]
    BY <1>4, <2>1, <2>3, WorkerGoesOn
  <2> QED BY <1>7, <2>1, <2>2, <2>3 DEF ExecBegin, Goto
<1>8. CASE ExecEnterRunning(w)
  <2>1. DbStep
    <3>1. CASE UNCHANGED run
      BY <1>1, <1>8, <3>1, DbUnchanged DEF ExecEnterRunning, dbVars
    <3>2. CASE run[t.run].status = "QUEUED"
      BY <1>1, <1>5, <1>8, <3>2, EnterRunningStep
         DEF ExecEnterRunning, Startable
    <3> QED BY <1>8, <3>1, <3>2 DEF ExecEnterRunning, Startable
  <2>2. outcome' = outcome
    BY <1>8 DEF ExecEnterRunning
  <2>3. CASE pc' = [pc EXCEPT ![w] = "emitting"]
    BY <1>4, <2>1, <2>2, <2>3, WorkerGoesOn
  <2>4. CASE pc' = [pc EXCEPT ![w] = "refused"]
    BY <1>4, <2>1, <2>2, <2>4, WorkerGoesOn
  <2> QED BY <1>8, <2>1, <2>3, <2>4 DEF ExecEnterRunning, Goto
<1>9. CASE ExecRefused(w)
  <2>1. DbStep
    BY <1>1, <1>9, DbUnchanged DEF ExecRefused
  <2>2. CASE /\ outcome' = [outcome EXCEPT ![w] = "CANCELLED"]
             /\ pc' = [pc EXCEPT ![w] = "returned"]
    BY <1>4, <2>1, <2>2, WorkerFindsCancelled
  <2>3. CASE /\ outcome' = outcome
             /\ pc' = [pc EXCEPT ![w] = "failing"]
    BY <1>4, <2>1, <2>3, WorkerGoesOn
  <2> QED BY <1>9, <2>1, <2>2, <2>3 DEF ExecRefused, Goto
<1>10. CASE ExecEmitStarted(w)
  <2>1. /\ events' = [events EXCEPT ![t.run] = Inserted(@, StartedEvent(t.number))]
        /\ UNCHANGED <<run, attempt, outbox>>
        /\ outcome' = outcome
        /\ pc' = [pc EXCEPT ![w] = "executing"]
    BY <1>10 DEF ExecEmitStarted, StartedEvent, Goto
  <2>2. DbStep
    BY <1>1, <1>5, <2>1, EmitStartedStep
  <2>3. StartedEvent(t.number) \in Event
    BY <1>4, TokenFacts
  <2>4. HasEvent(events'[t.run], StartedEvent(t.number))
    BY <1>1, <1>5, <2>1, <2>3, RowFacts, InsertedFacts DEF DbInv, DbType
  <2>5. OutcomeOK("executing", t.number, outcome[w], events'[t.run])
    BY <2>4 DEF OutcomeOK
  <2> QED BY <1>1, <1>3, <1>4, <2>1, <2>2, <2>5, WorkerGoes
<1>11. CASE \E result \in Outcome \ {"NONE"} : ExecReturn(w, result)
  <2>1. PICK result \in Outcome \ {"NONE"} : ExecReturn(w, result)
    BY <1>11
  <2> DEFINE res == IF run[t.run].status = "CANCELLED" THEN "CANCELLED" ELSE result
  <2>2. DbStep /\ events' = events
    BY <1>1, <2>1, DbUnchanged DEF ExecReturn, dbVars
  <2>3. Started
    BY <1>6, <2>1 DEF ExecReturn
  <2>4. OutcomeOK("returned", t.number, res, events'[t.run])
    BY <2>2, <2>3 DEF OutcomeOK, Started
  <2>5. res \in Outcome
    BY <1>2
  <2>6. /\ outcome' = [outcome EXCEPT ![w] = res]
        /\ pc' = [pc EXCEPT ![w] = "returned"]
    BY <2>1 DEF ExecReturn, Goto
  <2> HIDE DEF res
  <2> QED BY <1>1, <1>3, <1>4, <2>2, <2>4, <2>5, <2>6, WorkerGoes
<1>12. CASE ExecRaise(w)
  <2>1. DbStep
    BY <1>1, <1>12, DbUnchanged DEF ExecRaise
  <2>2. outcome' = outcome /\ pc' = [pc EXCEPT ![w] = "failing"]
    BY <1>12 DEF ExecRaise, Goto
  <2> QED BY <1>4, <2>1, <2>2, WorkerGoesOn
<1> QED BY <1>7, <1>8, <1>9, <1>10, <1>11, <1>12 DEF ExecutorStep

\* finalize_attempt: its fence says that the run is open, so the requested
\* status becomes the final one and no terminal event is there yet.
LEMMA FinalizeStep ==
  ASSUME IInv, NEW w \in Workers, FinalizeCommit(w)
  PROVE  DbStep
<1> DEFINE t == job[w]
           r == t.run
           s == outcome[w]
           e == [type |-> TerminalEventType(s), attempt |-> t.number]
<1>1. DbInv /\ pc[w] = "finalizing" /\ pc[w] \in ExecutePC
  BY DEF IInv, FinalizeCommit, ExecutePC
<1>2. r \in Runs /\ t.number \in AttemptNumber
  BY <1>1, TokenFacts
<1>3. attempt[r][t.number].status = "RUNNING"
  BY DEF FinalizeCommit, Fenced
<1>4. attempt[r][t.number].status \in LiveStatus
  BY <1>3 DEF LiveStatus
<1>5. run[r].status \in OpenStatus
  BY <1>1, <1>2, <1>4, RowFacts, LiveIsCurrent
<1>6. run[r].status # "CANCELLED" /\ run[r].status \notin TerminalStatus
  BY <1>5 DEF OpenStatus, TerminalStatus
<1>7. /\ s \in TerminalStatus
      /\ s # "CANCELLED" => HasEvent(events[r], StartedEvent(t.number))
  BY <1>1 DEF IInv, WorkerInv, OutcomesMatch, OutcomeOK
<1>8. ~ \E i \in DOMAIN events[r] : events[r][i].type = "run.cancelled"
  <2>1. EventsRow(run[r], events[r])
    BY <1>1, <1>2, RowFacts
  <2> QED BY <1>6, <2>1 DEF EventsRow, IsTerminal, TerminalType
<1>9. /\ run' = [run EXCEPT ![r] = Moved(@, s, 0)]
      /\ attempt' = [attempt EXCEPT ![r][t.number] = Closed(@, s)]
      /\ events' = [events EXCEPT ![r] = Inserted(@, e)]
      /\ Publish(r)
  BY <1>6, <1>8 DEF FinalizeCommit
<1>10. e \in Event /\ e.type = TerminalEventType(s) /\ e.attempt = t.number
  BY <1>2, LimitsAssumption
     DEF Event, EventType, TerminalType, TerminalEventType, AttemptNumber
<1>11. s = "COMPLETED" =>
         HasEvent(events[r], [type |-> "run.started", attempt |-> e.attempt])
  BY <1>7, <1>10 DEF StartedEvent
<1> HIDE DEF r, s, e, t
<1> QED BY <1>1, <1>2, <1>4, <1>7, <1>9, <1>10, <1>11, RunEnds

\* Finalizing, failing and ending an attempt preserve the invariant.
LEMMA SettleSteps ==
  ASSUME IInv, NEW w \in Workers, SettleStep(w)
  PROVE  DbStep /\ IInv'
<1> DEFINE t == job[w]
<1>1. DbInv /\ WorkerType
  BY DEF IInv, WorkerInv
<1>2. pc[w] \in ExecutePC
  BY DEF SettleStep, LeaseLost, ResolveOutcome, FinalizeCommit, FinalizeRefused,
     FailAttempt, EndExecute, ExecutePC
<1>3. CASE LeaseLost(w)
  BY <1>1, <1>2, <1>3, DbUnchanged, WorkerGoesOn DEF LeaseLost, Goto
<1>4. CASE ResolveOutcome(w)
  <2>1. DbStep /\ events' = events
    BY <1>1, <1>4, DbUnchanged DEF ResolveOutcome, dbVars
  <2>2. UNCHANGED <<job, expired, candidates, hb, crashes>> /\ pc[w] = "returned"
    BY <1>4 DEF ResolveOutcome
  <2>3. CASE outcome' = outcome /\ pc' = [pc EXCEPT ![w] = "failing"]
    BY <1>2, <2>1, <2>2, <2>3, WorkerGoesOn
  <2>4. CASE /\ outcome[w] # "RETRY"
             /\ pc' = [pc EXCEPT ![w] = "finalizing"]
             /\ outcome' = [outcome EXCEPT ![w] =
                              IF run[t.run].status = "CANCELLED"
                              THEN "CANCELLED" ELSE @]
    <3> DEFINE res == IF run[t.run].status = "CANCELLED" THEN "CANCELLED"
                      ELSE outcome[w]
    <3>1. outcome' = [outcome EXCEPT ![w] = res] /\ outcome[w] \in Outcome
      BY <1>1, <2>4 DEF WorkerType
    <3>2. OutcomeOK("returned", t.number, outcome[w], events[t.run])
      BY <1>2, <2>2 DEF IInv, WorkerInv, OutcomesMatch
    <3>3. res \in Outcome /\ (res # "CANCELLED" => res = outcome[w])
      BY <3>1 DEF Outcome, TerminalStatus
    <3>4. outcome[w] # "NONE"
      BY <3>2 DEF OutcomeOK
    <3>5. res \in TerminalStatus
      BY <2>4, <3>1, <3>3, <3>4 DEF Outcome, TerminalStatus
    <3>6. OutcomeOK("finalizing", t.number, res, events'[t.run])
      BY <2>1, <3>2, <3>3, <3>5 DEF OutcomeOK
    <3>7. "finalizing" \in PC /\ hb' \in [Workers -> {"off", "on", "lost"}]
      BY <1>1, <2>2 DEF PC, ExecutePC, WorkerType
    <3> HIDE DEF res
    <3> QED BY <1>2, <2>1, <2>2, <2>4, <3>1, <3>3, <3>6, <3>7, WorkerGoes
  <2> QED BY <1>4, <2>1, <2>3, <2>4 DEF ResolveOutcome, Goto
<1>5. CASE FinalizeCommit(w)
  <2>1. DbStep
    BY <1>5, FinalizeStep
  <2> QED BY <1>2, <1>5, <2>1, WorkerGoesOn DEF FinalizeCommit, Goto
<1>6. CASE FinalizeRefused(w)
  BY <1>1, <1>2, <1>6, DbUnchanged, WorkerGoesOn DEF FinalizeRefused, Goto
<1>7. CASE FailAttempt(w)
  <2>1. t.run \in Runs /\ t.number \in AttemptNumber
    BY <1>2, TokenFacts
  <2>2. DbStep
    BY <1>1, <1>7, <2>1, DbUnchanged, TransitionFailedStep
       DEF FailAttempt, Fenced, LiveStatus
  <2> QED BY <1>2, <1>7, <2>2, WorkerGoesOn DEF FailAttempt, Goto
<1>8. CASE EndExecute(w)
  <2>1. DbStep
    BY <1>1, <1>8, DbUnchanged DEF EndExecute
  <2>2. WorkerType'
    BY <1>1, <1>8, LimitsAssumption
       DEF EndExecute, Goto, WorkerType, PC, ScanPC, NoToken, Outcome
  <2>3. /\ pc'[w] \in {"down", "scanning"}
        /\ \A v \in Workers : v # w =>
             pc'[v] = pc[v] /\ job'[v] = job[v] /\ outcome'[v] = outcome[v]
    BY <1>1, <1>8 DEF EndExecute, Goto, WorkerType
  <2>4. pc'[w] # "checked" /\ pc'[w] \notin ExecutePC
    BY <2>3 DEF ExecutePC
  <2> QED BY <2>1, <2>2, <2>3, <2>4, OneWorker
<1> QED BY <1>3, <1>4, <1>5, <1>6, <1>7, <1>8 DEF SettleStep

\* A crash, or a restart, takes a worker out of its attempt.
LEMMA CrashSteps ==
  ASSUME IInv, NEW w \in Workers, Crash(w) \/ Restart(w)
  PROVE  DbStep /\ IInv'
<1>1. DbInv /\ WorkerType
  BY DEF IInv, WorkerInv
<1>2. DbStep
  BY <1>1, DbUnchanged DEF Crash, Restart
<1>3. WorkerType'
  <2>1. CASE Crash(w)
    BY <1>1, <2>1, LimitsAssumption
       DEF Crash, Goto, WorkerType, PC, ScanPC, NoToken, Outcome
  <2>2. CASE Restart(w)
    BY <1>1, <2>2 DEF Restart, Goto, WorkerType, PC, ScanPC
  <2> QED BY <2>1, <2>2
<1>4. /\ pc'[w] \in {"down", "idle"}
      /\ \A v \in Workers : v # w =>
           pc'[v] = pc[v] /\ job'[v] = job[v] /\ outcome'[v] = outcome[v]
  BY <1>1 DEF Crash, Restart, Goto, WorkerType
<1>5. pc'[w] # "checked" /\ pc'[w] \notin ExecutePC
  BY <1>4 DEF ExecutePC
<1> QED BY <1>2, <1>3, <1>4, <1>5, OneWorker

\* Every step preserves the invariant and advances the rows.
LEMMA NextSteps ==
  ASSUME IInv, [Next]_vars
  PROVE  DbStep /\ IInv'
<1>1. CASE Next
  BY <1>1, ApiSteps, ScanSteps, ExecutorSteps, SettleSteps, HeartbeatSteps,
     CrashSteps, TickSteps DEF Next, WorkerStep
<1>2. CASE UNCHANGED vars
  <2>1. UNCHANGED dbVars /\ UNCHANGED workerVars /\ crashes' = crashes
    BY <1>2 DEF vars
  <2>2. DbStep
    BY <2>1, DbUnchanged DEF IInv
  <2> QED BY <2>1, <2>2, NoWorkerStep, CrashesType
<1> QED BY <1>1, <1>2

\* The invariant holds before the first submission.
LEMMA InitInv ==
  ASSUME Init
  PROVE  IInv
<1>1. DbType
  BY LimitsAssumption
     DEF Init, DbType, RunRow, AttemptRow, RunStatus, AttemptStatus, NoRun, NoAttempt
<1>2. ASSUME NEW r \in Runs
      PROVE  RowInv(run[r], attempt[r], events[r], outbox[r])
  <2>1. /\ run[r] = NoRun /\ events[r] = <<>> /\ outbox[r] = "absent"
        /\ \A n \in AttemptNumber : attempt[r][n] = NoAttempt
    BY DEF Init
  <2>2. RowType(run[r], attempt[r], events[r], outbox[r])
    BY <1>1 DEF DbType, RowType
  <2>3. AttemptsRow(run[r], attempt[r]) /\ LeasesRow(attempt[r])
    BY <2>1, LimitsAssumption
       DEF AttemptsRow, LeasesRow, NoRun, NoAttempt, AttemptNumber, OpenStatus,
           TerminalStatus
  <2>4. EventsRow(run[r], events[r]) /\ StartedRow(events[r])
    BY <2>1 DEF EventsRow, StartedRow, NoRun, TerminalStatus
  <2>5. OutboxRow(run[r], outbox[r])
    BY <2>1 DEF OutboxRow, NoRun, TerminalStatus
  <2> QED BY <2>2, <2>3, <2>4, <2>5 DEF RowInv
<1>3. WorkerType
  BY LimitsAssumption
     DEF Init, WorkerType, PC, ScanPC, NoToken, Outcome
<1>4. TokensMatch /\ OutcomesMatch
  BY DEF Init, TokensMatch, OutcomesMatch, ExecutePC
<1> QED BY <1>1, <1>2, <1>3, <1>4 DEF IInv, DbInv, WorkerInv

-----------------------------------------------------------------------------
\* The theorems

\* The invariant is inductive: it holds in every reachable state.
THEOREM Invariance == Spec => []IInv
<1>1. Init => IInv
  BY InitInv
<1>2. IInv /\ [Next]_vars => IInv'
  BY NextSteps
<1> QED BY <1>1, <1>2, PTL DEF Spec

\* Every table and every worker's local state stays within its type,
\* whatever the number of runs, workers, attempts and crashes.
THEOREM TypeCorrect == Spec => []TypeOK
<1>1. IInv => TypeOK
  BY DEF IInv, DbInv, WorkerInv, DbType, WorkerType, TypeOK
<1> QED BY <1>1, Invariance, PTL

\* Rows of runs and of attempts agree in every reachable state: no
\* interleaving of claim, finalize_attempt, transition_failed_attempt and
\* cancel loses an open run or leaves it with two live attempts.
THEOREM AttemptsAgree == Spec => []AttemptsMatchRun
<1>1. IInv => AttemptsMatchRun
  BY DEF IInv, DbInv, RowInv, AttemptsRow, AttemptsMatchRun
<1> QED BY <1>1, Invariance, PTL

\* The log of a run holds exactly one terminal event once the run is over and
\* none before, and it tells how the run ended.
THEOREM EventsAgree == Spec => []EventsMatchRun
<1>1. IInv => EventsMatchRun
  BY DEF IInv, DbInv, RowInv, EventsRow, EventsMatchRun
<1> QED BY <1>1, Invariance, PTL

\* At most one worker can pass a fence of a run, although all workers may run
\* under one worker id: the current attempt is the only live one, and no two
\* workers hold the same version of it.
THEOREM FencingHolds == Spec => []SingleOwner
<1>1. IInv => SingleOwner
  <2> SUFFICES ASSUME IInv, NEW v \in Workers, NEW w \in Workers,
                      Owns(v), Owns(w), job[v].run = job[w].run
               PROVE  v = w
    BY DEF SingleOwner
  <2> DEFINE r == job[w].run
  <2>1. pc[v] \in ExecutePC /\ pc[w] \in ExecutePC /\ DbInv
    BY DEF Owns, IInv
  <2>2. /\ job[v] \in Token /\ job[w] \in Token /\ r \in Runs
        /\ job[v].number \in AttemptNumber /\ job[w].number \in AttemptNumber
    BY <2>1, TokenFacts
  <2>3. /\ attempt[r][job[v].number].status \in LiveStatus
        /\ attempt[r][job[w].number].status \in LiveStatus
    BY DEF Owns, Fenced, LiveStatus
  <2>4. job[v].number = job[w].number
    BY <2>1, <2>2, <2>3, RowFacts, LiveIsCurrent
  <2>5. job[v].version = job[w].version
    BY <2>4 DEF Owns, Fenced
  <2>6. job[v] = job[w]
    BY <2>2, <2>4, <2>5 DEF Token
  <2> QED BY <2>1, <2>6 DEF IInv, WorkerInv, TokensMatch
<1> QED BY <1>1, Invariance, PTL

\* Whatever ends a run publishes its outbox row.
THEOREM OutboxAgrees == Spec => []OutboxSettled
<1>1. IInv => OutboxSettled
  BY DEF IInv, DbInv, RowInv, OutboxRow, OutboxSettled
<1> QED BY <1>1, Invariance, PTL

\* run.completed is never reported for an attempt before its run.started.
THEOREM CompletionFollowsStart == Spec => []CompletedWasStarted
<1>1. IInv => CompletedWasStarted
  BY DEF IInv, DbInv, RowInv, StartedRow, CompletedWasStarted
<1> QED BY <1>1, Invariance, PTL

\* A run that is over stays as it ended.
THEOREM TerminalIsForever == Spec => TerminalForever
<1>1. IInv /\ [Next]_vars =>
        [\A r \in Runs :
           run[r].status \in TerminalStatus =>
             /\ run'[r].status = run[r].status
             /\ run'[r].current_attempt = run[r].current_attempt]_vars
  <2>1. IInv /\ [Next]_vars => DbStep
    BY NextSteps
  <2> QED BY <2>1 DEF DbStep, RunAdvances
<1> QED BY <1>1, Invariance, PTL DEF Spec, TerminalForever

\* A closed attempt row is never written again, and no token is reissued.
THEOREM AttemptsAdvanceOnly == Spec => AttemptsOnlyAdvance
<1>1. IInv /\ [Next]_vars =>
        [\A r \in Runs, n \in AttemptNumber :
           /\ attempt[r][n].status \in TerminalStatus =>
                attempt'[r][n] = attempt[r][n]
           /\ attempt'[r][n].version >= attempt[r][n].version
           /\ attempt'[r][n].worker # attempt[r][n].worker =>
                attempt'[r][n].version > attempt[r][n].version]_vars
  <2>1. IInv /\ [Next]_vars => DbStep
    BY NextSteps
  <2> QED BY <2>1 DEF DbStep, AttemptsAdvance
<1> QED BY <1>1, Invariance, PTL DEF Spec, AttemptsOnlyAdvance

-----------------------------------------------------------------------------
\* The queue implements RunLifecycle

\* The terminal events of a log, as RunLifecycle sees them.
Ends(ev) == {ev[i].type : i \in {j \in DOMAIN ev : IsTerminal(ev[j])}}

\* The terminal events of a log, as RunLifecycle sees them.
LEMMA EndsFacts ==
  ASSUME NEW rr, NEW ev, EventsRow(rr, ev)
  PROVE  Ends(ev) = IF rr.status \in TerminalStatus
                    THEN {TerminalEventType(rr.status)} ELSE {}
BY DEF Ends, EventsRow

\* RunLifecycle names the ends of a run as the queue does.
LEMMA EndEventFacts ==
  /\ DOMAIN Lifecycle!EndEvent = TerminalStatus
  /\ \A s \in TerminalStatus : Lifecycle!EndEvent[s] = TerminalEventType(s)
BY DEF Lifecycle!EndEvent, TerminalStatus, TerminalEventType

\* A step of the tables is a step of RunLifecycle, or leaves it alone.
LEMMA DbStepMaps ==
  ASSUME DbInv, DbStep
  PROVE  [Lifecycle!Next]_(Lifecycle!vars)
<1> DEFINE status == [r \in Runs |-> Shown(run[r].status)]
           log == [r \in Runs |-> Ends(events[r])]
           status2 == [r \in Runs |-> Shown(run'[r].status)]
           log2 == [r \in Runs |-> Ends(events'[r])]
<1>1. ASSUME NEW r \in Runs
      PROVE  /\ log[r] = IF run[r].status \in TerminalStatus
                         THEN {TerminalEventType(run[r].status)} ELSE {}
             /\ log2[r] = IF run'[r].status \in TerminalStatus
                          THEN {TerminalEventType(run'[r].status)} ELSE {}
  <2>1. EventsRow(run[r], events[r])
    BY RowFacts
  <2>2. EventsRow(run'[r], events'[r])
    BY DEF DbStep, RowInv
  <2> QED BY <2>1, <2>2, EndsFacts
<1>2. ASSUME NEW r \in Runs
      PROVE  /\ run[r].status \in RunStatus /\ run'[r].status \in RunStatus
             /\ run[r].status \in TerminalStatus => run'[r].status = run[r].status
             /\ run[r].status = "NONE" => run'[r].status \in {"NONE", "QUEUED"}
             /\ run[r].status \in OpenStatus => run'[r].status # "NONE"
  BY DEF DbStep, RunAdvances, DbInv, DbType, RunRow
<1>3. CASE \A r \in Runs : status2[r] = status[r]
  <2>1. \A r \in Runs : log2[r] = log[r]
    BY <1>1, <1>2, <1>3 DEF Shown, RunStatus, OpenStatus, TerminalStatus
  <2>2. status2 = status /\ log2 = log
    BY <1>3, <2>1
  <2> QED BY <2>2 DEF Lifecycle!vars, Ends
<1>4. CASE \E r \in Runs : status2[r] # status[r]
  <2>1. PICK r \in Runs : status2[r] # status[r]
    BY <1>4
  <2>2. \A q \in Runs : q # r => status2[q] = status[q] /\ log2[q] = log[q]
    <3>1. Touched(r)
      BY <2>1 DEF Touched
    <3>2. \A q \in Runs : q # r => ~ Touched(q)
      BY <3>1 DEF DbStep
    <3> QED BY <3>2 DEF Touched
  <2>3. status2 = [status EXCEPT ![r] = status2[r]] /\ log2 = [log EXCEPT ![r] = log2[r]]
    BY <2>2
  <2>4. CASE status[r] = "NONE"
    <3>1. run[r].status = "NONE" /\ run'[r].status = "QUEUED"
      BY <1>2, <2>1, <2>4 DEF Shown, RunStatus, OpenStatus, TerminalStatus
    <3>2. status2[r] = "OPEN" /\ log2[r] = log[r]
      BY <1>1, <3>1 DEF Shown, OpenStatus, TerminalStatus
    <3>3. log2 = log
      BY <2>3, <3>2
    <3>4. Lifecycle!Submit(r)
      BY <2>3, <2>4, <3>2, <3>3 DEF Lifecycle!Submit, Ends
    <3> QED BY <3>4 DEF Lifecycle!Next
  <2>5. CASE status[r] = "OPEN"
    <3>1. PICK how \in TerminalStatus : how = run'[r].status
      BY <1>2, <2>1, <2>5 DEF Shown, RunStatus, OpenStatus, TerminalStatus
    <3>2. status2[r] = how /\ log2[r] = {TerminalEventType(how)}
      BY <1>1, <3>1 DEF Shown, OpenStatus, TerminalStatus
    <3>3. log2[r] = {Lifecycle!EndEvent[how]} /\ how \in DOMAIN Lifecycle!EndEvent
      BY <3>1, <3>2, EndEventFacts
    <3>4. Lifecycle!End(r, how)
      BY <2>3, <2>5, <3>2, <3>3 DEF Lifecycle!End, Ends
    <3> QED BY <3>3, <3>4 DEF Lifecycle!Next
  <2>6. status[r] \in {"NONE", "OPEN"}
    BY <1>2, <2>1 DEF Shown, RunStatus, OpenStatus, TerminalStatus
  <2> QED BY <2>4, <2>5, <2>6
<1> QED BY <1>3, <1>4

\* The queue implements the lifecycle a client relies on: a submitted run ends
\* at most once, and the event that tells how appears in the same instant.
THEOREM QueueImplementsLifecycle == Spec => ImplementsLifecycle
<1>1. Init => Lifecycle!Init
  <2> SUFFICES ASSUME Init PROVE Lifecycle!Init
    OBVIOUS
  <2>1. \A r \in Runs : Shown(run[r].status) = "NONE"
    BY DEF Init, NoRun, Shown, OpenStatus
  <2>2. \A r \in Runs : Ends(events[r]) = {}
    BY DEF Init, Ends
  <2> QED BY <2>1, <2>2 DEF Lifecycle!Init, Ends
<1>2. IInv /\ [Next]_vars => [Lifecycle!Next]_(Lifecycle!vars)
  BY NextSteps, DbStepMaps DEF IInv
<1> QED BY <1>1, <1>2, Invariance, PTL DEF Spec, ImplementsLifecycle, Lifecycle!Spec

\* Attempts, events and outbox always tell the same of a run as its own row,
\* whichever transactions of the repository committed, in whichever order.
THEOREM RowsAlwaysAgree == Spec => []RowsAgree
<1>1. TypeOK /\ AttemptsMatchRun /\ EventsMatchRun /\ OutboxSettled /\ CompletedWasStarted => RowsAgree
  BY DEF RowsAgree
<1> QED BY <1>1, TypeCorrect, AttemptsAgree, EventsAgree, OutboxAgrees, CompletionFollowsStart, PTL

\* No transaction writes to a run that is over or to a closed attempt, and no
\* fencing token is issued twice.
THEOREM StepsOnlyForward == Spec => OnlyForward
BY TerminalIsForever, AttemptsAdvanceOnly DEF OnlyForward

-----------------------------------------------------------------------------
\* The in-memory repository

\* Max returns the largest member.
LEMMA MaxIs ==
  ASSUME NEW S \in SUBSET Nat, NEW n \in S, \A m \in S : m <= n
  PROVE  Max(S) = n
<1>1. \E x \in S : \A y \in S : x >= y
  OBVIOUS
<1>2. Max(S) \in S /\ \A y \in S : Max(S) >= y
  BY <1>1 DEF Max
<1>3. Max(S) \in Nat /\ n \in Nat /\ Max(S) >= n /\ Max(S) <= n
  BY <1>2
<1> QED BY <1>3

\* Min of two numbers is the smaller.
LEMMA MinOfTwo ==
  ASSUME NEW a \in Nat, NEW b \in Nat
  PROVE  Min({a, b}) = IF a <= b THEN a ELSE b
<1>1. CASE a <= b
  BY <1>1 DEF Min
<1>2. CASE ~(a <= b)
  BY <1>2 DEF Min
<1> QED BY <1>1, <1>2

\* The rows of a run, as the in-memory repository keeps them.
RowsType == [run: RunRow, attempts: [AttemptNumber -> AttemptRow], log: Seq(Event),
             outbox: {"absent", "pending", "published"}]

\* The rows of a run have their types.
LEMMA RowsTyped ==
  ASSUME DbInv, NEW r \in Runs
  PROVE  Rows(r) \in RowsType
BY RowFacts DEF Rows, RowsType

\* Its methods, written out as the rows they leave.
LEMMA CasIs ==
  ASSUME NEW d \in RowsType, NEW expected, NEW new, d.run.status \in expected
  PROVE  compare_and_set_status(d, expected, new) =
           [run |-> [status |-> new, current_attempt |-> d.run.current_attempt,
                     retry_count |-> d.run.retry_count, retry_wait |-> d.run.retry_wait],
            attempts |-> d.attempts, log |-> d.log, outbox |-> d.outbox]
BY DEF compare_and_set_status, RowsType, RunRow

\* append_event inserts the event unless it is there.
LEMMA AppendIs ==
  ASSUME NEW d \in RowsType, NEW e
  PROVE  append_event(d, e) =
           [run |-> d.run, attempts |-> d.attempts, log |-> Inserted(d.log, e),
            outbox |-> d.outbox]
<1>1. (e \in {d.log[i] : i \in DOMAIN d.log}) <=> (\E i \in DOMAIN d.log : d.log[i] = e)
  OBVIOUS
<1> DEFINE new == Inserted(d.log, e)
<1>2. append_event(d, e) = [d EXCEPT !.log = new]
  BY <1>1 DEF append_event, Inserted
<1> HIDE DEF new
<1>3. append_event(d, e) =
        [run |-> d.run, attempts |-> d.attempts, log |-> new, outbox |-> d.outbox]
  BY <1>2 DEF RowsType
<1> QED BY <1>3 DEF new

\* claim takes the last attempt, when it is up for a claim.
LEMMA ClaimIs ==
  ASSUME NEW d \in RowsType, NEW n \in AttemptNumber, NEW worker,
         n \in Known(d), \A m \in Known(d) : m <= n,
         \/ d.attempts[n].status = "RETRYABLE"
         \/ d.attempts[n].status = "RUNNING" /\ d.attempts[n].lease = 0
  PROVE  claim(d, worker) =
           [run |-> d.run,
            attempts |-> [d.attempts EXCEPT ![n] =
               [status |-> "RUNNING", worker |-> worker, lease |-> LeaseS,
                version |-> d.attempts[n].version + 1]],
            log |-> d.log, outbox |-> d.outbox]
<1>1. Max(Known(d)) = n
  BY MaxIs DEF Known, AttemptNumber
<1>2. Known(d) # {}
  OBVIOUS
<1> QED BY <1>1, <1>2 DEF claim, RowsType

\* heartbeat renews the lease of its holder.
LEMMA HeartbeatIs ==
  ASSUME NEW d \in RowsType, NEW t, t.number \in AttemptNumber, NEW worker,
         Holds(d, t, worker), d.attempts[t.number].lease > 0
  PROVE  heartbeat(d, t, worker) =
           [run |-> d.run,
            attempts |-> [d.attempts EXCEPT ![t.number] =
                            Leased(d.attempts[t.number], LeaseS)],
            log |-> d.log, outbox |-> d.outbox]
<1> DEFINE n == t.number
           a2 == [d.attempts[n] EXCEPT !.lease = LeaseS]
<1>1. a2 = Leased(d.attempts[n], LeaseS)
  BY DEF RowsType, AttemptRow, Leased
<1>2. heartbeat(d, t, worker) = [d EXCEPT !.attempts = [d.attempts EXCEPT ![n] = a2]]
  BY DEF heartbeat
<1> HIDE DEF a2, n
<1>3. heartbeat(d, t, worker) =
        [run |-> d.run, attempts |-> [d.attempts EXCEPT ![n] = a2], log |-> d.log,
         outbox |-> d.outbox]
  BY <1>2 DEF RowsType
<1> QED BY <1>1, <1>3 DEF n

\* One field of a run row, or of a run's rows, after the other.
LEMMA MovedIs ==
  ASSUME NEW row \in RunRow, NEW s, NEW wait
  PROVE  [row EXCEPT !.status = s, !.retry_wait = wait] = Moved(row, s, wait)
<1> DEFINE r1 == [row EXCEPT !.status = s]
<1>1. r1 = [status |-> s, current_attempt |-> row.current_attempt,
            retry_count |-> row.retry_count, retry_wait |-> row.retry_wait]
  BY DEF RunRow
<1>2. [row EXCEPT !.status = s, !.retry_wait = wait] = [r1 EXCEPT !.retry_wait = wait]
  OBVIOUS
<1> HIDE DEF r1
<1>3. [r1 EXCEPT !.retry_wait = wait] = Moved(row, s, wait)
  BY <1>1 DEF Moved
<1> QED BY <1>2, <1>3

\* The run row replaced.
LEMMA RunIs ==
  ASSUME NEW a, NEW b, NEW c, NEW e, NEW x, NEW d,
         d = [run |-> a, attempts |-> b, log |-> c, outbox |-> e]
  PROVE  [d EXCEPT !.run = x] = [run |-> x, attempts |-> b, log |-> c, outbox |-> e]
OBVIOUS

\* The attempts replaced.
LEMMA AttemptsIs ==
  ASSUME NEW a, NEW b, NEW c, NEW e, NEW x, NEW d,
         d = [run |-> a, attempts |-> b, log |-> c, outbox |-> e]
  PROVE  [d EXCEPT !.attempts = x] = [run |-> a, attempts |-> x, log |-> c, outbox |-> e]
OBVIOUS

\* The outbox row replaced.
LEMMA OutboxIs ==
  ASSUME NEW a, NEW b, NEW c, NEW e, NEW x, NEW d,
         d = [run |-> a, attempts |-> b, log |-> c, outbox |-> e]
  PROVE  [d EXCEPT !.outbox = x] = [run |-> a, attempts |-> b, log |-> c, outbox |-> x]
OBVIOUS

\* The run's status replaced.
LEMMA StatusIs ==
  ASSUME NEW a, NEW b, NEW c, NEW e, NEW x, NEW d,
         d = [run |-> a, attempts |-> b, log |-> c, outbox |-> e]
  PROVE  [d EXCEPT !.run.status = x] =
           [run |-> [a EXCEPT !.status = x], attempts |-> b, log |-> c, outbox |-> e]
<1> DEFINE y == [a EXCEPT !.status = x]
<1>1. d.run = a
  OBVIOUS
<1>2. [d EXCEPT !.run.status = x] = [d EXCEPT !.run = y]
  BY <1>1
<1> HIDE DEF y
<1> QED BY <1>2, RunIs

\* The run's backoff replaced.
LEMMA WaitIs ==
  ASSUME NEW a, NEW b, NEW c, NEW e, NEW x, NEW d,
         d = [run |-> a, attempts |-> b, log |-> c, outbox |-> e]
  PROVE  [d EXCEPT !.run.retry_wait = x] =
           [run |-> [a EXCEPT !.retry_wait = x], attempts |-> b, log |-> c, outbox |-> e]
<1> DEFINE y == [a EXCEPT !.retry_wait = x]
<1>1. d.run = a
  OBVIOUS
<1>2. [d EXCEPT !.run.retry_wait = x] = [d EXCEPT !.run = y]
  BY <1>1
<1> HIDE DEF y
<1> QED BY <1>2, RunIs

\* One attempt replaced.
LEMMA AttemptIs ==
  ASSUME NEW a, NEW b, NEW c, NEW e, NEW n, NEW x, NEW d,
         d = [run |-> a, attempts |-> b, log |-> c, outbox |-> e]
  PROVE  [d EXCEPT !.attempts[n] = x] =
           [run |-> a, attempts |-> [b EXCEPT ![n] = x], log |-> c, outbox |-> e]
OBVIOUS

\* finalize_attempt by the holder, on an open run that nobody cancelled.
LEMMA FinalizeIs ==
  ASSUME NEW d \in RowsType, NEW t, t.number \in AttemptNumber, NEW worker, NEW requested,
         Holds(d, t, worker), d.run.status \in OpenStatus,
         \A i \in DOMAIN d.log : d.log[i].type # "run.cancelled"
  PROVE  finalize_attempt(d, t, worker, requested) =
           [run |-> Moved(d.run, requested, 0),
            attempts |-> [d.attempts EXCEPT ![t.number] = Closed(@, requested)],
            log |-> Inserted(d.log, [type |-> TerminalEventType(requested),
                                     attempt |-> t.number]),
            outbox |-> Settled(d)]
<1> DEFINE e == [type |-> TerminalEventType(requested), attempt |-> t.number]
           there == \E i \in DOMAIN d.log : d.log[i] = e
<1>1. d.run.status # "CANCELLED" /\ d.run.status \notin {"COMPLETED", "FAILED"}
  BY DEF OpenStatus
<1>2. (\E i \in DOMAIN d.log :
         d.log[i] = e \/ (requested = "CANCELLED" /\ d.log[i].type = "run.cancelled"))
      <=> there
  OBVIOUS
<1>3. [d.run EXCEPT !.status = requested, !.retry_wait = 0] = Moved(d.run, requested, 0)
  <2>1. d.run \in RunRow
    BY DEF RowsType
  <2> QED BY <2>1, MovedIs
<1> DEFINE run2 == [d.run EXCEPT !.status = requested, !.retry_wait = 0]
           attempts2 == [d.attempts EXCEPT ![t.number] = Closed(@, requested)]
<1>4. finalize_attempt(d, t, worker, requested) =
        [run |-> run2, attempts |-> attempts2,
         log |-> IF there THEN d.log ELSE Append(d.log, e), outbox |-> Settled(d)]
  BY <1>1, <1>2 DEF finalize_attempt
<1> HIDE DEF run2, attempts2
<1> QED BY <1>3, <1>4 DEF Inserted, run2, attempts2

\* transition_failed_attempt of the last attempt fails the run.
LEMMA FailLastIs ==
  ASSUME NEW d \in RowsType, NEW n \in AttemptNumber, n >= MaxAttempts,
         d.run.status # "CANCELLED", NEW delay
  PROVE  transition_failed_attempt(d, n, delay) =
           [run |-> Moved(d.run, "FAILED", 0),
            attempts |-> [d.attempts EXCEPT ![n] = Closed(@, "FAILED")],
            log |-> Inserted(d.log, [type |-> "run.failed", attempt |-> n]),
            outbox |-> Settled(d)]
<1> DEFINE e == [type |-> "run.failed", attempt |-> n]
           d2 == append_event(d, e)
           closed == Closed(d.attempts[n], "FAILED")
           ob2 == Settled(d)
           log2 == Inserted(d.log, e)
           d3 == [d2 EXCEPT !.attempts[n] = closed]
           d4 == [d3 EXCEPT !.outbox = ob2]
           d5 == [d4 EXCEPT !.run.status = "FAILED"]
           d6 == [d5 EXCEPT !.run.retry_wait = 0]
           run1 == [d.run EXCEPT !.status = "FAILED"]
<1>1. d2 = [run |-> d.run, attempts |-> d.attempts, log |-> log2, outbox |-> d.outbox]
  BY AppendIs
<1>2. d2.attempts = d.attempts
  BY <1>1
<1>3. transition_failed_attempt(d, n, delay) =
        [d2 EXCEPT !.attempts[n] = closed, !.outbox = ob2,
                   !.run.status = "FAILED", !.run.retry_wait = 0]
  <2> HIDE DEF ob2, d2
  <2>1. transition_failed_attempt(d, n, delay) =
          [d2 EXCEPT !.attempts[n] = Closed(@, "FAILED"), !.outbox = ob2,
                     !.run.status = "FAILED", !.run.retry_wait = 0]
    BY DEF transition_failed_attempt, ob2, d2
  <2> HIDE DEF closed
  <2> QED BY <1>2, <2>1 DEF closed
<1> HIDE DEF d2, ob2, log2, closed
<1>4. transition_failed_attempt(d, n, delay) = d6
  BY <1>3
<1> HIDE DEF d3, d4, d5, d6
<1>5. d3 = [run |-> d.run, attempts |-> [d.attempts EXCEPT ![n] = closed], log |-> log2,
            outbox |-> d.outbox]
  BY <1>1, AttemptIs DEF d3
<1>6. d4 = [run |-> d.run, attempts |-> [d.attempts EXCEPT ![n] = closed], log |-> log2,
            outbox |-> ob2]
  BY <1>5, OutboxIs DEF d4
<1>7. d5 = [run |-> run1, attempts |-> [d.attempts EXCEPT ![n] = closed], log |-> log2,
            outbox |-> ob2]
  BY <1>6, StatusIs DEF d5
<1>8. d6 = [run |-> [run1 EXCEPT !.retry_wait = 0],
            attempts |-> [d.attempts EXCEPT ![n] = closed], log |-> log2, outbox |-> ob2]
  BY <1>7, WaitIs DEF d6
<1>9. [run1 EXCEPT !.retry_wait = 0] = Moved(d.run, "FAILED", 0)
  <2>1. [run1 EXCEPT !.retry_wait = 0]
        = [d.run EXCEPT !.status = "FAILED", !.retry_wait = 0]
    OBVIOUS
  <2>2. d.run \in RunRow
    BY DEF RowsType
  <2> QED BY <2>1, <2>2, MovedIs
<1> QED BY <1>4, <1>8, <1>9 DEF log2, ob2, closed

\* transition_failed_attempt of an earlier attempt queues the next.
LEMMA FailRetryIs ==
  ASSUME NEW d \in RowsType, NEW n \in AttemptNumber, n < MaxAttempts,
         d.run.status # "CANCELLED", NEW delay
  PROVE  transition_failed_attempt(d, n, delay) =
           [run |-> [status |-> "QUEUED", current_attempt |-> n + 1,
                     retry_count |-> IF d.run.retry_count + 1 <= MaxAttempts - 1
                                     THEN d.run.retry_count + 1 ELSE MaxAttempts - 1,
                     retry_wait |-> delay],
            attempts |-> [d.attempts EXCEPT
                            ![n] = Closed(@, "FAILED"),
                            ![n + 1] = IF @.status = "NONE" THEN NewAttempt ELSE @],
            log |-> d.log, outbox |-> d.outbox]
<1> DEFINE c == Min({d.run.retry_count + 1, MaxAttempts - 1})
           run2 == [status |-> "QUEUED", current_attempt |-> n + 1,
                    retry_count |-> c, retry_wait |-> delay]
           a1 == [d.attempts EXCEPT ![n] = Closed(@, "FAILED")]
           a2 == [a1 EXCEPT ![n + 1] = IF @.status = "NONE" THEN NewAttempt ELSE @]
<1>1. n \in Nat /\ MaxAttempts \in Nat /\ n > 0 /\ d.run.retry_count \in Nat
      /\ MaxAttempts - 1 \in Nat
  BY LimitsAssumption DEF AttemptNumber, RowsType, RunRow
<1>2. c = IF d.run.retry_count + 1 <= MaxAttempts - 1
          THEN d.run.retry_count + 1 ELSE MaxAttempts - 1
  BY <1>1, MinOfTwo
<1> DEFINE closed == Closed(d.attempts[n], "FAILED")
           next == IF d.attempts[n + 1].status = "NONE" THEN NewAttempt
                   ELSE d.attempts[n + 1]
           d1 == [d EXCEPT !.attempts[n] = closed]
           d2 == [d1 EXCEPT !.attempts[n + 1] = next]
<1>3. transition_failed_attempt(d, n, delay) =
        [d EXCEPT !.attempts[n] = closed, !.attempts[n + 1] = next, !.run = run2]
  <2>1. ~(n >= MaxAttempts) /\ n + 1 # n
    BY <1>1
  <2> HIDE DEF run2
  <2>2. transition_failed_attempt(d, n, delay) =
          [d EXCEPT !.attempts[n] = Closed(@, "FAILED"),
                    !.attempts[n + 1] = IF @.status = "NONE" THEN NewAttempt ELSE @,
                    !.run = run2]
    BY <2>1 DEF transition_failed_attempt, run2
  <2> QED BY <2>1, <2>2
<1> HIDE DEF closed, next, run2
<1>4. transition_failed_attempt(d, n, delay) = [d2 EXCEPT !.run = run2]
  BY <1>3
<1>5. d = [run |-> d.run, attempts |-> d.attempts, log |-> d.log, outbox |-> d.outbox]
  BY DEF RowsType
<1> HIDE DEF d1, d2
<1>6. d1 = [run |-> d.run, attempts |-> [d.attempts EXCEPT ![n] = closed], log |-> d.log,
            outbox |-> d.outbox]
  BY <1>5, AttemptIs DEF d1
<1> DEFINE b1 == [d.attempts EXCEPT ![n] = closed]
<1> HIDE DEF b1
<1>7. d2 = [run |-> d.run, attempts |-> [b1 EXCEPT ![n + 1] = next], log |-> d.log,
            outbox |-> d.outbox]
  BY <1>6, AttemptIs DEF d2, b1
<1>8. [d2 EXCEPT !.run = run2] =
        [run |-> run2, attempts |-> [b1 EXCEPT ![n + 1] = next], log |-> d.log,
         outbox |-> d.outbox]
  BY <1>7, RunIs
<1>9. [b1 EXCEPT ![n + 1] = next] = a2
  <2>1. n + 1 # n
    BY <1>1
  <2> QED BY <2>1 DEF b1, next, closed
<1> HIDE DEF a2
<1> QED BY <1>2, <1>4, <1>8, <1>9 DEF run2, a2, c

\* cancel of an open run.
LEMMA CancelIs ==
  ASSUME NEW d \in RowsType, d.run.status \in OpenStatus
  PROVE  cancel(d) =
           [run |-> Moved(d.run, "CANCELLED", d.run.retry_wait),
            attempts |-> [n \in AttemptNumber |->
                            IF d.attempts[n].status \in LiveStatus
                            THEN Closed(d.attempts[n], "CANCELLED") ELSE d.attempts[n]],
            log |-> Inserted(d.log, [type |-> "run.cancelled", attempt |-> 0]),
            outbox |-> Settled(d)]
<1> DEFINE e == [type |-> "run.cancelled", attempt |-> 0]
           d2 == append_event(d, e)
           log2 == Inserted(d.log, e)
           ob2 == Settled(d)
           run2 == [d.run EXCEPT !.status = "CANCELLED"]
           attempts2 == [n \in AttemptNumber |->
                            IF d.attempts[n].status \in LiveStatus
                            THEN Closed(d.attempts[n], "CANCELLED") ELSE d.attempts[n]]
<1>1. d2 = [run |-> d.run, attempts |-> d.attempts, log |-> log2, outbox |-> d.outbox]
  BY AppendIs
<1>2. d.run.status \notin TerminalStatus
  BY DEF OpenStatus, TerminalStatus
<1>3. d2.attempts = d.attempts /\ d2.run = d.run
  BY <1>1
<1>4. cancel(d) = [d2 EXCEPT !.run.status = "CANCELLED", !.outbox = ob2,
                             !.attempts = [n \in AttemptNumber |->
                                             IF @[n].status \in LiveStatus
                                             THEN Closed(@[n], "CANCELLED") ELSE @[n]]]
  BY <1>2 DEF cancel
<1>5. cancel(d) = [d2 EXCEPT !.run.status = "CANCELLED", !.outbox = ob2,
                             !.attempts = attempts2]
  BY <1>3, <1>4
<1>6. run2 = Moved(d.run, "CANCELLED", d.run.retry_wait)
  <2>1. d.run \in RunRow
    BY DEF RowsType
  <2> QED BY <2>1 DEF RunRow, Moved
<1> HIDE DEF d2, ob2, log2, attempts2
<1> DEFINE d3 == [d2 EXCEPT !.run.status = "CANCELLED"]
           d4 == [d3 EXCEPT !.outbox = ob2]
<1>7. cancel(d) = [d4 EXCEPT !.attempts = attempts2]
  BY <1>5
<1> HIDE DEF d3, d4
<1>8. d3 = [run |-> run2, attempts |-> d.attempts, log |-> log2, outbox |-> d.outbox]
  BY <1>1, StatusIs DEF d3
<1>9. d4 = [run |-> run2, attempts |-> d.attempts, log |-> log2, outbox |-> ob2]
  BY <1>8, OutboxIs DEF d4
<1>10. [d4 EXCEPT !.attempts = attempts2] =
         [run |-> run2, attempts |-> attempts2, log |-> log2, outbox |-> ob2]
  BY <1>9, AttemptsIs
<1> QED BY <1>6, <1>7, <1>10 DEF ob2, log2, attempts2

-----------------------------------------------------------------------------
\* The two repositories, transaction by transaction

\* The last attempt that the in-memory repository knows is the current one.
LEMMA LastKnown ==
  ASSUME DbInv, NEW r \in Runs, NEW k \in Known(Rows(r))
  PROVE  /\ run[r].current_attempt \in Known(Rows(r))
         /\ \A m \in Known(Rows(r)) : m <= run[r].current_attempt
<1> DEFINE cur == run[r].current_attempt
<1>1. /\ run[r] \in RunRow /\ attempt[r] \in [AttemptNumber -> AttemptRow]
      /\ AttemptsRow(run[r], attempt[r])
  BY RowFacts
<1>2. cur \in 0..MaxAttempts /\ MaxAttempts \in Nat /\ run[r].status \in RunStatus
  BY <1>1, LimitsAssumption DEF RunRow
<1>3. \A m \in Known(Rows(r)) : m \in AttemptNumber /\ attempt[r][m].status # "NONE"
  BY DEF Known, Rows
<1>4. ASSUME NEW m \in Known(Rows(r)) PROVE m <= cur
  <2>1. m \in Nat /\ m \in AttemptNumber
    BY <1>3 DEF AttemptNumber
  <2>2. ~(m > cur)
    BY <1>1, <1>3, <2>1 DEF AttemptsRow, NoAttempt
  <2> QED BY <1>2, <2>1, <2>2
<1>5. cur \in AttemptNumber
  BY <1>2, <1>3, <1>4 DEF AttemptNumber
<1>6. attempt[r][cur].status # "NONE"
  <2>1. run[r].status # "NONE"
    BY <1>1, <1>5 DEF AttemptsRow, AttemptNumber
  <2> QED BY <1>1, <1>2, <2>1 DEF AttemptsRow, RunStatus, LiveStatus, TerminalStatus
<1>7. cur \in Known(Rows(r))
  BY <1>5, <1>6 DEF Known, Rows
<1> QED BY <1>4, <1>7

\* claim_attempt: the candidate row is the one claim takes.
LEMMA ClaimAgrees ==
  ASSUME IInv, NEW w \in Workers, Claim(w), NEW r, r = job[w].run
  PROVE  Rows(r)' = claim(Rows(r), WorkerId[w])
<1> DEFINE d == Rows(r)
           cur == run[r].current_attempt
<1>1. DbInv /\ r \in Runs /\ DbType
  BY DEF IInv, WorkerInv, TokensMatch, Claim, DbInv
<1>2. d \in RowsType
  BY <1>1, RowsTyped
<1>3. CASE \E n \in AttemptNumber : Claimable(r, n)
  <2>1. PICK n \in AttemptNumber :
          /\ Claimable(r, n)
          /\ attempt' = [attempt EXCEPT
                           ![r][n] = [status |-> "RUNNING", worker |-> WorkerId[w],
                                      lease |-> LeaseS, version |-> @.version + 1]]
    BY <1>3 DEF Claim
  <2>2. /\ run' = run /\ events' = events /\ outbox' = outbox
        /\ attempt'[r] = [attempt[r] EXCEPT
                           ![n] = [status |-> "RUNNING", worker |-> WorkerId[w],
                                   lease |-> LeaseS, version |-> attempt[r][n].version + 1]]
    BY <1>1, <2>1 DEF Claim, DbType
  <2>3. attempt[r][n].status \in LiveStatus
    BY <2>1 DEF Claimable, LiveStatus
  <2>4. n = cur
    BY <1>1, <2>3, RowFacts, LiveIsCurrent
  <2>5. n \in Known(d)
    BY <2>3 DEF Known, Rows, LiveStatus
  <2>6. \A m \in Known(d) : m <= n
    BY <1>1, <2>4, <2>5, LastKnown
  <2>7. \/ d.attempts[n].status = "RETRYABLE"
        \/ d.attempts[n].status = "RUNNING" /\ d.attempts[n].lease = 0
    BY <2>1 DEF Claimable, Rows
  <2> DEFINE claimed == [status |-> "RUNNING", worker |-> WorkerId[w], lease |-> LeaseS,
                         version |-> attempt[r][n].version + 1]
  <2> HIDE DEF d, claimed
  <2>8. claim(d, WorkerId[w]) =
          [run |-> d.run, attempts |-> [d.attempts EXCEPT ![n] =
               [status |-> "RUNNING", worker |-> WorkerId[w], lease |-> LeaseS,
                version |-> d.attempts[n].version + 1]],
           log |-> d.log, outbox |-> d.outbox]
    BY <1>2, <2>5, <2>6, <2>7, ClaimIs
  <2>9. /\ d.run = run[r] /\ d.attempts = attempt[r] /\ d.log = events[r]
        /\ d.outbox = outbox[r]
    BY DEF d, Rows
  <2>10. claim(d, WorkerId[w]) =
           [run |-> run[r], attempts |-> [attempt[r] EXCEPT ![n] = claimed],
            log |-> events[r], outbox |-> outbox[r]]
    BY <2>8, <2>9 DEF claimed
  <2>11. attempt'[r] = [attempt[r] EXCEPT ![n] = claimed]
    BY <2>2 DEF claimed
  <2>12. Rows(r)' = [run |-> run[r], attempts |-> attempt'[r], log |-> events[r],
                     outbox |-> outbox[r]]
    BY <2>2 DEF Rows
  <2> QED BY <2>10, <2>11, <2>12 DEF d
<1>4. CASE ~ \E n \in AttemptNumber : Claimable(r, n)
  <2>1. UNCHANGED dbVars
    BY <1>4 DEF Claim, dbVars
  <2>2. claim(d, WorkerId[w]) = d
    <3>1. CASE Known(d) = {}
      BY <3>1 DEF claim
    <3>2. CASE Known(d) # {}
      <4>1. cur \in Known(d) /\ \A m \in Known(d) : m <= cur
        BY <1>1, <3>2, LastKnown
      <4>2. Max(Known(d)) = cur /\ cur \in AttemptNumber
        BY <4>1, MaxIs DEF Known, AttemptNumber
      <4>3. /\ d.attempts[cur].status # "RETRYABLE"
            /\ ~(d.attempts[cur].status = "RUNNING" /\ d.attempts[cur].lease = 0)
        BY <1>4, <4>2 DEF Claimable, Rows
      <4>4. ~(\/ d.attempts[Max(Known(d))].status = "RETRYABLE"
              \/ (d.attempts[Max(Known(d))].status = "RUNNING"
                  /\ d.attempts[Max(Known(d))].lease = 0))
        BY <4>2, <4>3
      <4> HIDE DEF d
      <4> QED BY <3>2, <4>4 DEF claim
    <3> QED BY <3>1, <3>2
  <2> QED BY <2>1, <2>2 DEF Rows, dbVars
<1> QED BY <1>3, <1>4

\* heartbeat: the fenced UPDATE is the method's condition.
LEMMA HeartbeatAgrees ==
  ASSUME IInv, NEW w \in Workers, Heartbeat(w), NEW t, t = job[w], NEW r, r = t.run
  PROVE  Rows(r)' = heartbeat(Rows(r), t, WorkerId[w])
<1> DEFINE d == Rows(r)
           a == attempt[r][t.number]
<1>1. /\ DbInv /\ DbType /\ pc[w] \in ExecutePC
      /\ run' = run /\ events' = events /\ outbox' = outbox
  BY DEF IInv, DbInv, Heartbeat
<1>2. r \in Runs /\ t.number \in AttemptNumber
  BY <1>1, TokenFacts
<1>3. d \in RowsType
  BY <1>1, <1>2, RowsTyped
<1>4. d.run = run[r] /\ d.attempts = attempt[r] /\ d.log = events[r] /\ d.outbox = outbox[r]
  BY DEF Rows
<1>5. Holds(d, t, WorkerId[w]) <=> Fenced(t, WorkerId[w])
  BY <1>4 DEF Holds, Fenced
<1>6. Rows(r)' = [run |-> run[r], attempts |-> attempt'[r], log |-> events[r],
                  outbox |-> outbox[r]]
  BY <1>1 DEF Rows
<1>7. CASE Fenced(t, WorkerId[w]) /\ a.lease > 0
  <2>1. attempt' = [attempt EXCEPT ![r][t.number] = Leased(@, LeaseS)]
    BY <1>7 DEF Heartbeat
  <2> DEFINE a2 == Leased(a, LeaseS)
  <2>2. attempt'[r] = [attempt[r] EXCEPT ![t.number] = a2]
    BY <1>1, <1>2, <2>1 DEF DbType
  <2>3. heartbeat(d, t, WorkerId[w]) =
          [run |-> d.run, attempts |-> [d.attempts EXCEPT ![t.number] =
                            Leased(d.attempts[t.number], LeaseS)],
           log |-> d.log, outbox |-> d.outbox]
    <3>1. d.attempts[t.number].lease > 0
      BY <1>4, <1>7
    <3> HIDE DEF d
    <3> QED BY <1>2, <1>3, <1>5, <1>7, <3>1, HeartbeatIs
  <2> HIDE DEF d
  <2> QED BY <1>4, <1>6, <2>2, <2>3 DEF d
<1>8. CASE ~(Fenced(t, WorkerId[w]) /\ a.lease > 0)
  <2>1. attempt' = attempt
    BY <1>8 DEF Heartbeat
  <2>2. heartbeat(d, t, WorkerId[w]) = d
    <3>1. ~(Holds(d, t, WorkerId[w]) /\ d.attempts[t.number].lease > 0)
      BY <1>4, <1>5, <1>8
    <3> HIDE DEF d
    <3> QED BY <3>1 DEF heartbeat
  <2> QED BY <1>6, <2>1, <2>2 DEF Rows
<1> QED BY <1>7, <1>8

\* The executor's QUEUED -> RUNNING.
LEMMA EnterRunningAgrees ==
  ASSUME IInv, NEW w \in Workers, ExecEnterRunning(w), NEW r, r = job[w].run
  PROVE  Rows(r)' = compare_and_set_status(Rows(r), {"QUEUED"}, "RUNNING")
<1> DEFINE d == Rows(r)
<1>1. /\ DbInv /\ DbType /\ pc[w] \in ExecutePC
      /\ attempt' = attempt /\ events' = events /\ outbox' = outbox
  BY DEF IInv, DbInv, ExecEnterRunning, ExecutePC
<1>2. r \in Runs
  BY <1>1, TokenFacts
<1>3. d \in RowsType
  BY <1>1, <1>2, RowsTyped
<1>4. d.run = run[r] /\ d.attempts = attempt[r] /\ d.log = events[r] /\ d.outbox = outbox[r]
  BY DEF Rows
<1>5. Rows(r)' = [run |-> run'[r], attempts |-> attempt[r], log |-> events[r],
                  outbox |-> outbox[r]]
  BY <1>1 DEF Rows
<1>6. CASE run[r].status = "QUEUED"
  <2> DEFINE row == Moved(run[r], "RUNNING", run[r].retry_wait)
  <2>1. run' = [run EXCEPT ![r] = row]
    BY <1>6 DEF ExecEnterRunning, Startable
  <2>2. run'[r] = row
    BY <1>1, <1>2, <2>1 DEF DbType
  <2>3. compare_and_set_status(d, {"QUEUED"}, "RUNNING") =
          [run |-> [status |-> "RUNNING", current_attempt |-> d.run.current_attempt,
                     retry_count |-> d.run.retry_count, retry_wait |-> d.run.retry_wait],
            attempts |-> d.attempts, log |-> d.log, outbox |-> d.outbox]
    <3>1. d.run.status \in {"QUEUED"}
      BY <1>4, <1>6
    <3> HIDE DEF d
    <3> QED BY <1>3, <3>1, CasIs
  <2> HIDE DEF d
  <2> QED BY <1>4, <1>5, <2>2, <2>3 DEF d, Moved
<1>7. CASE run[r].status # "QUEUED"
  <2>1. run' = run
    BY <1>7 DEF ExecEnterRunning, Startable
  <2>2. compare_and_set_status(d, {"QUEUED"}, "RUNNING") = d
    BY <1>4, <1>7 DEF compare_and_set_status
  <2> QED BY <1>5, <2>1, <2>2 DEF Rows
<1> QED BY <1>6, <1>7

\* run.started is appended once per attempt by both.
LEMMA EmitStartedAgrees ==
  ASSUME IInv, NEW w \in Workers, ExecEmitStarted(w), NEW t, t = job[w], NEW r, r = t.run
  PROVE  Rows(r)' = append_event(Rows(r), [type |-> "run.started", attempt |-> t.number])
<1> DEFINE d == Rows(r)
           e == [type |-> "run.started", attempt |-> t.number]
<1>1. /\ DbInv /\ DbType /\ pc[w] \in ExecutePC
      /\ run' = run /\ attempt' = attempt /\ outbox' = outbox
      /\ events' = [events EXCEPT ![r] = Inserted(@, e)]
  BY DEF IInv, DbInv, ExecEmitStarted, ExecutePC
<1>2. r \in Runs
  BY <1>1, TokenFacts
<1>3. d \in RowsType
  BY <1>1, <1>2, RowsTyped
<1> HIDE DEF e
<1>4. events'[r] = Inserted(events[r], e)
  BY <1>1, <1>2 DEF DbType
<1>5. append_event(d, e) = [run |-> d.run, attempts |-> d.attempts,
                            log |-> Inserted(d.log, e), outbox |-> d.outbox]
  <2> HIDE DEF d
  <2> QED BY <1>3, AppendIs
<1>6. d.run = run[r] /\ d.attempts = attempt[r] /\ d.log = events[r] /\ d.outbox = outbox[r]
  BY DEF Rows
<1>7. Rows(r)' = [run |-> run[r], attempts |-> attempt[r], log |-> events'[r],
                  outbox |-> outbox[r]]
  BY <1>1 DEF Rows
<1> HIDE DEF d
<1> QED BY <1>4, <1>5, <1>6, <1>7 DEF d, e

\* UPDATE submission_outbox, and what the in-memory repository makes of it.
LEMMA PublishAgrees ==
  ASSUME DbType, NEW r \in Runs, Publish(r)
  PROVE  outbox'[r] = Settled(Rows(r))
BY DEF DbType, Publish, Settled, Rows

\* finalize_attempt: the fence passes only for the holder of an open run.
LEMMA FinalizeAgrees ==
  ASSUME IInv, NEW w \in Workers, FinalizeCommit(w), NEW t, t = job[w], NEW r, r = t.run
  PROVE  Rows(r)' = finalize_attempt(Rows(r), t, WorkerId[w], outcome[w])
<1> DEFINE d == Rows(r)
           s == outcome[w]
           e == [type |-> TerminalEventType(s), attempt |-> t.number]
<1>1. DbInv /\ DbType /\ pc[w] \in ExecutePC
  BY DEF IInv, DbInv, FinalizeCommit, ExecutePC
<1>2. r \in Runs /\ t.number \in AttemptNumber
  BY <1>1, TokenFacts
<1>3. d \in RowsType
  BY <1>1, <1>2, RowsTyped
<1>4. Fenced(t, WorkerId[w])
  BY DEF FinalizeCommit
<1>5. run[r].status \in OpenStatus
  <2>1. attempt[r][t.number].status \in LiveStatus
    BY <1>4 DEF Fenced, LiveStatus
  <2> QED BY <1>1, <1>2, <2>1, RowFacts, LiveIsCurrent
<1>6. run[r].status # "CANCELLED" /\ run[r].status \notin TerminalStatus
  BY <1>5 DEF OpenStatus, TerminalStatus
<1>7. \A i \in DOMAIN events[r] : events[r][i].type # "run.cancelled"
  <2>1. EventsRow(run[r], events[r])
    BY <1>1, <1>2, RowFacts
  <2> QED BY <1>6, <2>1 DEF EventsRow, IsTerminal, TerminalType
<1>8. /\ run' = [run EXCEPT ![r] = Moved(@, s, 0)]
      /\ attempt' = [attempt EXCEPT ![r][t.number] = Closed(@, s)]
      /\ events' = [events EXCEPT ![r] = Inserted(@, e)]
      /\ Publish(r)
  BY <1>6, <1>7 DEF FinalizeCommit
<1>9. d.run = run[r] /\ d.attempts = attempt[r] /\ d.log = events[r] /\ d.outbox = outbox[r]
  BY DEF Rows
<1>10. outbox'[r] = Settled(d)
  BY <1>1, <1>2, <1>8, PublishAgrees
<1> HIDE DEF e, s
<1>11. /\ run'[r] = Moved(run[r], s, 0)
       /\ attempt'[r] = [attempt[r] EXCEPT ![t.number] = Closed(@, s)]
       /\ events'[r] = Inserted(events[r], e)
  BY <1>1, <1>2, <1>8 DEF DbType
<1>12. finalize_attempt(d, t, WorkerId[w], s) =
         [run |-> Moved(d.run, s, 0),
          attempts |-> [d.attempts EXCEPT ![t.number] = Closed(@, s)],
          log |-> Inserted(d.log, [type |-> TerminalEventType(s), attempt |-> t.number]),
          outbox |-> Settled(d)]
  <2>1. Holds(d, t, WorkerId[w]) /\ d.run.status \in OpenStatus
    BY <1>4, <1>5, <1>9 DEF Holds, Fenced
  <2>2. \A i \in DOMAIN d.log : d.log[i].type # "run.cancelled"
    BY <1>7, <1>9
  <2> HIDE DEF d
  <2> QED BY <1>2, <1>3, <2>1, <2>2, FinalizeIs
<1>13. Rows(r)' = [run |-> run'[r], attempts |-> attempt'[r], log |-> events'[r],
                   outbox |-> outbox'[r]]
  BY DEF Rows
<1> HIDE DEF d
<1> QED BY <1>9, <1>10, <1>11, <1>12, <1>13 DEF d, e, s

\* transition_failed_attempt of a live attempt, other runs untouched.
LEMMA FailAgrees ==
  ASSUME DbInv, NEW r \in Runs, NEW n \in AttemptNumber,
         attempt[r][n].status \in LiveStatus, TransitionFailed(r, n)
  PROVE  /\ \A q \in Runs : q # r => Rows(q)' = Rows(q)
         /\ \E delay \in 0..MaxBackoff :
              Rows(r)' = transition_failed_attempt(Rows(r), n, delay)
<1> DEFINE d == Rows(r)
<1>1. DbType /\ d \in RowsType
  BY RowsTyped DEF DbInv
<1>2. run[r].status \in OpenStatus /\ run[r].status # "CANCELLED"
  BY RowFacts, LiveIsCurrent DEF OpenStatus
<1>3. d.run = run[r] /\ d.attempts = attempt[r] /\ d.log = events[r] /\ d.outbox = outbox[r]
  BY DEF Rows
<1>4. Rows(r)' = [run |-> run'[r], attempts |-> attempt'[r], log |-> events'[r],
                  outbox |-> outbox'[r]]
  BY DEF Rows
<1>5. n \in Nat /\ MaxAttempts \in Nat /\ 0 \in 0..MaxBackoff
  BY LimitsAssumption DEF AttemptNumber
<1>6. CASE n >= MaxAttempts
  <2> DEFINE e == [type |-> "run.failed", attempt |-> n]
  <2>1. /\ run' = [run EXCEPT ![r] = Moved(@, "FAILED", 0)]
        /\ attempt' = [attempt EXCEPT ![r][n] = Closed(@, "FAILED")]
        /\ events' = [events EXCEPT ![r] = Inserted(@, e)]
        /\ Publish(r)
    BY <1>2, <1>5, <1>6 DEF TransitionFailed, CanRetry
  <2>2. outbox'[r] = Settled(d)
    BY <1>1, <2>1, PublishAgrees
  <2> HIDE DEF e
  <2>3. /\ run'[r] = Moved(run[r], "FAILED", 0)
        /\ attempt'[r] = [attempt[r] EXCEPT ![n] = Closed(@, "FAILED")]
        /\ events'[r] = Inserted(events[r], e)
    BY <1>1, <2>1 DEF DbType
  <2>4. \A q \in Runs : q # r => run'[q] = run[q] /\ attempt'[q] = attempt[q]
                                 /\ events'[q] = events[q] /\ outbox'[q] = outbox[q]
    BY <1>1, <2>1 DEF DbType, Publish
  <2>5. transition_failed_attempt(d, n, 0) =
          [run |-> Moved(d.run, "FAILED", 0),
           attempts |-> [d.attempts EXCEPT ![n] = Closed(@, "FAILED")],
           log |-> Inserted(d.log, [type |-> "run.failed", attempt |-> n]),
           outbox |-> Settled(d)]
    <3>1. d.run.status # "CANCELLED"
      BY <1>2, <1>3
    <3> HIDE DEF d
    <3> QED BY <1>1, <1>6, <3>1, FailLastIs
  <2>6. Rows(r)' = transition_failed_attempt(d, n, 0)
    <3> HIDE DEF d
    <3> QED BY <1>3, <1>4, <2>2, <2>3, <2>5 DEF e
  <2>7. \A q \in Runs : q # r => Rows(q)' = Rows(q)
    BY <2>4 DEF Rows
  <2> QED BY <1>5, <2>6, <2>7
<1>7. CASE n < MaxAttempts
  <2> DEFINE row(delay) ==
               [status |-> "QUEUED", current_attempt |-> n + 1,
                retry_count |-> IF run[r].retry_count + 1 <= MaxAttempts - 1
                                THEN run[r].retry_count + 1 ELSE MaxAttempts - 1,
                retry_wait |-> delay]
  <2>1. /\ attempt' = [attempt EXCEPT
                         ![r][n] = Closed(@, "FAILED"),
                         ![r][n + 1] = IF @.status = "NONE" THEN NewAttempt ELSE @]
        /\ \E delay \in Backoff(n) : run' = [run EXCEPT ![r] = row(delay)]
        /\ UNCHANGED <<events, outbox>>
    BY <1>2, <1>5, <1>7 DEF TransitionFailed, CanRetry
  <2>2. PICK delay \in Backoff(n) : run' = [run EXCEPT ![r] = row(delay)]
    BY <2>1
  <2>3. delay \in 0..MaxBackoff
    BY DEF Backoff
  <2> DEFINE row2 == row(delay)
  <2> HIDE DEF row2
  <2>4. run' = [run EXCEPT ![r] = row2]
    BY <2>2 DEF row2
  <2>5. run'[r] = row2 /\ \A q \in Runs : q # r => run'[q] = run[q]
    BY <1>1, <2>4 DEF DbType
  <2> DEFINE next == IF attempt[r][n + 1].status = "NONE" THEN NewAttempt
                     ELSE attempt[r][n + 1]
             at2 == [attempt[r] EXCEPT ![n] = Closed(@, "FAILED"), ![n + 1] = next]
  <2>6. attempt'[r] = at2 /\ \A q \in Runs : q # r => attempt'[q] = attempt[q]
    <3>1. n + 1 # n /\ n + 1 \in AttemptNumber
      BY <1>5, <1>7 DEF AttemptNumber
    <3> QED BY <1>1, <2>1, <3>1 DEF DbType
  <2>7. at2 = [attempt[r] EXCEPT ![n] = Closed(@, "FAILED"),
                                 ![n + 1] = IF @.status = "NONE" THEN NewAttempt ELSE @]
    <3>1. n + 1 # n
      BY <1>5
    <3> QED BY <3>1
  <2> HIDE DEF at2
  <2>8. events' = events /\ outbox' = outbox
    BY <2>1
  <2>9. transition_failed_attempt(d, n, delay) =
           [run |-> [status |-> "QUEUED", current_attempt |-> n + 1,
                     retry_count |-> IF d.run.retry_count + 1 <= MaxAttempts - 1
                                     THEN d.run.retry_count + 1 ELSE MaxAttempts - 1,
                     retry_wait |-> delay],
            attempts |-> [d.attempts EXCEPT
                            ![n] = Closed(@, "FAILED"),
                            ![n + 1] = IF @.status = "NONE" THEN NewAttempt ELSE @],
            log |-> d.log, outbox |-> d.outbox]
    <3>1. d.run.status # "CANCELLED"
      BY <1>2, <1>3
    <3> HIDE DEF d
    <3> QED BY <1>1, <1>7, <3>1, FailRetryIs
  <2> DEFINE drow == [status |-> "QUEUED", current_attempt |-> n + 1,
                      retry_count |-> IF d.run.retry_count + 1 <= MaxAttempts - 1
                                      THEN d.run.retry_count + 1 ELSE MaxAttempts - 1,
                      retry_wait |-> delay]
             dat == [d.attempts EXCEPT
                       ![n] = Closed(@, "FAILED"),
                       ![n + 1] = IF @.status = "NONE" THEN NewAttempt ELSE @]
  <2>10. drow = row2
    <3> HIDE DEF d
    <3> QED BY <1>3 DEF row2
  <2>11. dat = at2
    <3> HIDE DEF d
    <3> QED BY <1>3, <2>7
  <2>12. Rows(r)' = transition_failed_attempt(d, n, delay)
    <3> HIDE DEF d, drow, dat
    <3>1. transition_failed_attempt(d, n, delay) =
            [run |-> drow, attempts |-> dat, log |-> d.log, outbox |-> d.outbox]
      BY <2>9 DEF drow, dat
    <3> QED BY <1>3, <1>4, <2>5, <2>6, <2>8, <2>10, <2>11, <3>1
  <2>13. \A q \in Runs : q # r => Rows(q)' = Rows(q)
    BY <2>5, <2>6, <2>8 DEF Rows
  <2> QED BY <2>3, <2>12, <2>13
<1> QED BY <1>5, <1>6, <1>7

\* The failure reported by a worker, fenced or refused.
LEMMA FailAttemptAgrees ==
  ASSUME IInv, NEW w \in Workers, FailAttempt(w), NEW t, t = job[w], NEW r, r = t.run
  PROVE  IF Holds(Rows(r), t, WorkerId[w])
         THEN \E delay \in 0..MaxBackoff :
                Rows(r)' = transition_failed_attempt(Rows(r), t.number, delay)
         ELSE Rows(r)' = Rows(r)
<1>1. DbInv /\ pc[w] \in ExecutePC
  BY DEF IInv, FailAttempt, ExecutePC
<1>2. r \in Runs /\ t.number \in AttemptNumber
  BY <1>1, TokenFacts
<1>3. Holds(Rows(r), t, WorkerId[w]) <=> Fenced(t, WorkerId[w])
  BY DEF Holds, Fenced, Rows
<1>4. CASE Fenced(t, WorkerId[w])
  <2>1. TransitionFailed(r, t.number) /\ attempt[r][t.number].status \in LiveStatus
    BY <1>4 DEF FailAttempt, Fenced, LiveStatus
  <2>2. \E delay \in 0..MaxBackoff :
          Rows(r)' = transition_failed_attempt(Rows(r), t.number, delay)
    BY <1>1, <1>2, <2>1, FailAgrees
  <2> QED BY <1>3, <1>4, <2>2
<1>5. CASE ~Fenced(t, WorkerId[w])
  <2>1. UNCHANGED dbVars
    BY <1>5 DEF FailAttempt
  <2>2. Rows(r)' = Rows(r)
    BY <2>1 DEF dbVars, Rows
  <2> QED BY <1>3, <1>5, <2>2
<1> QED BY <1>4, <1>5

\* Recovery of an expired attempt.
LEMMA RecoverAgrees ==
  ASSUME IInv, NEW w \in Workers, RecoverAttempt(w), NEW q \in Runs, Rows(q)' # Rows(q)
  PROVE  \E n \in AttemptNumber, delay \in 0..MaxBackoff :
           Rows(q)' = transition_failed_attempt(Rows(q), n, delay)
<1>1. DbInv /\ WorkerType
  BY DEF IInv, WorkerInv
<1>2. PICK t \in expired[w] :
        IF /\ attempt[t.run][t.number].status = "RUNNING"
           /\ attempt[t.run][t.number].version = t.version
           /\ attempt[t.run][t.number].lease = 0
        THEN TransitionFailed(t.run, t.number)
        ELSE UNCHANGED dbVars
  BY DEF RecoverAttempt
<1>3. t.run \in Runs /\ t.number \in AttemptNumber
  BY <1>1 DEF WorkerType, Token
<1>4. ~ UNCHANGED dbVars
  BY DEF dbVars, Rows
<1>5. attempt[t.run][t.number].status \in LiveStatus /\ TransitionFailed(t.run, t.number)
  BY <1>2, <1>4 DEF LiveStatus
<1>6. /\ q # t.run => Rows(q)' = Rows(q)
      /\ \E delay \in 0..MaxBackoff :
           Rows(t.run)' = transition_failed_attempt(Rows(t.run), t.number, delay)
  BY <1>1, <1>3, <1>5, FailAgrees
<1> QED BY <1>3, <1>6

\* list_recoverable: the same candidates.
LEMMA ListAgrees ==
  ASSUME IInv, NEW w \in Workers, ListCandidates(w)
  PROVE  candidates'[w] = {q \in Runs : \E n \in list_recoverable(Rows(q)) :
                                          attempt[q][n].status = "RETRYABLE"}
<1>1. candidates'[w] = RetryableRuns
  BY DEF IInv, WorkerInv, WorkerType, ListCandidates
<1>2. ASSUME NEW q \in Runs
      PROVE  (\E n \in list_recoverable(Rows(q)) : attempt[q][n].status = "RETRYABLE")
             <=> (Recoverable(q) /\ \E n \in AttemptNumber : attempt[q][n].status = "RETRYABLE")
  BY DEF list_recoverable, Known, Rows, Recoverable
<1> QED BY <1>1, <1>2 DEF RetryableRuns

\* cancel of any run.
LEMMA CancelAgrees ==
  ASSUME IInv, NEW r \in Runs, Cancel(r)
  PROVE  Rows(r)' = cancel(Rows(r))
<1> DEFINE d == Rows(r)
           e == [type |-> "run.cancelled", attempt |-> 0]
           at2 == [n \in AttemptNumber |->
                     IF attempt[r][n].status \in LiveStatus
                     THEN Closed(attempt[r][n], "CANCELLED") ELSE attempt[r][n]]
<1>1. DbType /\ d \in RowsType
  BY RowsTyped DEF IInv, DbInv
<1>2. /\ run[r].status \in OpenStatus
      /\ run' = [run EXCEPT ![r] = Moved(@, "CANCELLED", @.retry_wait)]
      /\ attempt' = [attempt EXCEPT ![r] = at2]
      /\ events' = [events EXCEPT ![r] = Inserted(@, e)]
      /\ Publish(r)
  BY DEF Cancel, NotOver, StillLive
<1> HIDE DEF e, at2
<1>3. /\ run'[r] = Moved(run[r], "CANCELLED", run[r].retry_wait)
      /\ attempt'[r] = at2 /\ events'[r] = Inserted(events[r], e)
  BY <1>1, <1>2 DEF DbType
<1>4. outbox'[r] = Settled(d)
  BY <1>1, <1>2, PublishAgrees
<1>5. d.run = run[r] /\ d.attempts = attempt[r] /\ d.log = events[r] /\ d.outbox = outbox[r]
  BY DEF Rows
<1>6. Rows(r)' = [run |-> run'[r], attempts |-> attempt'[r], log |-> events'[r],
                  outbox |-> outbox'[r]]
  BY DEF Rows
<1> HIDE DEF d
<1>7. cancel(d) =
        [run |-> Moved(d.run, "CANCELLED", d.run.retry_wait),
         attempts |-> [n \in AttemptNumber |->
                         IF d.attempts[n].status \in LiveStatus
                         THEN Closed(d.attempts[n], "CANCELLED") ELSE d.attempts[n]],
         log |-> Inserted(d.log, [type |-> "run.cancelled", attempt |-> 0]),
         outbox |-> Settled(d)]
  BY <1>1, <1>2, <1>5, CancelIs
<1>8. at2 = [n \in AttemptNumber |->
               IF d.attempts[n].status \in LiveStatus
               THEN Closed(d.attempts[n], "CANCELLED") ELSE d.attempts[n]]
  BY <1>5 DEF at2
<1> QED BY <1>3, <1>4, <1>5, <1>6, <1>7, <1>8 DEF d, e

\* The two repositories are interchangeable: on every reachable state each
\* transaction of PostgresRunRepository leaves the rows that the method of
\* InMemoryRunRepository leaves, for any number of workers, runs and attempts.
\* The invariant is what makes it so: only the current attempt can be live, and
\* the run of a live attempt is open.
THEOREM RepositoriesAgree == Spec => BackendsAgree
<1> DEFINE Agree ==
             /\ \A w \in Workers : \A t \in {job[w]}, r \in Runs :
                  r = t.run \/ t.run \notin Runs => SameEffect(w, t, r)
             /\ \A r \in Runs : Cancel(r) => Rows(r)' = cancel(Rows(r))
<1>1. ASSUME IInv, NEW w \in Workers, NEW t, t = job[w], NEW r \in Runs,
             r = t.run \/ t.run \notin Runs
      PROVE  SameEffect(w, t, r)
  <2>1. pc[w] \in ExecutePC => r = t.run
    BY <1>1, TokenFacts
  <2>2. pc[w] = "checked" => r = t.run
    BY <1>1 DEF IInv, WorkerInv, TokensMatch
  <2>3. Claim(w) => Rows(r)' = claim(Rows(r), WorkerId[w])
    <3>1. SUFFICES ASSUME Claim(w) PROVE Rows(r)' = claim(Rows(r), WorkerId[w])
      OBVIOUS
    <3>2. r = job[w].run
      BY <1>1, <2>2, <3>1 DEF Claim
    <3> QED BY <1>1, <3>1, <3>2, ClaimAgrees
  <2>4. Heartbeat(w) => Rows(r)' = heartbeat(Rows(r), t, WorkerId[w])
    <3>1. SUFFICES ASSUME Heartbeat(w) PROVE Rows(r)' = heartbeat(Rows(r), t, WorkerId[w])
      OBVIOUS
    <3>2. r = t.run
      BY <2>1, <3>1 DEF Heartbeat
    <3> QED BY <1>1, <3>1, <3>2, HeartbeatAgrees
  <2>5. ExecEnterRunning(w) =>
          Rows(r)' = compare_and_set_status(Rows(r), {"QUEUED"}, "RUNNING")
    <3>1. SUFFICES ASSUME ExecEnterRunning(w)
                   PROVE  Rows(r)' = compare_and_set_status(Rows(r), {"QUEUED"}, "RUNNING")
      OBVIOUS
    <3>2. r = job[w].run
      BY <1>1, <2>1, <3>1 DEF ExecEnterRunning, ExecutePC
    <3> QED BY <1>1, <3>1, <3>2, EnterRunningAgrees
  <2>6. ExecEmitStarted(w) =>
          Rows(r)' = append_event(Rows(r), [type |-> "run.started", attempt |-> t.number])
    <3>1. SUFFICES ASSUME ExecEmitStarted(w)
                   PROVE  Rows(r)' = append_event(Rows(r),
                                       [type |-> "run.started", attempt |-> t.number])
      OBVIOUS
    <3>2. r = t.run
      BY <2>1, <3>1 DEF ExecEmitStarted, ExecutePC
    <3> QED BY <1>1, <3>1, <3>2, EmitStartedAgrees
  <2>7. FinalizeCommit(w) =>
          Rows(r)' = finalize_attempt(Rows(r), t, WorkerId[w], outcome[w])
    <3>1. SUFFICES ASSUME FinalizeCommit(w)
                   PROVE  Rows(r)' = finalize_attempt(Rows(r), t, WorkerId[w], outcome[w])
      OBVIOUS
    <3>2. r = t.run
      BY <2>1, <3>1 DEF FinalizeCommit, ExecutePC
    <3> QED BY <1>1, <3>1, <3>2, FinalizeAgrees
  <2>8. FailAttempt(w) =>
          IF Holds(Rows(r), t, WorkerId[w])
          THEN \E delay \in 0..MaxBackoff :
                 Rows(r)' = transition_failed_attempt(Rows(r), t.number, delay)
          ELSE Rows(r)' = Rows(r)
    <3>1. SUFFICES ASSUME FailAttempt(w)
                   PROVE  IF Holds(Rows(r), t, WorkerId[w])
                          THEN \E delay \in 0..MaxBackoff :
                                 Rows(r)' = transition_failed_attempt(Rows(r), t.number, delay)
                          ELSE Rows(r)' = Rows(r)
      OBVIOUS
    <3>2. r = t.run
      BY <2>1, <3>1 DEF FailAttempt, ExecutePC
    <3> QED BY <1>1, <3>1, <3>2, FailAttemptAgrees
  <2>9. RecoverAttempt(w) =>
          \A q \in Runs : Rows(q)' # Rows(q) =>
            \E n \in AttemptNumber, delay \in 0..MaxBackoff :
               Rows(q)' = transition_failed_attempt(Rows(q), n, delay)
    BY <1>1, RecoverAgrees
  <2>10. ListCandidates(w) =>
           candidates'[w] = {q \in Runs : \E n \in list_recoverable(Rows(q)) :
                                            attempt[q][n].status = "RETRYABLE"}
    BY <1>1, ListAgrees
  <2> QED BY <2>3, <2>4, <2>5, <2>6, <2>7, <2>8, <2>9, <2>10 DEF SameEffect
<1>2. IInv => Agree
  BY <1>1, CancelAgrees
<1> HIDE DEF Agree
<1>3. IInv /\ [Next]_vars => [Agree]_vars
  BY <1>2
<1>4. Spec => [][Agree]_vars
  BY <1>3, Invariance, PTL DEF Spec
<1> QED BY <1>4 DEF BackendsAgree, Agree

-----------------------------------------------------------------------------
\* The in-process queue

\* Every attempt that runs is in the hands of a drive that goes on with it and
\* whose writes the fence lets through.
InHand(r, n, w) ==
  /\ drive[w] = "running"
  /\ pc[w] \in ExecutePC \ {"ending"}
  /\ job[w].run = r /\ job[w].number = n
  /\ Fenced(job[w], WorkerId[w])
EveryAttemptInHand ==
  \A r \in Runs, n \in AttemptNumber :
    attempt[r][n].status = "RUNNING" => \E w \in Workers : InHand(r, n, w)

\* Some drive will still look at what its submission left.
SomeoneLooks ==
  \A r \in enqueued : run[r].status \in OpenStatus =>
    \E w \in Workers : drive[w] \in {"running", "asking"}

\* The inductive invariant of the drives, besides that of the tables: while no
\* drive has died, the work of those that ended is in the hands of others.
DriveType ==
  /\ enqueued \subseteq Runs
  /\ drive \in [Workers -> DriveState]
NobodyDied == \A w \in Workers : drive[w] # "died"
DriveInv ==
  /\ IInv
  /\ DriveType
  /\ \A r \in enqueued : run[r].status # "NONE"
  /\ \A w \in Workers : pc[w] # "idle" => drive[w] \in {"running", "died"}
  /\ NobodyDied => EveryAttemptInHand /\ SomeoneLooks

\* Two states of one attempt between which its holder stays the holder.
SameHold(a, a2) ==
  a2.status = "RUNNING" =>
    a.status = "RUNNING" /\ a2.worker = a.worker /\ a2.version = a.version

\* What a failed attempt leaves: no attempt that was not running runs, and the
\* one that failed does not.
LEMMA FailureHolds ==
  ASSUME DbInv, NEW r \in Runs, NEW n \in AttemptNumber, TransitionFailed(r, n)
  PROVE  /\ \A q \in Runs, m \in AttemptNumber :
              SameHold(attempt[q][m], attempt'[q][m])
         /\ attempt'[r][n].status # "RUNNING"
<1>1. DbType
  BY DEF DbInv
<1>2. MaxAttempts \in Nat /\ n \in Nat
  BY LimitsAssumption DEF AttemptNumber
<1>3. CASE run[r].status = "CANCELLED"
  <2>1. attempt' = [attempt EXCEPT ![r][n] = Closed(@, "CANCELLED")]
    BY <1>3 DEF TransitionFailed
  <2> QED BY <1>1, <2>1 DEF DbType, SameHold, Closed
<1>4. CASE run[r].status # "CANCELLED" /\ ~ CanRetry(n)
  <2>1. attempt' = [attempt EXCEPT ![r][n] = Closed(@, "FAILED")]
    BY <1>4 DEF TransitionFailed
  <2> QED BY <1>1, <2>1 DEF DbType, SameHold, Closed
<1>5. CASE run[r].status # "CANCELLED" /\ CanRetry(n)
  <2>1. attempt' = [attempt EXCEPT
                      ![r][n] = Closed(@, "FAILED"),
                      ![r][n + 1] = IF @.status = "NONE" THEN NewAttempt ELSE @]
    BY <1>5 DEF TransitionFailed
  <2>2. n # n + 1 /\ n + 1 \in AttemptNumber
    BY <1>2, <1>5 DEF CanRetry, AttemptNumber
  <2>3. /\ attempt'[r][n] = Closed(attempt[r][n], "FAILED")
        /\ attempt'[r][n + 1] \in {NewAttempt, attempt[r][n + 1]}
        /\ \A m \in AttemptNumber : m # n /\ m # n + 1 =>
             attempt'[r][m] = attempt[r][m]
        /\ \A q \in Runs : q # r => attempt'[q] = attempt[q]
    BY <1>1, <2>1, <2>2 DEF DbType
  <2>4. NewAttempt.status # "RUNNING" /\ Closed(attempt[r][n], "FAILED").status # "RUNNING"
    BY DEF NewAttempt, Closed
  <2>5. \A m \in AttemptNumber : SameHold(attempt[r][m], attempt'[r][m])
    BY <2>3, <2>4 DEF SameHold
  <2> QED BY <2>3, <2>4, <2>5 DEF SameHold
<1> QED BY <1>3, <1>4, <1>5 DEF TransitionFailed

\* The drive's own steps
DriveOnly(w) ==
  \/ RecoverScan(w) \/ RecoverAttempt(w) \/ ListCandidates(w) \/ CheckRun(w)
  \/ Claim(w) \/ ExecutorStep(w) \/ LeaseLost(w) \/ ResolveOutcome(w)
  \/ FinalizeCommit(w) \/ FinalizeRefused(w) \/ FailAttempt(w)
  \/ EndExecute(w) \/ FinishScan(w)

\* A drive's step leaves every running attempt with its holder, or is the
\* claim that takes it.
LEMMA HoldKept ==
  ASSUME IInv, NEW w \in Workers, DriveOnly(w),
         NEW r \in Runs, NEW n \in AttemptNumber
  PROVE  \/ SameHold(attempt[r][n], attempt'[r][n])
         \/ /\ pc'[w] = "claimed"
            /\ job'[w].run = r /\ job'[w].number = n
            /\ attempt'[r][n].status = "RUNNING"
            /\ attempt'[r][n].worker = WorkerId[w]
            /\ attempt'[r][n].version = job'[w].version
<1>1. DbInv /\ DbType /\ WorkerType
  BY DEF IInv, DbInv, WorkerInv
<1>2. CASE attempt' = attempt
  BY <1>2 DEF SameHold
<1>3. CASE Claim(w) /\ \E m \in AttemptNumber : Claimable(job[w].run, m)
  <2>1. job[w].run \in Runs
    BY <1>3 DEF Claim, IInv, WorkerInv, TokensMatch
  <2>2. PICK m \in AttemptNumber :
          /\ attempt' = [attempt EXCEPT
                           ![job[w].run][m] =
                              [status |-> "RUNNING", worker |-> WorkerId[w],
                               lease |-> LeaseS, version |-> @.version + 1]]
          /\ job' = [job EXCEPT ![w] = [run |-> job[w].run, number |-> m,
                                        version |-> attempt[job[w].run][m].version + 1]]
          /\ pc' = [pc EXCEPT ![w] = "claimed"]
    BY <1>3 DEF Claim
  <2>3. /\ pc'[w] = "claimed"
        /\ job'[w] = [run |-> job[w].run, number |-> m,
                      version |-> attempt[job[w].run][m].version + 1]
    BY <1>1, <2>2 DEF WorkerType
  <2>4. CASE r = job[w].run /\ n = m
    <3>1. attempt'[r][n] = [status |-> "RUNNING", worker |-> WorkerId[w],
                            lease |-> LeaseS, version |-> attempt[r][n].version + 1]
      BY <1>1, <2>2, <2>4 DEF DbType
    <3> QED BY <2>3, <2>4, <3>1
  <2>5. CASE ~ (r = job[w].run /\ n = m)
    <3>1. attempt'[r][n] = attempt[r][n]
      BY <1>1, <2>1, <2>2, <2>5 DEF DbType
    <3> QED BY <3>1 DEF SameHold
  <2> QED BY <2>4, <2>5
<1>4. CASE RecoverAttempt(w) /\ attempt' # attempt
  <2>1. PICK t \in expired[w] : TransitionFailed(t.run, t.number)
    BY <1>4 DEF RecoverAttempt, dbVars
  <2>2. t.run \in Runs /\ t.number \in AttemptNumber
    BY <1>1 DEF WorkerType, Token
  <2> QED BY <1>1, <2>1, <2>2, FailureHolds
<1>5. CASE FailAttempt(w) /\ attempt' # attempt
  <2>1. pc[w] \in ExecutePC /\ TransitionFailed(job[w].run, job[w].number)
    BY <1>5 DEF FailAttempt, dbVars, ExecutePC
  <2> QED BY <1>1, <2>1, FailureHolds, TokenFacts
<1>6. CASE FinalizeCommit(w)
  <2>1. pc[w] \in ExecutePC /\ outcome[w] \in TerminalStatus
    BY <1>6 DEF FinalizeCommit, ExecutePC, IInv, WorkerInv, OutcomesMatch, OutcomeOK
  <2>2. PICK final \in TerminalStatus :
          attempt' = [attempt EXCEPT ![job[w].run][job[w].number] = Closed(@, final)]
    BY <1>6, <2>1 DEF FinalizeCommit, TerminalStatus
  <2>3. job[w].run \in Runs /\ job[w].number \in AttemptNumber
    BY <2>1, TokenFacts
  <2> QED BY <1>1, <2>2, <2>3 DEF DbType, SameHold, Closed, TerminalStatus
<1>7. Claim(w) => attempt' = attempt \/ \E m \in AttemptNumber : Claimable(job[w].run, m)
  BY DEF Claim
<1> QED
  BY <1>2, <1>3, <1>4, <1>5, <1>6, <1>7
  DEF DriveOnly, RecoverScan, ListCandidates, CheckRun, ExecutorStep, ExecBegin,
      ExecEnterRunning, ExecRefused, ExecEmitStarted, ExecReturn, ExecRaise,
      LeaseLost, ResolveOutcome, FinalizeRefused, EndExecute, FinishScan, dbVars

\* A drive that executes goes on with the token it has, until its attempt no
\* longer runs or the fence has closed on it.
LEMMA ExecutorGoesOn ==
  ASSUME IInv, NEW w \in Workers, DriveOnly(w),
         pc[w] \in ExecutePC \ {"ending"}, Fenced(job[w], WorkerId[w])
  PROVE  \/ job'[w] = job[w] /\ pc'[w] \in ExecutePC \ {"ending"}
         \/ attempt'[job[w].run][job[w].number].status # "RUNNING"
<1>1. DbInv /\ DbType /\ WorkerType
  BY DEF IInv, DbInv, WorkerInv
<1>2. job[w].run \in Runs /\ job[w].number \in AttemptNumber
  BY TokenFacts
<1>3. CASE FailAttempt(w)
  <2>1. TransitionFailed(job[w].run, job[w].number)
    BY <1>3 DEF FailAttempt
  <2> QED BY <1>1, <1>2, <2>1, FailureHolds
<1>4. CASE FinalizeCommit(w)
  <2>1. outcome[w] \in TerminalStatus
    BY <1>4 DEF FinalizeCommit, ExecutePC, IInv, WorkerInv, OutcomesMatch, OutcomeOK
  <2>2. PICK final \in TerminalStatus :
          attempt' = [attempt EXCEPT ![job[w].run][job[w].number] = Closed(@, final)]
    BY <1>4, <2>1 DEF FinalizeCommit, TerminalStatus
  <2> QED BY <1>1, <1>2, <2>2 DEF DbType, Closed, TerminalStatus
<1>5. ~ (RecoverScan(w) \/ RecoverAttempt(w) \/ ListCandidates(w) \/ CheckRun(w)
         \/ Claim(w) \/ EndExecute(w) \/ FinishScan(w))
  BY DEF ExecutePC, RecoverScan, RecoverAttempt, ListCandidates, CheckRun, Claim,
         EndExecute, FinishScan
<1>6. CASE ExecutorStep(w) \/ LeaseLost(w) \/ ResolveOutcome(w) \/ FinalizeRefused(w)
  <2>1. job' = job
    BY <1>6 DEF ExecutorStep, ExecBegin, ExecEnterRunning, ExecRefused,
          ExecEmitStarted, ExecReturn, ExecRaise, LeaseLost, ResolveOutcome,
          FinalizeRefused
  <2>2. \E label \in ExecutePC \ {"ending"} : pc' = [pc EXCEPT ![w] = label]
    BY <1>6 DEF ExecutorStep, ExecBegin, ExecEnterRunning, ExecRefused,
          ExecEmitStarted, ExecReturn, ExecRaise, LeaseLost, ResolveOutcome,
          FinalizeRefused, Goto, ExecutePC
  <2> QED BY <1>1, <2>1, <2>2 DEF WorkerType
<1> QED BY <1>3, <1>4, <1>5, <1>6 DEF DriveOnly

\* The other drives keep their place while one drive moves.
LEMMA OthersStay ==
  ASSUME IInv, NEW w \in Workers, DriveOnly(w), NEW v \in Workers, v # w
  PROVE  pc'[v] = pc[v] /\ job'[v] = job[v]
<1>1. WorkerType
  BY DEF IInv, WorkerInv
<1>2. \/ job' = job
      \/ \E t : job' = [job EXCEPT ![w] = t]
  BY DEF DriveOnly, RecoverScan, RecoverAttempt, ListCandidates, CheckRun, Claim,
         ExecutorStep, ExecBegin, ExecEnterRunning, ExecRefused, ExecEmitStarted,
         ExecReturn, ExecRaise, LeaseLost, ResolveOutcome, FinalizeCommit,
         FinalizeRefused, FailAttempt, EndExecute, FinishScan
<1>3. \/ pc' = pc
      \/ \E label : pc' = [pc EXCEPT ![w] = label]
  BY DEF DriveOnly, RecoverScan, RecoverAttempt, ListCandidates, CheckRun, Claim,
         ExecutorStep, ExecBegin, ExecEnterRunning, ExecRefused, ExecEmitStarted,
         ExecReturn, ExecRaise, LeaseLost, ResolveOutcome, FinalizeCommit,
         FinalizeRefused, FailAttempt, EndExecute, FinishScan, Goto
<1> QED BY <1>1, <1>2, <1>3 DEF WorkerType

\* What a step that changes no drive's place leaves in hand.
LEMMA HandsKept ==
  ASSUME IInv, EveryAttemptInHand, pc' = pc, job' = job, drive' = drive,
         \A r \in Runs, n \in AttemptNumber :
           SameHold(attempt[r][n], attempt'[r][n])
  PROVE  EveryAttemptInHand'
<1> SUFFICES ASSUME NEW r \in Runs, NEW n \in AttemptNumber,
                    attempt'[r][n].status = "RUNNING"
             PROVE  \E w \in Workers : InHand(r, n, w)'
  BY DEF EveryAttemptInHand
<1>1. PICK w \in Workers : InHand(r, n, w)
  BY DEF EveryAttemptInHand, SameHold
<1>2. InHand(r, n, w)'
  BY <1>1 DEF InHand, Fenced, SameHold
<1> QED BY <1>2

\* The open runs of a step of the tables were open before, unless a
\* submission has just opened them.
LEMMA OpenBefore ==
  ASSUME DbInv, DbStep, NEW r \in Runs, run[r].status # "NONE"
  PROVE  /\ run'[r].status # "NONE"
         /\ run'[r].status \in OpenStatus => run[r].status \in OpenStatus
<1>1. /\ run[r].status \in TerminalStatus => run'[r].status = run[r].status
      /\ run[r].status \in OpenStatus => run'[r].status # "NONE"
  BY DEF DbStep, RunAdvances
<1>2. run[r].status \in OpenStatus \cup TerminalStatus
  BY DEF DbInv, DbType, RunRow, RunStatus
<1> QED BY <1>1, <1>2 DEF OpenStatus, TerminalStatus

\* Every step of the in-process queue is a step of the run queue.
LEMMA InProcessIsQueue ==
  ASSUME InProcessNext
  PROVE  [Next]_vars
<1>1. ASSUME NEW w \in Workers, DriveStep(w)
      PROVE  [Next]_vars
  <2>1. DriveOnly(w) => WorkerStep(w)
    BY DEF DriveOnly, WorkerStep, ScanStep, SettleStep
  <2>2. RunOnceStep(w) => DriveOnly(w)
    BY DEF RunOnceStep, DriveOnly
  <2> QED BY <1>1, <2>1, <2>2 DEF DriveStep, AskPending, Next
<1> QED BY <1>1 DEF InProcessNext, SubmissionStep, Enqueue, ApiStep, Next, processVars

\* A submission, a cancel or an outbox mark keeps the invariant of the drives.
LEMMA SubmissionKeeps ==
  ASSUME DriveInv, NEW r \in Runs, SubmissionStep(r)
  PROVE  DriveInv'
<1>1. ApiStep(r) /\ drive' = drive /\ enqueued' = enqueued
  BY DEF SubmissionStep, ApiStep, driveVars
<1>2. IInv /\ DbInv /\ DbType
  BY DEF DriveInv, IInv, DbInv
<1>3. DbStep /\ IInv'
  BY <1>1, <1>2, ApiSteps
<1>4. pc' = pc /\ job' = job
  BY <1>1 DEF ApiStep, Submit, MarkOutboxPublished, Cancel, workerVars
<1>5. ASSUME NEW q \in Runs, NEW n \in AttemptNumber
      PROVE  SameHold(attempt[q][n], attempt'[q][n])
  <2>1. CASE Submit(r)
    <3>1. attempt'[q][n] \in {attempt[q][n], NewAttempt}
      BY <1>2, <2>1 DEF Submit, DbType
    <3> QED BY <3>1 DEF SameHold, NewAttempt
  <2>2. CASE MarkOutboxPublished(r)
    BY <2>2 DEF MarkOutboxPublished, SameHold
  <2>3. CASE Cancel(r)
    <3>1. attempt'[q][n] \in {attempt[q][n], Closed(attempt[q][n], "CANCELLED")}
      BY <1>2, <2>3 DEF Cancel, DbType
    <3> QED BY <3>1 DEF SameHold, Closed
  <2> QED BY <1>1, <2>1, <2>2, <2>3 DEF ApiStep
<1>6. EveryAttemptInHand => EveryAttemptInHand'
  BY <1>1, <1>2, <1>4, <1>5, HandsKept
<1>7. \A q \in enqueued : q \in Runs /\ run[q].status # "NONE"
  BY DEF DriveInv, DriveType
<1>8. \A q \in enqueued : /\ run'[q].status # "NONE"
                          /\ run'[q].status \in OpenStatus => run[q].status \in OpenStatus
  BY <1>2, <1>3, <1>7, OpenBefore
<1>9. SomeoneLooks => SomeoneLooks'
  BY <1>1, <1>8 DEF SomeoneLooks
<1> QED BY <1>1, <1>3, <1>4, <1>6, <1>8, <1>9 DEF DriveInv, DriveType, NobodyDied

\* So do the clock and the heartbeats.
LEMMA TimersKeep ==
  ASSUME DriveInv, UNCHANGED driveVars,
         Tick \/ \E w \in Workers : Heartbeat(w)
  PROVE  DriveInv'
<1>1. drive' = drive /\ enqueued' = enqueued
  BY DEF driveVars
<1>2. IInv /\ DbInv /\ DbType
  BY DEF DriveInv, IInv, DbInv
<1>3. DbStep /\ IInv'
  BY <1>2, TickSteps, HeartbeatSteps
<1>4. pc' = pc /\ job' = job
  BY DEF Tick, Heartbeat, workerVars
<1>5. ASSUME NEW q \in Runs, NEW n \in AttemptNumber
      PROVE  SameHold(attempt[q][n], attempt'[q][n])
  <2>1. CASE Tick
    BY <2>1 DEF Tick, SameHold, Leased
  <2>2. ASSUME NEW w \in Workers, Heartbeat(w)
        PROVE  SameHold(attempt[q][n], attempt'[q][n])
    <3>1. attempt'[q][n] \in {attempt[q][n], Leased(attempt[q][n], LeaseS)}
      BY <1>2, <2>2 DEF Heartbeat, DbType
    <3> QED BY <3>1 DEF SameHold, Leased
  <2> QED BY <2>1, <2>2
<1>6. EveryAttemptInHand => EveryAttemptInHand'
  BY <1>1, <1>2, <1>4, <1>5, HandsKept
<1>7. \A q \in enqueued : q \in Runs /\ run[q].status # "NONE"
  BY DEF DriveInv, DriveType
<1>8. \A q \in enqueued : /\ run'[q].status # "NONE"
                          /\ run'[q].status \in OpenStatus => run[q].status \in OpenStatus
  BY <1>2, <1>3, <1>7, OpenBefore
<1>9. SomeoneLooks => SomeoneLooks'
  BY <1>1, <1>8 DEF SomeoneLooks
<1> QED BY <1>1, <1>3, <1>4, <1>6, <1>8, <1>9 DEF DriveInv, DriveType, NobodyDied

\* A submission that starts its drive has one that will look at its run.
LEMMA EnqueueKeeps ==
  ASSUME DriveInv, NEW r \in Runs, Enqueue(r)
  PROVE  DriveInv'
<1>1. PICK w \in Workers : drive[w] = "unused" /\ drive' = [drive EXCEPT ![w] = "running"]
  BY DEF Enqueue
<1>2. /\ enqueued' = enqueued \cup {r} /\ run[r].status # "NONE"
      /\ run' = run /\ attempt' = attempt /\ pc' = pc /\ job' = job
      /\ UNCHANGED vars
  BY DEF Enqueue, vars, dbVars, workerVars
<1>3. DriveType'
  BY <1>1, <1>2 DEF DriveInv, DriveType, DriveState
<1>4. drive'[w] = "running" /\ \A v \in Workers : v # w => drive'[v] = drive[v]
  BY <1>1 DEF DriveInv, DriveType
<1>5. IInv'
  BY <1>2, NextSteps DEF DriveInv
<1>6. SomeoneLooks'
  BY <1>4 DEF SomeoneLooks
<1>7. EveryAttemptInHand => EveryAttemptInHand'
  <2> SUFFICES ASSUME EveryAttemptInHand, NEW q \in Runs, NEW n \in AttemptNumber,
                      attempt[q][n].status = "RUNNING"
               PROVE  \E v \in Workers : InHand(q, n, v)'
    BY <1>2 DEF EveryAttemptInHand
  <2>1. PICK v \in Workers : InHand(q, n, v)
    BY DEF EveryAttemptInHand
  <2>2. InHand(q, n, v)'
    BY <1>1, <1>2, <1>4, <2>1 DEF InHand, Fenced
  <2> QED BY <2>2
<1>8. NobodyDied' => NobodyDied
  BY <1>1, <1>4 DEF NobodyDied
<1>9. \A v \in Workers : pc'[v] # "idle" => drive'[v] \in {"running", "died"}
  BY <1>2, <1>4 DEF DriveInv
<1>10. \A q \in enqueued' : run'[q].status # "NONE"
  BY <1>2 DEF DriveInv
<1> QED BY <1>3, <1>5, <1>6, <1>7, <1>8, <1>9, <1>10 DEF DriveInv

\* A step of run_once leaves its drive running, asking or dead, and every
\* running attempt in hand.
LEMMA RunOnceKeeps ==
  ASSUME DriveInv, NEW w \in Workers, RunOnceStep(w)
  PROVE  DriveInv'
<1>1. /\ DriveOnly(w) /\ drive[w] = "running" /\ enqueued' = enqueued
      /\ WorkerStep(w)
  BY DEF RunOnceStep, DriveOnly, WorkerStep, ScanStep, SettleStep
<1>2. IInv /\ DbInv /\ DbType /\ WorkerType /\ DriveType
  BY DEF DriveInv, IInv, DbInv, WorkerInv
<1>3. DbStep /\ IInv'
  <2>1. Next
    BY <1>1 DEF Next
  <2> QED BY <1>2, <2>1, NextSteps
<1>4. /\ drive'[w] \in {"running", "asking", "died"}
      /\ drive' \in [Workers -> DriveState]
      /\ \A v \in Workers : v # w => drive'[v] = drive[v]
      /\ drive'[w] = "asking" => pc'[w] = "idle"
      /\ pc'[w] # "idle" => drive'[w] \in {"running", "died"}
      /\ pc[w] \in ExecutePC \ {"ending"} => drive'[w] = "running"
  <2>1. CASE drive' = drive
    BY <1>1, <1>2, <2>1 DEF DriveType
  <2>2. CASE EndExecute(w) /\ drive' = [drive EXCEPT ![w] = "died"]
    BY <1>1, <1>2, <2>2 DEF DriveType, DriveState, EndExecute
  <2>3. CASE FinishScan(w) /\ drive' = [drive EXCEPT ![w] = "asking"]
    <3>1. pc'[w] = "idle"
      BY <1>2, <2>3 DEF FinishScan, WorkerType
    <3> QED BY <1>1, <1>2, <2>3, <3>1 DEF DriveType, DriveState, FinishScan, ExecutePC
  <2> QED BY <2>1, <2>2, <2>3 DEF RunOnceStep
<1>5. \A v \in Workers : v # w => pc'[v] = pc[v] /\ job'[v] = job[v]
  BY <1>1, <1>2, OthersStay
<1>6. ASSUME NobodyDied', NobodyDied, NEW r \in Runs, NEW n \in AttemptNumber,
             attempt'[r][n].status = "RUNNING"
      PROVE  \E v \in Workers : InHand(r, n, v)'
  <2>1. CASE SameHold(attempt[r][n], attempt'[r][n])
    <3>1. PICK v \in Workers : InHand(r, n, v)
      BY <1>6, <2>1 DEF SameHold, DriveInv, EveryAttemptInHand
    <3>2. CASE v # w
      <4>1. InHand(r, n, v)'
        BY <1>4, <1>5, <1>6, <2>1, <3>1, <3>2 DEF InHand, Fenced, SameHold
      <4> QED BY <4>1
    <3>3. CASE v = w
      <4>1. pc[w] \in ExecutePC \ {"ending"} /\ Fenced(job[w], WorkerId[w])
            /\ job[w].run = r /\ job[w].number = n
        BY <3>1, <3>3 DEF InHand
      <4>2. job'[w] = job[w] /\ pc'[w] \in ExecutePC \ {"ending"}
        BY <1>1, <1>2, <1>6, <4>1, ExecutorGoesOn
      <4>3. drive'[w] = "running"
        BY <1>4, <4>1
      <4>4. InHand(r, n, w)'
        BY <1>6, <2>1, <4>1, <4>2, <4>3 DEF InHand, Fenced, SameHold
      <4> QED BY <4>4
    <3> QED BY <3>2, <3>3
  <2>2. CASE /\ pc'[w] = "claimed"
             /\ job'[w].run = r /\ job'[w].number = n
             /\ attempt'[r][n].worker = WorkerId[w]
             /\ attempt'[r][n].version = job'[w].version
    <3>1. drive'[w] = "running"
      BY <1>4, <1>6, <2>2 DEF NobodyDied
    <3>2. InHand(r, n, w)'
      BY <1>6, <2>2, <3>1 DEF InHand, Fenced, ExecutePC
    <3> QED BY <3>2
  <2> QED BY <1>1, <1>2, <2>1, <2>2, HoldKept
<1>7. NobodyDied' => NobodyDied
  BY <1>1, <1>4 DEF NobodyDied
<1>8. NobodyDied' => EveryAttemptInHand'
  BY <1>6, <1>7 DEF EveryAttemptInHand
<1>9. NobodyDied' => SomeoneLooks'
  BY <1>4 DEF NobodyDied, SomeoneLooks
<1>10. \A v \in Workers : pc'[v] # "idle" => drive'[v] \in {"running", "died"}
  BY <1>4, <1>5 DEF DriveInv
<1>11. \A q \in enqueued' : run'[q].status # "NONE"
  BY <1>1, <1>2, <1>3, OpenBefore DEF DriveInv, DriveType
<1>12. DriveType'
  BY <1>1, <1>2, <1>4 DEF DriveType
<1> QED BY <1>3, <1>8, <1>9, <1>10, <1>11, <1>12 DEF DriveInv

\* A drive that ends because no retry is pending leaves no open run behind:
\* the attempt of every run that is still open is in another drive's hands.
LEMMA AskKeeps ==
  ASSUME DriveInv, NEW w \in Workers, AskPending(w)
  PROVE  DriveInv'
<1> DEFINE next == IF HasPendingRetries THEN "running" ELSE "ended"
<1>1. /\ drive[w] = "asking" /\ drive' = [drive EXCEPT ![w] = next]
      /\ UNCHANGED vars /\ enqueued' = enqueued
      /\ run' = run /\ attempt' = attempt /\ pc' = pc /\ job' = job
  BY DEF AskPending, vars, dbVars, workerVars
<1>2. DbInv /\ DriveType /\ IInv'
  BY <1>1, NextSteps DEF DriveInv, IInv
<1>3. /\ drive'[w] = next
      /\ \A v \in Workers : v # w => drive'[v] = drive[v]
      /\ DriveType'
  BY <1>1, <1>2 DEF DriveType, DriveState
<1>4. NobodyDied' => NobodyDied
  BY <1>1, <1>3 DEF NobodyDied
<1>5. EveryAttemptInHand => EveryAttemptInHand'
  <2> SUFFICES ASSUME EveryAttemptInHand, NEW q \in Runs, NEW n \in AttemptNumber,
                      attempt[q][n].status = "RUNNING"
               PROVE  \E v \in Workers : InHand(q, n, v)'
    BY <1>1 DEF EveryAttemptInHand
  <2>1. PICK v \in Workers : InHand(q, n, v)
    BY DEF EveryAttemptInHand
  <2>2. v # w
    BY <1>1, <2>1 DEF InHand
  <2>3. InHand(q, n, v)'
    BY <1>1, <1>3, <2>1, <2>2 DEF InHand, Fenced
  <2> QED BY <2>3
<1>6. ASSUME NobodyDied
      PROVE  SomeoneLooks'
  <2> SUFFICES ASSUME NEW r \in enqueued, run[r].status \in OpenStatus
               PROVE  \E v \in Workers : drive'[v] \in {"running", "asking"}
    BY <1>1 DEF SomeoneLooks
  <2>1. CASE HasPendingRetries
    BY <1>3, <2>1
  <2>2. CASE ~ HasPendingRetries
    <3> DEFINE cur == run[r].current_attempt
    <3>1. r \in Runs
      BY <1>2 DEF DriveType
    <3>2. cur \in AttemptNumber /\ attempt[r][cur].status \in LiveStatus
      <4>1. AttemptsRow(run[r], attempt[r]) /\ run[r] \in RunRow
        BY <1>2, <3>1, RowFacts
      <4>2. run[r].status # "NONE"
        BY DEF OpenStatus
      <4>3. cur # 0 /\ cur \in 0..MaxAttempts
        BY <4>1, <4>2 DEF AttemptsRow, RunRow
      <4>4. cur \in AttemptNumber
        BY <4>3, LimitsAssumption DEF AttemptNumber
      <4> QED BY <4>1, <4>4 DEF AttemptsRow
    <3>3. attempt[r][cur].status = "RUNNING"
      BY <2>2, <3>1, <3>2 DEF HasPendingRetries, LiveStatus
    <3>4. PICK v \in Workers : InHand(r, cur, v)
      BY <1>6, <3>1, <3>2, <3>3 DEF DriveInv, EveryAttemptInHand
    <3>5. drive'[v] = "running"
      BY <1>1, <1>3, <3>4 DEF InHand
    <3> QED BY <3>5
  <2> QED BY <2>1, <2>2
<1>7. pc[w] = "idle"
  BY <1>1 DEF DriveInv
<1>8. \A v \in Workers : pc'[v] # "idle" => drive'[v] \in {"running", "died"}
  BY <1>1, <1>3, <1>7 DEF DriveInv
<1> QED BY <1>1, <1>2, <1>3, <1>4, <1>5, <1>6, <1>8 DEF DriveInv

\* The invariant holds before the first submission.
LEMMA DriveInitInv ==
  ASSUME InProcessInit
  PROVE  DriveInv
<1>1. IInv
  BY InitInv DEF InProcessInit
<1>2. \A w \in Workers : pc[w] = "idle"
  BY DEF InProcessInit, Init
<1>3. \A r \in Runs, n \in AttemptNumber : attempt[r][n].status # "RUNNING"
  BY DEF InProcessInit, Init, NoAttempt
<1> QED BY <1>1, <1>2, <1>3
        DEF DriveInv, DriveType, DriveState, InProcessInit, EveryAttemptInHand, SomeoneLooks

\* The drives of one process work the queue the way the workers of a
\* deployment do, so that all that is proved of the run queue holds of them.
THEOREM DrivesWorkTheQueue == InProcessSpec => Spec
<1>1. InProcessInit => Init
  BY DEF InProcessInit
<1>2. [InProcessNext]_processVars => [Next]_vars
  BY InProcessIsQueue DEF processVars
<1> QED BY <1>1, <1>2, PTL DEF InProcessSpec, Spec

\* The invariant of the drives is inductive.
THEOREM DrivesInvariance == InProcessSpec => []DriveInv
<1>1. InProcessInit => DriveInv
  BY DriveInitInv
<1>2. ASSUME DriveInv, UNCHANGED processVars
      PROVE  DriveInv'
  <2>1. UNCHANGED vars /\ drive' = drive /\ enqueued' = enqueued
        /\ run' = run /\ attempt' = attempt /\ pc' = pc /\ job' = job
    BY <1>2 DEF processVars, driveVars, vars, dbVars, workerVars
  <2>2. IInv'
    BY <1>2, <2>1, NextSteps DEF DriveInv
  <2> QED BY <1>2, <2>1, <2>2
          DEF DriveInv, DriveType, NobodyDied, EveryAttemptInHand, InHand, Fenced,
              SomeoneLooks
<1>3. ASSUME DriveInv, InProcessNext
      PROVE  DriveInv'
  BY <1>2, <1>3, SubmissionKeeps, EnqueueKeeps, RunOnceKeeps, AskKeeps, TimersKeep
  DEF InProcessNext, DriveStep
<1> QED BY <1>1, <1>2, <1>3, PTL DEF InProcessSpec

\* When every drive of the in-process queue has ended by itself, every
\* submitted run is over, for any number of submissions, drives and attempts,
\* and whether or not leases run out and runs are cancelled on the way: a drive
\* may stop looking because each run that is still open is being executed by
\* another drive, which looks again when it is done.
THEOREM DrivesLeaveNothing == InProcessSpec => []InProcessInv
<1>1. ASSUME DriveInv
      PROVE  InProcessInv
  <2>1. InProcessTypeOK
    BY <1>1 DEF DriveInv, DriveType, InProcessTypeOK, TypeOK, IInv, DbInv, DbType,
                WorkerInv, WorkerType
  <2>2. NoRetryLeftBehind
    <3> SUFFICES ASSUME \A r \in Runs : run[r].status # "NONE" => r \in enqueued,
                        \A w \in Workers : drive[w] \in {"unused", "ended"},
                        NEW r \in Runs, run[r].status \in OpenStatus
                 PROVE  FALSE
      BY DEF NoRetryLeftBehind
    <3>1. NobodyDied
      BY DEF NobodyDied
    <3>2. r \in enqueued
      BY DEF OpenStatus
    <3> QED BY <1>1, <3>1, <3>2 DEF DriveInv, SomeoneLooks
  <2> QED BY <2>1, <2>2 DEF InProcessInv
<1> QED BY <1>1, DrivesInvariance, PTL
=============================================================================
