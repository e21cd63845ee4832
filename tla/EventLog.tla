------------------------------ MODULE EventLog ------------------------------
(***************************************************************************)
(* The activity events of one thread's runs: the run_events table and the  *)
(* executors and API requests that append to it.  append_event,            *)
(* finalize_attempt and cancel insert inside a transaction that first      *)
(* takes an advisory lock on the run and one on the thread and then reads  *)
(* MAX(sequence) + 1; what another connection reads in the meantime does   *)
(* not show the row.  The terminal event is inserted in the transaction    *)
(* that sets the run's status.                                             *)
(*                                                                         *)
(* Who may execute an attempt is module RunQueue's subject.  Here a new    *)
(* attempt may start while the previous executor, which has crashed or     *)
(* only lost its lease, is still in the middle of its mission; only the    *)
(* newest attempt can be finalized.                                        *)
(***************************************************************************)
EXTENDS Integers, Sequences, FiniteSets, SequencesExt

CONSTANTS
  Runs,         \* the runs of the thread
  MaxAttempts,  \* per run: the attempts it may take
  Kinds,        \* what an executor emits besides its first and last event
  Results,      \* how an executor may end the run
  MaxRows       \* bound: events in the log before only terminal ones come

ASSUME EventBounds ==
  /\ MaxAttempts \in [Runs -> Nat \ {0}]
  /\ Kinds \subseteq {"progress", "answer.delta", "answer.reset"}
  /\ Results \subseteq {"run.completed", "run.failed"}
  /\ MaxRows \in Nat

VARIABLES
  rows,    \* the committed rows of run_events, in the order of their commits
  tx,      \* per writer: the row its open transaction has inserted
  status,  \* the run's status: "open" while QUEUED or RUNNING
  phase    \* per writer: where its executor is

logVars == <<rows, tx, status, phase>>

TerminalType == {"run.completed", "run.failed", "run.cancelled"}
Type == {"run.started", "progress", "answer.delta", "answer.reset"}
          \cup TerminalType
Writers == UNION {{<<r, n>> : n \in 0..MaxAttempts[r]} : r \in Runs}
Row == [run: Runs, attempt: Nat, type: Type, sequence: Nat,
        thread_sequence: Nat]
NoRow == [run |-> "none"]

LogTypeOK ==
  /\ rows \in Seq(Row)
  /\ tx \in [Writers -> Row \cup {NoRow}]
  /\ status \in [Runs -> {"open"} \cup TerminalType]
  /\ phase \in [Writers -> {"off", "emitting", "retrying", "ended"}]

LogInit ==
  /\ rows = <<>>
  /\ tx = [w \in Writers |-> NoRow]
  /\ status = [r \in Runs |-> "open"]
  /\ phase = [w \in Writers |-> "off"]

-----------------------------------------------------------------------------
MaxOf(s) == IF s = {} THEN 0 ELSE CHOOSE m \in s : \A n \in s : n <= m

\* pg_advisory_xact_lock on the run and then on the thread, both held to the
\* end of the transaction; all these runs are in one thread.
LockFree_RunOnly(r) == \A w \in Writers : w[1] = r => tx[w] = NoRow
LockFree(r) == \A w \in Writers : tx[w] = NoRow

\* ON CONFLICT (id) DO NOTHING: an attempt has one run.started and one
\* terminal event; deltas, resets and progress steps have ids of their own.
Conflicts(r, n, type) ==
  /\ type \in {"run.started"} \cup TerminalType
  /\ \E i \in DOMAIN rows : /\ rows[i].run = r /\ rows[i].attempt = n
                            /\ rows[i].type = type

\* append_event up to its commit: the locks, then the INSERT that numbers the
\* row after every row that is committed.
Insert(r, n, type) ==
  /\ LockFree(r)
  /\ tx[<<r, n>>] = NoRow
  /\ ~Conflicts(r, n, type)
  /\ tx' = [tx EXCEPT ![<<r, n>>] =
       [run |-> r, attempt |-> n, type |-> type,
        sequence |-> 1 + MaxOf({rows[i].sequence :
                                i \in {j \in DOMAIN rows : rows[j].run = r}}),
        thread_sequence |-> 1 + MaxOf({rows[i].thread_sequence :
                                       i \in DOMAIN rows})]]

\* The commit shows the row, and with a terminal event the run's new status.
Commit(w) ==
  /\ tx[w] # NoRow
  /\ rows' = Append(rows, tx[w])
  /\ tx' = [tx EXCEPT ![w] = NoRow]
  /\ status' = IF tx[w].type \in TerminalType
               THEN [status EXCEPT ![w[1]] = tx[w].type] ELSE status
  /\ UNCHANGED phase

-----------------------------------------------------------------------------
\* _execute_submission of attempt n of run r, event by event

Newest(r) == MaxOf({n \in 1..MaxAttempts[r] : phase[<<r, n>>] # "off"})
Room == Len(rows) < MaxRows

\* The attempt enters RUNNING and emits run.started.  The one before it has
\* asked for a retry, or its worker has not been heard of for a lease.
StartAttempt_Claimed(r, n) ==
  /\ Room /\ status[r] = "open"
  /\ phase[<<r, n>>] = "off" /\ Newest(r) = n - 1
  /\ Insert(r, n, "run.started")
  /\ phase' = [phase EXCEPT ![<<r, n>>] = "claimed"]
  /\ UNCHANGED <<rows, status>>
StartAttempt(r, n) ==
  /\ Room /\ status[r] = "open"
  /\ phase[<<r, n>>] = "off" /\ Newest(r) = n - 1
  /\ Insert(r, n, "run.started")
  /\ phase' = [phase EXCEPT ![<<r, n>>] = "emitting"]
  /\ UNCHANGED <<rows, status>>

\* _emit_answer_stream, called while the mission's answer is generated (with
\* "reset" before a revision streams it again), and _progress.
Emit(r, n, kind) ==
  /\ Room /\ phase[<<r, n>>] = "emitting"
  /\ Insert(r, n, kind)
  /\ UNCHANGED <<rows, status, phase>>

\* A failure that will be retried clears the answer streamed so far.
EmitRetrying(r, n) ==
  /\ Room /\ phase[<<r, n>>] = "emitting" /\ n < MaxAttempts[r]
  /\ Insert(r, n, "answer.reset")
  /\ phase' = [phase EXCEPT ![<<r, n>>] = "retrying"]
  /\ UNCHANGED <<rows, status>>

\* finalize_attempt with the executor's result, refused unless the attempt is
\* the run's newest and the run is still open.
Finalize_Unfenced(r, n, type) ==
  /\ phase[<<r, n>>] = "emitting"
  /\ Insert(r, n, type)
  /\ phase' = [phase EXCEPT ![<<r, n>>] = "ended"]
  /\ UNCHANGED <<rows, status>>
Finalize(r, n, type) ==
  /\ phase[<<r, n>>] = "emitting" /\ Newest(r) = n /\ status[r] = "open"
  /\ Insert(r, n, type)
  /\ phase' = [phase EXCEPT ![<<r, n>>] = "ended"]
  /\ UNCHANGED <<rows, status>>

\* cancel_run: the API process is writer 0 of every run.
CancelRun(r) ==
  /\ status[r] = "open" /\ phase[<<r, 0>>] = "off"
  /\ Insert(r, 0, "run.cancelled")
  /\ phase' = [phase EXCEPT ![<<r, 0>>] = "ended"]
  /\ UNCHANGED <<rows, status>>

LogNext ==
  \/ \E r \in Runs : CancelRun(r)
  \/ \E r \in Runs : \E n \in 1..MaxAttempts[r] :
       \/ StartAttempt(r, n) \/ EmitRetrying(r, n)
       \/ \E kind \in Kinds : Emit(r, n, kind)
       \/ \E type \in Results : Finalize(r, n, type)
  \/ \E w \in Writers : Commit(w)
=============================================================================
