----------------------------- MODULE Approvals -----------------------------
(***************************************************************************)
(* Human approval of write actions: the approval_requests,                 *)
(* approval_decision_events and approval_rollbacks tables of               *)
(* conversations/phase7.py PostgresApprovalRepository, the                 *)
(* ActionExecutionService and ApprovalExpiryService of the same file, and  *)
(* the requests of api/phase7.py that use them.                            *)
(*                                                                         *)
(* Handlers are requests being served, each by some API process; every     *)
(* process has its own ActionExecutionService, whose _outcomes and _lock   *)
(* live in its memory.                                                     *)
(* Every repository method is one transaction.  The action executors are   *)
(* external: what is kept of them is how often they were called.           *)
(***************************************************************************)
EXTENDS Integers, Sequences, FiniteSets

CONSTANTS
  Approvals,    \* approval requests that may be created
  Handlers,     \* requests that may be served at the same time
  Processes,    \* API processes
  AllowWrites,  \* settings.allow_write_actions
  MayCrash,     \* whether API processes can be killed
  MaxCalls      \* bound: executor calls are counted up to this number

ASSUME SettingsAssumption ==
  /\ AllowWrites \in BOOLEAN
  /\ MayCrash \in BOOLEAN
  /\ MaxCalls \in Nat \ {0}

VARIABLES
  status,      \* approval_requests.status
  dry,         \* approval_requests.dry_run
  due,         \* whether expires_at has passed
  decisions,   \* approval_decision_events, oldest first
  rollback,    \* approval_rollbacks: how the recorded compensation went
  applied,     \* calls of executor.execute that took effect
  undone,      \* calls of executor.rollback that took effect
  known,       \* per process: the approvals in _outcomes
  lock,        \* per process: the handler that holds _lock
  pc,          \* where each handler is
  req,         \* the request it serves, where, and the status it has read
  sweep        \* the due approvals that its expiry sweep has listed

tableVars == <<status, dry, due, decisions, rollback>>
externalVars == <<applied, undone>>
handlerVars == <<pc, req, sweep>>
vars == <<tableVars, externalVars, known, lock, handlerVars>>

ApprovalStatus == {"REQUESTED", "APPROVED", "REJECTED", "EXPIRED", "CANCELLED",
                   "EXECUTED", "ROLLED_BACK"}
Status == {"NONE"} \cup ApprovalStatus
Decision == {"APPROVED", "REJECTED", "CANCELLED", "EXECUTED", "ROLLED_BACK"}
Seen == [approval: Approvals, status: Status]
NoHandler == "no handler"
ASSUME HandlersAssumption == NoHandler \notin Handlers
PC == {"idle", "sweeping", "deciding", "locking", "executing", "committing",
       "rollback", "compensating", "compensated", "failed", "rolling back"}

TypeOK ==
  /\ status \in [Approvals -> Status]
  /\ dry \in [Approvals -> BOOLEAN]
  /\ due \in [Approvals -> BOOLEAN]
  /\ decisions \in [Approvals -> Seq([from: Status, to: ApprovalStatus])]
  /\ rollback \in [Approvals -> {"none", "compensated", "failed"}]
  /\ applied \in [Approvals -> 0..MaxCalls]
  /\ undone \in [Approvals -> 0..MaxCalls]
  /\ known \in [Processes -> SUBSET Approvals]
  /\ lock \in [Processes -> Handlers \cup {NoHandler}]
  /\ pc \in [Handlers -> PC]
  /\ req \in [Handlers -> [approval: Approvals \cup {"none"},
                           target: Decision \cup {"none"}, status: Status,
                           process: Processes \cup {"none"}]]
  /\ sweep \in [Handlers -> SUBSET Seen]

NoRequest == [approval |-> "none", target |-> "none", status |-> "NONE",
              process |-> "none"]

Init ==
  /\ status = [a \in Approvals |-> "NONE"]
  /\ dry = [a \in Approvals |-> FALSE]
  /\ due = [a \in Approvals |-> FALSE]
  /\ decisions = [a \in Approvals |-> <<>>]
  /\ rollback = [a \in Approvals |-> "none"]
  /\ applied = [a \in Approvals |-> 0]
  /\ undone = [a \in Approvals |-> 0]
  /\ known = [p \in Processes |-> {}]
  /\ lock = [p \in Processes |-> NoHandler]
  /\ pc = [h \in Handlers |-> "idle"]
  /\ req = [h \in Handlers |-> NoRequest]
  /\ sweep = [h \in Handlers |-> {}]

-----------------------------------------------------------------------------
\* transition_approval

\* _TRANSITIONS
Transitions(from) ==
  IF from = "REQUESTED" THEN {"APPROVED", "REJECTED", "EXPIRED", "CANCELLED"}
  ELSE IF from = "APPROVED" THEN {"EXECUTED", "EXPIRED", "CANCELLED"}
  ELSE IF from = "EXECUTED" THEN {"ROLLED_BACK"} ELSE {}

\* After expires_at every decision but a cancel turns into an expiry.
Effective(a, target) ==
  IF due[a] /\ target \notin {"EXPIRED", "CANCELLED"} THEN "EXPIRED" ELSE target

\* WHERE status=:expected: the row is still as the caller read it.
AsRead_Any(a, read) == status[a] # "NONE"
AsRead(a, read) == status[a] = read

Allowed(a, read, target) ==
  /\ Effective(a, target) \in Transitions(read)
  /\ Effective(a, target) = "EXECUTED" => AllowWrites /\ ~ dry[a]
  /\ AsRead(a, read)

Transition(a, read, target) ==
  /\ Allowed(a, read, target)
  /\ status' = [status EXCEPT ![a] = Effective(a, target)]
  /\ decisions' = [decisions EXCEPT
                     ![a] = Append(@, [from |-> read, to |-> Effective(a, target)])]
  /\ UNCHANGED <<dry, due, rollback>>

-----------------------------------------------------------------------------
\* A request: create_approval, or a sweep followed by a decision

Create(a, preview) ==
  /\ status[a] = "NONE"
  /\ dry' = [dry EXCEPT ![a] = preview]
  /\ status' = [status EXCEPT ![a] = "REQUESTED"]
  /\ decisions' = [decisions EXCEPT ![a] = <<[from |-> "NONE", to |-> "REQUESTED"]>>]
  /\ UNCHANGED <<due, rollback, externalVars, known, lock, handlerVars>>

\* The clock reaches expires_at.
Expire(a) ==
  /\ status[a] # "NONE"
  /\ ~ due[a]
  /\ due' = [due EXCEPT ![a] = TRUE]
  /\ UNCHANGED <<status, dry, decisions, rollback, externalVars, known, lock,
                 handlerVars>>

Step(h, from, to) == pc[h] = from /\ pc' = [pc EXCEPT ![h] = to]
Finish(h) ==
  /\ pc' = [pc EXCEPT ![h] = "idle"]
  /\ req' = [req EXCEPT ![h] = NoRequest]

\* Every request first sweeps: list_due, then one transition per row.  A
\* target of "none" is get_approval or expire_approvals, which only sweep.
BeginRequest(h, p, a, target) ==
  /\ status[a] # "NONE"
  /\ Step(h, "idle", "sweeping")
  /\ req' = [req EXCEPT ![h] = [approval |-> a, target |-> target,
                                 status |-> "NONE", process |-> p]]
  /\ sweep' = [sweep EXCEPT ![h] =
                 {s \in Seen : /\ status[s.approval] = s.status
                               /\ s.status \in {"REQUESTED", "APPROVED"}
                               /\ due[s.approval]}]
  /\ UNCHANGED <<tableVars, externalVars, known, lock>>

\* A row that has changed since it was listed is skipped.
SweepOne(h) ==
  /\ pc[h] = "sweeping"
  /\ \E s \in sweep[h] :
       /\ \/ Transition(s.approval, s.status, "EXPIRED")
          \/ ~ Allowed(s.approval, s.status, "EXPIRED") /\ UNCHANGED tableVars
       /\ sweep' = [sweep EXCEPT ![h] = @ \ {s}]
  /\ UNCHANGED <<externalVars, known, lock, pc, req>>

\* The approval is read, and everything below trusts what was read.  A
\* dry-run execution only previews; an executed approval is answered as is.
ReadApproval_NoDryRun(h) ==
  LET a == req[h].approval
      target == req[h].target
      read == status[a]
  IN
  /\ pc[h] = "sweeping"
  /\ sweep[h] = {}
  /\ IF target = "none" \/ (target = "EXECUTED" /\ read = "EXECUTED")
     THEN Finish(h)
     ELSE /\ req' = [req EXCEPT ![h] = [approval |-> a, target |-> target,
                                         status |-> read, process |-> req[h].process]]
          /\ Step(h, "sweeping", IF target = "EXECUTED" THEN "locking"
                                 ELSE IF target = "ROLLED_BACK" THEN "rollback"
                                 ELSE "deciding")
  /\ UNCHANGED <<tableVars, externalVars, known, lock, sweep>>
ReadApproval(h) ==
  LET a == req[h].approval
      target == req[h].target
      read == status[a]
  IN
  /\ pc[h] = "sweeping"
  /\ sweep[h] = {}
  /\ IF \/ target = "none"
        \/ target = "EXECUTED" /\ (dry[a] \/ read = "EXECUTED")
     THEN Finish(h)
     ELSE /\ req' = [req EXCEPT ![h] = [approval |-> a, target |-> target,
                                         status |-> read, process |-> req[h].process]]
          /\ Step(h, "sweeping", IF target = "EXECUTED" THEN "locking"
                                 ELSE IF target = "ROLLED_BACK" THEN "rollback"
                                 ELSE "deciding")
  /\ UNCHANGED <<tableVars, externalVars, known, lock, sweep>>

\* APPROVED, REJECTED and CANCELLED go straight to transition_approval.
Decide(h) ==
  /\ pc[h] = "deciding"
  /\ Transition(req[h].approval, req[h].status, req[h].target)
  /\ Finish(h)
  /\ UNCHANGED <<externalVars, known, lock, sweep>>

\* Refused: the transition is invalid, the row has changed, or the principal
\* lacks the role that the decision requires.
DecideRefused(h) ==
  /\ pc[h] = "deciding"
  /\ Finish(h)
  /\ UNCHANGED <<tableVars, externalVars, known, lock, sweep>>

-----------------------------------------------------------------------------
\* ActionExecutionService.execute

Release(h) == lock' = [lock EXCEPT ![req[h].process] = NoHandler]

\* Under the lock, an approval with a known outcome is not executed again.
AcquireLock_NoRecheck(h) ==
  /\ pc[h] = "locking"
  /\ lock[req[h].process] = NoHandler
  /\ Step(h, "locking", "executing")
  /\ lock' = [lock EXCEPT ![req[h].process] = h]
  /\ UNCHANGED <<tableVars, externalVars, known, req, sweep>>
AcquireLock(h) ==
  /\ pc[h] = "locking"
  /\ lock[req[h].process] = NoHandler
  /\ IF req[h].approval \in known[req[h].process]
     THEN Finish(h) /\ UNCHANGED lock
     ELSE /\ Step(h, "locking", "executing")
          /\ lock' = [lock EXCEPT ![req[h].process] = h]
          /\ UNCHANGED req
  /\ UNCHANGED <<tableVars, externalVars, known, sweep>>

Counted(n) == IF n < MaxCalls THEN n + 1 ELSE n

\* executor.execute comes first: it takes effect, or raises.
CallExecutor_Swallowed(h) ==
  \/ /\ Step(h, "executing", "committing")
     /\ applied' = [applied EXCEPT ![req[h].approval] = Counted(@)]
     /\ UNCHANGED <<tableVars, undone, known, lock, req, sweep>>
  \/ /\ Step(h, "executing", "committing")
     /\ UNCHANGED <<tableVars, externalVars, known, lock, req, sweep>>
CallExecutor(h) ==
  \/ /\ Step(h, "executing", "committing")
     /\ applied' = [applied EXCEPT ![req[h].approval] = Counted(@)]
     /\ UNCHANGED <<tableVars, undone, known, lock, req, sweep>>
  \/ /\ pc[h] = "executing"
     /\ Finish(h)
     /\ Release(h)
     /\ UNCHANGED <<tableVars, externalVars, known, sweep>>

\* ... and transition_approval decides afterwards whether it was allowed.
CommitExecution(h) ==
  LET a == req[h].approval
      p == req[h].process
  IN
  /\ pc[h] = "committing"
  /\ \/ /\ Transition(a, req[h].status, "EXECUTED")
        /\ known' = [known EXCEPT ![p] = @ \cup {a}]
     \/ /\ ~ Allowed(a, req[h].status, "EXECUTED")
        /\ UNCHANGED <<tableVars, known>>
  /\ Finish(h)
  /\ Release(h)
  /\ UNCHANGED <<externalVars, sweep>>

-----------------------------------------------------------------------------
\* ActionExecutionService.rollback

\* get_rollback: an approval with a record is answered with it.
ReadRollback(h) ==
  /\ pc[h] = "rollback"
  /\ IF rollback[req[h].approval] # "none"
     THEN Finish(h)
     ELSE Step(h, "rollback", "compensating") /\ UNCHANGED req
  /\ UNCHANGED <<tableVars, externalVars, known, lock, sweep>>

\* executor.rollback takes effect, or raises and is recorded as failed.
Compensate(h) ==
  \/ /\ Step(h, "compensating", "compensated")
     /\ undone' = [undone EXCEPT ![req[h].approval] = Counted(@)]
     /\ UNCHANGED <<tableVars, applied, known, lock, req, sweep>>
  \/ /\ Step(h, "compensating", "failed")
     /\ UNCHANGED <<tableVars, externalVars, known, lock, req, sweep>>

\* add_rollback: ON CONFLICT (approval_id) DO NOTHING.
AddRollback_ApprovalStatus(a, outcome) ==
  /\ rollback' = [rollback EXCEPT ![a] = IF @ = "none" THEN status[a] ELSE @]
  /\ UNCHANGED <<status, dry, due, decisions>>
AddRollback(a, outcome) ==
  /\ rollback' = [rollback EXCEPT ![a] = IF @ = "none" THEN outcome ELSE @]
  /\ UNCHANGED <<status, dry, due, decisions>>

\* Only a compensation that worked goes on to the status.
RecordRollback_Always(h) ==
  /\ pc[h] \in {"compensated", "failed"}
  /\ AddRollback(req[h].approval, pc[h])
  /\ pc' = [pc EXCEPT ![h] = "rolling back"]
  /\ UNCHANGED <<externalVars, known, lock, req, sweep>>
RecordRollback(h) ==
  /\ pc[h] \in {"compensated", "failed"}
  /\ AddRollback(req[h].approval, pc[h])
  /\ IF pc[h] = "failed" THEN Finish(h)
     ELSE pc' = [pc EXCEPT ![h] = "rolling back"] /\ UNCHANGED req
  /\ UNCHANGED <<externalVars, known, lock, sweep>>

CommitRollback(h) ==
  LET a == req[h].approval IN
  /\ pc[h] = "rolling back"
  /\ \/ Transition(a, req[h].status, "ROLLED_BACK")
     \/ ~ Allowed(a, req[h].status, "ROLLED_BACK") /\ UNCHANGED tableVars
  /\ Finish(h)
  /\ UNCHANGED <<externalVars, known, lock, sweep>>

-----------------------------------------------------------------------------
\* An API process dies: its requests, its lock and its _outcomes are gone.
Crash(p) ==
  /\ MayCrash
  /\ pc' = [h \in Handlers |-> IF req[h].process = p THEN "idle" ELSE pc[h]]
  /\ req' = [h \in Handlers |-> IF req[h].process = p THEN NoRequest ELSE req[h]]
  /\ sweep' = [h \in Handlers |-> IF req[h].process = p THEN {} ELSE sweep[h]]
  /\ known' = [known EXCEPT ![p] = {}]
  /\ lock' = [lock EXCEPT ![p] = NoHandler]
  /\ UNCHANGED <<tableVars, externalVars>>

-----------------------------------------------------------------------------
\* What a request that is being served does next.
HandlerStep(h) ==
  \/ SweepOne(h) \/ ReadApproval(h) \/ Decide(h) \/ DecideRefused(h)
  \/ AcquireLock(h) \/ CallExecutor(h) \/ CommitExecution(h)
  \/ ReadRollback(h) \/ Compensate(h) \/ RecordRollback(h) \/ CommitRollback(h)

Next ==
  \/ \E a \in Approvals : Expire(a) \/ \E preview \in BOOLEAN : Create(a, preview)
  \/ \E h \in Handlers, p \in Processes, a \in Approvals,
       target \in Decision \cup {"none"} : BeginRequest(h, p, a, target)
  \/ \E h \in Handlers : HandlerStep(h)
  \/ \E p \in Processes : Crash(p)

Spec == Init /\ [][Next]_vars

\* A request that is being served goes on; clients owe nothing.
FairSpec == Spec /\ \A h \in Handlers : WF_vars(HandlerStep(h))

-----------------------------------------------------------------------------
\* Safety

\* The audit trail of an approval is a path of the allowed transitions from
\* its creation to its present status: of two requests, or of a request and
\* an expiry sweep, that race on what they have read, one is refused.
TrailIsPath ==
  \A a \in Approvals :
    LET trail == decisions[a] IN
    /\ status[a] = "NONE" <=> trail = <<>>
    /\ trail # <<>> =>
         /\ trail[1] = [from |-> "NONE", to |-> "REQUESTED"]
         /\ trail[Len(trail)].to = status[a]
    /\ \A i \in 2..Len(trail) :
         /\ trail[i].from = trail[i - 1].to
         /\ trail[i].to \in Transitions(trail[i].from)

\* What the trail calls executed did happen: the executor's failure, an expiry
\* or a crash on the way leaves no EXECUTED.
ExecutedWasApplied ==
  \A a \in Approvals : status[a] \in {"EXECUTED", "ROLLED_BACK"} => applied[a] > 0

\* The action of a dry-run approval is never carried out, though the check in
\* transition_approval comes only after the executor's call.
DryRunNotApplied == \A a \in Approvals : dry[a] => applied[a] = 0

\* What the trail calls rolled back was compensated, and has its record.
RolledBackWasUndone ==
  \A a \in Approvals :
    status[a] = "ROLLED_BACK" => undone[a] > 0 /\ rollback[a] # "none"

\* A process that has executed an approval is never about to carry out its
\* action again: not for a request that read the approval before and waited
\* for the lock, and not after a rollback, as long as the process lives.
NotRepeated ==
  \A h \in Handlers :
    pc[h] = "executing" => req[h].approval \notin known[req[h].process]

-----------------------------------------------------------------------------
\* What the code's own words say and the code does not do

\* "Pluggable side-effect adapter used only after an approval is granted"
\* (ActionExecutor): no action takes effect for an approval that was never
\* granted.
AppliedOnlyIfApproved ==
  \A a \in Approvals :
    applied[a] > 0 => \E i \in DOMAIN decisions[a] : decisions[a][i].to = "APPROVED"

\* "assert rolled_back.status is ApprovalStatus.ROLLED_BACK" where the record
\* says compensated (test_workspace_approver_expiry_executor_resume_and_
\* compensation): a rollback that found the approval EXECUTED and compensated
\* its action makes it ROLLED_BACK.
CompensatedIsRolledBack ==
  \A h \in Handlers, a \in Approvals :
    /\ pc[h] = "compensated"
    /\ req[h].approval = a
    /\ req[h].status = "EXECUTED"
    ~> status[a] = "ROLLED_BACK"

\* What the row of an approval says was done to the outside world was done:
\* executed, compensated, kept dry, and not twice by one process; and its trail
\* tells how it came there.
ApprovalsInv ==
  /\ TypeOK
  /\ TrailIsPath
  /\ ExecutedWasApplied
  /\ RolledBackWasUndone
  /\ DryRunNotApplied
  /\ NotRepeated
=============================================================================
