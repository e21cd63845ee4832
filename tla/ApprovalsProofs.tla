-------------------------- MODULE ApprovalsProofs --------------------------
(***************************************************************************)
(* Theorems about Approvals, for every set of approvals, handlers and      *)
(* processes, with crashes and expiries at any moment.                     *)
(***************************************************************************)
EXTENDS Approvals, SequenceTheorems, TLAPS

\* TrailIsPath for one approval.
Trail(a) ==
  LET trail == decisions[a] IN
  /\ status[a] = "NONE" <=> trail = <<>>
  /\ trail # <<>> =>
       /\ trail[1] = [from |-> "NONE", to |-> "REQUESTED"]
       /\ trail[Len(trail)].to = status[a]
  /\ \A i \in 2..Len(trail) :
       /\ trail[i].from = trail[i - 1].to
       /\ trail[i].to \in Transitions(trail[i].from)

\* A step leaves the row of an approval alone, creates it, or moves it along
\* _TRANSITIONS and says so in its trail.
RowKept(a) == status'[a] = status[a] /\ decisions'[a] = decisions[a]
RowCreated(a) ==
  /\ status[a] = "NONE"
  /\ status'[a] = "REQUESTED"
  /\ decisions'[a] = <<[from |-> "NONE", to |-> "REQUESTED"]>>
RowMoved(a) ==
  /\ status'[a] \in Transitions(status[a])
  /\ decisions'[a] = Append(decisions[a], [from |-> status[a], to |-> status'[a]])
RowStep(a) == RowKept(a) \/ RowCreated(a) \/ RowMoved(a)

\* What the steps need to know of the types of the two tables.
RowsOK ==
  /\ status \in [Approvals -> Status]
  /\ decisions \in [Approvals -> Seq([from: Status, to: ApprovalStatus])]

\* transition_approval moves one row; a row outside the table is not there.
LEMMA TransitionRows ==
  ASSUME RowsOK, NEW b, NEW read, NEW target, Transition(b, read, target)
  PROVE  RowsOK' /\ \A a \in Approvals : RowStep(a)
<1> DEFINE to == Effective(b, target)
<1>1. /\ status[b] = read
      /\ to \in Transitions(read)
  BY DEF Transition, Allowed, AsRead
<1>2. /\ status' = [status EXCEPT ![b] = to]
      /\ decisions' = [decisions EXCEPT
                         ![b] = Append(@, [from |-> read, to |-> to])]
  BY DEF Transition
<1> HIDE DEF to
<1>3. to \in ApprovalStatus
  BY <1>1 DEF Transitions, ApprovalStatus
<1>4. CASE b \in Approvals
  <2>1. read \in Status
    BY <1>1, <1>4 DEF RowsOK
  <2>2. Append(decisions[b], [from |-> read, to |-> to])
          \in Seq([from: Status, to: ApprovalStatus])
    <3>1. [from |-> read, to |-> to] \in [from: Status, to: ApprovalStatus]
      BY <1>3, <2>1
    <3>2. decisions[b] \in Seq([from: Status, to: ApprovalStatus])
      BY <1>4 DEF RowsOK
    <3> QED BY <3>1, <3>2, AppendProperties
  <2>3. RowsOK'
    BY <1>2, <1>3, <1>4, <2>2 DEF RowsOK, Status
  <2>4. ASSUME NEW a \in Approvals PROVE RowStep(a)
    <3>1. CASE a = b
      BY <1>1, <1>2, <1>4, <3>1 DEF RowsOK, RowStep, RowMoved
    <3>2. CASE a # b
      BY <1>2, <3>2 DEF RowsOK, RowStep, RowKept
    <3> QED BY <3>1, <3>2
  <2> QED BY <2>3, <2>4
<1>5. CASE b \notin Approvals
  <2>1. status' = status /\ decisions' = decisions
    BY <1>2, <1>5 DEF RowsOK
  <2> QED BY <2>1 DEF RowsOK, RowStep, RowKept
<1> QED BY <1>4, <1>5

\* Every step of the system is a step of the rows.
LEMMA NextRows ==
  ASSUME RowsOK, [Next]_vars
  PROVE  RowsOK' /\ \A a \in Approvals : RowStep(a)
<1>1. CASE UNCHANGED <<status, decisions>>
  BY <1>1 DEF RowsOK, RowStep, RowKept
<1>2. CASE \E b \in Approvals, preview \in BOOLEAN : Create(b, preview)
  <2> PICK b \in Approvals, preview \in BOOLEAN : Create(b, preview) BY <1>2
  <2>1. /\ status' = [status EXCEPT ![b] = "REQUESTED"]
        /\ decisions' = [decisions EXCEPT
                           ![b] = <<[from |-> "NONE", to |-> "REQUESTED"]>>]
        /\ status[b] = "NONE"
    BY DEF Create
  <2>2. <<[from |-> "NONE", to |-> "REQUESTED"]>>
          \in Seq([from: Status, to: ApprovalStatus])
    BY DEF Status, ApprovalStatus
  <2>3. RowsOK'
    BY <2>1, <2>2 DEF RowsOK, Status, ApprovalStatus
  <2>4. ASSUME NEW a \in Approvals PROVE RowStep(a)
    BY <2>1 DEF RowsOK, RowStep, RowKept, RowCreated
  <2> QED BY <2>3, <2>4
<1>3. CASE \E b, read, target : Transition(b, read, target)
  BY <1>3, TransitionRows
<1>4. \/ UNCHANGED <<status, decisions>>
      \/ \E b \in Approvals, preview \in BOOLEAN : Create(b, preview)
      \/ \E b, read, target : Transition(b, read, target)
  <2>1. CASE UNCHANGED vars
    BY <2>1 DEF vars, tableVars
  <2>2. CASE \E a \in Approvals :
               Expire(a) \/ \E preview \in BOOLEAN : Create(a, preview)
    BY <2>2 DEF Expire
  <2>3. CASE \E h \in Handlers, p \in Processes, a \in Approvals,
               target \in Decision \cup {"none"} : BeginRequest(h, p, a, target)
    BY <2>3 DEF BeginRequest, tableVars
  <2>4. CASE \E p \in Processes : Crash(p)
    BY <2>4 DEF Crash, tableVars
  <2>5. ASSUME NEW h \in Handlers, HandlerStep(h)
        PROVE  \/ UNCHANGED <<status, decisions>>
               \/ \E b, read, target : Transition(b, read, target)
    <3>1. CASE SweepOne(h)
      BY <3>1 DEF SweepOne, tableVars
    <3>2. CASE Decide(h)
      BY <3>2 DEF Decide
    <3>3. CASE CommitExecution(h)
      BY <3>3 DEF CommitExecution, tableVars
    <3>4. CASE CommitRollback(h)
      BY <3>4 DEF CommitRollback, tableVars
    <3>5. CASE RecordRollback(h)
      BY <3>5 DEF RecordRollback, AddRollback
    <3>6. CASE ReadApproval(h) \/ DecideRefused(h)
      BY <3>6 DEF ReadApproval, DecideRefused, tableVars
    <3>7. CASE AcquireLock(h) \/ CallExecutor(h)
      BY <3>7 DEF AcquireLock, CallExecutor, tableVars
    <3>8. CASE ReadRollback(h) \/ Compensate(h)
      BY <3>8 DEF ReadRollback, Compensate, tableVars
    <3> QED BY <2>5, <3>1, <3>2, <3>3, <3>4, <3>5, <3>6, <3>7, <3>8 DEF HandlerStep
  <2> QED BY <2>1, <2>2, <2>3, <2>4, <2>5 DEF Next
<1> QED BY <1>1, <1>2, <1>3, <1>4

\* A row step keeps the trail a path.
LEMMA TrailKept ==
  ASSUME RowsOK, RowsOK', NEW a \in Approvals, Trail(a), RowStep(a)
  PROVE  Trail(a)'
<1>1. CASE RowKept(a)
  BY <1>1 DEF RowKept, Trail
<1>2. CASE RowCreated(a)
  <2> DEFINE e == [from |-> "NONE", to |-> "REQUESTED"]
  <2>1. /\ decisions'[a] = <<e>> /\ Len(decisions'[a]) = 1
        /\ decisions'[a][1] = e /\ decisions'[a] # <<>>
        /\ status'[a] = "REQUESTED" /\ e.to = "REQUESTED"
    BY <1>2 DEF RowCreated
  <2> HIDE DEF e
  <2>2. 2..Len(decisions'[a]) = {}
    BY <2>1
  <2> QED BY <2>1, <2>2 DEF Trail, e
<1>3. CASE RowMoved(a)
  <2> DEFINE old == decisions[a]
             new == decisions'[a]
             e == [from |-> status[a], to |-> status'[a]]
  <2>1. /\ old \in Seq([from: Status, to: ApprovalStatus])
        /\ new = Append(old, e)
        /\ status'[a] \in Transitions(status[a])
    BY <1>3 DEF RowMoved, RowsOK
  <2>2. status[a] # "NONE" /\ status'[a] # "NONE"
    BY <2>1 DEF Transitions
  <2>3. old # <<>> /\ old[1] = [from |-> "NONE", to |-> "REQUESTED"]
        /\ old[Len(old)].to = status[a]
        /\ \A i \in 2..Len(old) : /\ old[i].from = old[i - 1].to
                                  /\ old[i].to \in Transitions(old[i].from)
    BY <2>2 DEF Trail
  <2>4. e.from = status[a] /\ e.to = status'[a]
    OBVIOUS
  <2> HIDE DEF old, new, e
  <2>5. /\ Len(old) \in Nat \ {0}
        /\ Len(new) = Len(old) + 1
        /\ new[Len(new)] = e
        /\ \A i \in 1..Len(old) : new[i] = old[i]
        /\ new # <<>>
    BY <2>1, <2>3
  <2>6. ASSUME NEW i \in 2..Len(new)
        PROVE  /\ new[i].from = new[i - 1].to
               /\ new[i].to \in Transitions(new[i].from)
    <3>1. CASE i \in 2..Len(old)
      <4>1. i \in 1..Len(old) /\ i - 1 \in 1..Len(old)
        BY <2>5, <3>1
      <4> QED BY <2>3, <2>5, <3>1, <4>1
    <3>2. CASE i = Len(new)
      <4>1. i - 1 = Len(old) /\ Len(old) \in 1..Len(old)
        BY <2>5, <3>2
      <4> QED BY <2>1, <2>3, <2>4, <2>5, <3>2, <4>1
    <3> QED BY <2>5, <3>1, <3>2
  <2>7. new[1] = old[1]
    BY <2>5
  <2> QED BY <2>2, <2>3, <2>4, <2>5, <2>6, <2>7 DEF Trail, new
<1> QED BY <1>1, <1>2, <1>3 DEF RowStep

\* The audit trail of every approval is a path of _TRANSITIONS from its
\* creation to its present status, however many requests, sweeps, processes
\* and crashes race: the compare-and-set of PostgresApprovalRepository.
\* transition makes one of two decisions on the same reading fail.
THEOREM TrailsArePaths == Spec => []TrailIsPath
<1> DEFINE Inv == RowsOK /\ TrailIsPath
<1>1. TrailIsPath <=> \A a \in Approvals : Trail(a)
  BY DEF TrailIsPath, Trail
<1>2. TrailIsPath' <=> \A a \in Approvals : Trail(a)'
  BY DEF TrailIsPath, Trail
<1>3. Init => Inv
  <2> HAVE Init
  <2>1. RowsOK
    BY DEF Init, RowsOK, Status
  <2>2. ASSUME NEW a \in Approvals PROVE Trail(a)
    <3>1. status[a] = "NONE" /\ decisions[a] = <<>> /\ 2..Len(decisions[a]) = {}
      BY DEF Init
    <3> QED BY <3>1 DEF Trail
  <2> QED BY <1>1, <2>1, <2>2
<1>4. Inv /\ [Next]_vars => Inv'
  <2> SUFFICES ASSUME Inv, [Next]_vars PROVE Inv'
    OBVIOUS
  <2>1. RowsOK' /\ \A a \in Approvals : RowStep(a)
    BY NextRows
  <2> QED BY <1>1, <1>2, <2>1, TrailKept
<1>5. Inv => TrailIsPath
  OBVIOUS
<1> QED BY <1>3, <1>4, <1>5, PTL DEF Spec

-----------------------------------------------------------------------------
\* What the requests know

\* A request that is being served names an approval and a process; one that
\* executes holds its process's lock, and nobody else does; what it has done
\* to the outside world by each point is done.
Serving(h) ==
  pc[h] # "idle" => /\ req[h].approval \in Approvals
                    /\ req[h].process \in Processes
                    /\ status[req[h].approval] # "NONE"
Deciding(h) ==
  pc[h] = "deciding" => req[h].target \in {"APPROVED", "REJECTED", "CANCELLED"}
Wet(h) ==
  pc[h] \in {"locking", "executing", "committing"} => ~ dry[req[h].approval]
Holding(h) ==
  pc[h] \in {"executing", "committing"} => lock[req[h].process] = h
Fresh(h) ==
  pc[h] = "executing" => req[h].approval \notin known[req[h].process]
Applied(h) == pc[h] = "committing" => applied[req[h].approval] > 0
Undone(h) ==
  pc[h] \in {"compensated", "rolling back"} => undone[req[h].approval] > 0
Recorded(h) == pc[h] = "rolling back" => rollback[req[h].approval] # "none"
HandlerInv(h) ==
  /\ Serving(h) /\ Deciding(h) /\ Wet(h) /\ Holding(h) /\ Fresh(h)
  /\ Applied(h) /\ Undone(h) /\ Recorded(h)

\* What the row of an approval says of the outside world.
RowTrue(a) ==
  /\ status[a] \in {"EXECUTED", "ROLLED_BACK"} => applied[a] > 0
  /\ status[a] = "ROLLED_BACK" => undone[a] > 0 /\ rollback[a] # "none"
  /\ dry[a] => applied[a] = 0
  /\ status[a] = "NONE" => applied[a] = 0

WorldInv ==
  /\ TypeOK
  /\ \A h \in Handlers : HandlerInv(h)
  /\ \A a \in Approvals : RowTrue(a)

\* What transition_approval leaves: typed tables in which one row has moved
\* to a status that _TRANSITIONS allows.
LEMMA TransitionTables ==
  ASSUME TypeOK, NEW b \in Approvals, NEW read, NEW target,
         Transition(b, read, target)
  PROVE  /\ status' \in [Approvals -> Status]
         /\ decisions' \in [Approvals -> Seq([from: Status, to: ApprovalStatus])]
         /\ dry' = dry /\ due' = due /\ rollback' = rollback
         /\ status[b] = read
         /\ status'[b] = Effective(b, target)
         /\ Effective(b, target) \in Transitions(status[b])
         /\ \A a \in Approvals : a # b => status'[a] = status[a]
<1>1. RowsOK
  BY DEF RowsOK, TypeOK
<1>2. RowsOK'
  BY <1>1, TransitionRows
<1> QED BY <1>2 DEF TypeOK, RowsOK, Transition, Allowed, AsRead

\* The parts of TypeOK.
RowTypes ==
  /\ status \in [Approvals -> Status]
  /\ dry \in [Approvals -> BOOLEAN]
  /\ due \in [Approvals -> BOOLEAN]
  /\ decisions \in [Approvals -> Seq([from: Status, to: ApprovalStatus])]
  /\ rollback \in [Approvals -> {"none", "compensated", "failed"}]
CallTypes == applied \in [Approvals -> 0..MaxCalls] /\ undone \in [Approvals -> 0..MaxCalls]
ProcessTypes ==
  /\ known \in [Processes -> SUBSET Approvals]
  /\ lock \in [Processes -> Handlers \cup {NoHandler}]
Request == [approval: Approvals \cup {"none"}, target: Decision \cup {"none"},
            status: Status, process: Processes \cup {"none"}]
RequestTypes ==
  /\ pc \in [Handlers -> PC]
  /\ req \in [Handlers -> Request]
  /\ sweep \in [Handlers -> SUBSET Seen]

\* TypeOK is the conjunction of its parts, now and in the next state.
LEMMA TypeParts ==
  /\ TypeOK <=> RowTypes /\ CallTypes /\ ProcessTypes /\ RequestTypes
  /\ TypeOK' <=> RowTypes' /\ CallTypes' /\ ProcessTypes' /\ RequestTypes'
BY DEF TypeOK, RowTypes, CallTypes, ProcessTypes, RequestTypes, Request

\* A step of one request changes that request only; approvals do not
\* disappear, and what was done or recorded stays so.
Alone(h) == \A g \in Handlers : g # h => pc'[g] = pc[g] /\ req'[g] = req[g]
Grows ==
  \A a \in Approvals :
    /\ status[a] # "NONE" => status'[a] # "NONE" /\ dry'[a] = dry[a]
    /\ applied[a] > 0 => applied'[a] > 0
    /\ undone[a] > 0 => undone'[a] > 0
    /\ rollback[a] # "none" => rollback'[a] # "none"
LocksKept(g) ==
  /\ pc[g] \in {"executing", "committing"} => lock'[req[g].process] = g
  /\ pc[g] = "executing" => req[g].approval \notin known'[req[g].process]

\* The other requests notice nothing.
LEMMA OthersKept ==
  ASSUME NEW g \in Handlers, HandlerInv(g), pc'[g] = pc[g], req'[g] = req[g],
         Grows, LocksKept(g)
  PROVE  HandlerInv(g)'
<1>1. CASE pc[g] = "idle"
  BY <1>1 DEF HandlerInv, Serving, Deciding, Wet, Holding, Fresh, Applied, Undone, Recorded
<1>2. CASE pc[g] # "idle"
  <2>1. req[g].approval \in Approvals /\ status[req[g].approval] # "NONE"
    BY <1>2 DEF HandlerInv, Serving
  <2>2. Serving(g)' /\ Deciding(g)' /\ Wet(g)'
    BY <2>1 DEF HandlerInv, Serving, Deciding, Wet, Grows
  <2>3. Holding(g)' /\ Fresh(g)'
    BY DEF HandlerInv, Holding, Fresh, LocksKept
  <2>4. Applied(g)' /\ Undone(g)' /\ Recorded(g)'
    BY <2>1 DEF HandlerInv, Applied, Undone, Recorded, Grows
  <2> QED BY <2>2, <2>3, <2>4 DEF HandlerInv
<1> QED BY <1>1, <1>2

\* So a step of a request is good when it is good for that request and for
\* the approvals' rows.
LEMMA WorldFromStep ==
  ASSUME WorldInv, TypeOK', NEW h \in Handlers, Alone(h), Grows,
         \A g \in Handlers : g # h => LocksKept(g),
         HandlerInv(h)', \A a \in Approvals : RowTrue(a)'
  PROVE  WorldInv'
BY OthersKept DEF WorldInv, Alone

\* A request that has been answered.
LEMMA Answered ==
  ASSUME RequestTypes, NEW h \in Handlers, Finish(h), sweep' = sweep
  PROVE  Alone(h) /\ HandlerInv(h)' /\ RequestTypes'
<1>1. /\ pc' = [pc EXCEPT ![h] = "idle"]
      /\ req' = [req EXCEPT ![h] = NoRequest]
  BY DEF Finish
<1>2. NoRequest \in Request /\ "idle" \in PC
  BY DEF NoRequest, Request, Status, PC
<1>3. Alone(h) /\ pc'[h] = "idle"
  BY <1>1 DEF Alone, RequestTypes
<1>4. HandlerInv(h)'
  BY <1>3 DEF HandlerInv, Serving, Deciding, Wet, Holding, Fresh, Applied, Undone, Recorded
<1>5. RequestTypes'
  BY <1>1, <1>2 DEF RequestTypes
<1> QED BY <1>3, <1>4, <1>5

\* A request that goes on to another point of its handler.
LEMMA GoesOn ==
  ASSUME RequestTypes, NEW h \in Handlers, NEW to \in PC,
         pc' = [pc EXCEPT ![h] = to], req' = req, sweep' = sweep
  PROVE  Alone(h) /\ RequestTypes' /\ pc'[h] = to
BY DEF Alone, RequestTypes

\* Steps that write nothing but the request.
LEMMA NothingWritten ==
  ASSUME WorldInv, UNCHANGED <<tableVars, externalVars, known, lock>>
  PROVE  /\ RowTypes' /\ CallTypes' /\ ProcessTypes'
         /\ Grows
         /\ \A g \in Handlers : LocksKept(g)
         /\ \A a \in Approvals : RowTrue(a)'
<1>1. RowTypes' /\ CallTypes' /\ ProcessTypes'
  BY TypeParts DEF WorldInv, RowTypes, CallTypes, ProcessTypes, tableVars, externalVars
<1>2. Grows
  BY DEF Grows, tableVars, externalVars
<1>3. \A g \in Handlers : LocksKept(g)
  BY DEF WorldInv, HandlerInv, Holding, Fresh, LocksKept
<1>4. \A a \in Approvals : RowTrue(a)'
  BY DEF WorldInv, RowTrue, tableVars, externalVars
<1> QED BY <1>1, <1>2, <1>3, <1>4

-----------------------------------------------------------------------------
\* One lemma per group of actions

\* Reading and refusing: only the request itself changes.
LEMMA WorldRead ==
  ASSUME WorldInv, NEW h \in Handlers,
         DecideRefused(h) \/ ReadApproval(h) \/ ReadRollback(h)
  PROVE  WorldInv'
<1>1. RequestTypes /\ HandlerInv(h) /\ RowTypes
  BY TypeParts DEF WorldInv
<1>2. UNCHANGED <<tableVars, externalVars, known, lock, sweep>>
  BY DEF DecideRefused, ReadApproval, ReadRollback
<1>3. CASE Finish(h)
  BY <1>1, <1>2, <1>3, Answered, NothingWritten, TypeParts, WorldFromStep
<1>4. CASE ReadApproval(h) /\ ~ Finish(h)
  <2> DEFINE a == req[h].approval
             q == [approval |-> a, target |-> req[h].target,
                   status |-> status[a], process |-> req[h].process]
             to == IF req[h].target = "EXECUTED" THEN "locking"
                   ELSE IF req[h].target = "ROLLED_BACK" THEN "rollback"
                   ELSE "deciding"
  <2>1. /\ pc[h] = "sweeping"
        /\ req[h].target # "none"
        /\ req[h].target = "EXECUTED" => ~ dry[a]
        /\ req' = [req EXCEPT ![h] = q]
        /\ pc' = [pc EXCEPT ![h] = to]
    BY <1>4 DEF ReadApproval, Step
  <2>2. a \in Approvals /\ req[h].process \in Processes /\ status[a] # "NONE"
    BY <1>1, <2>1 DEF HandlerInv, Serving
  <2>3. req[h].target \in Decision /\ status[a] \in Status /\ to \in PC
    BY <1>1, <2>1, <2>2 DEF RequestTypes, Request, RowTypes, PC
  <2>4. q \in Request
    BY <2>2, <2>3 DEF Request
  <2> HIDE DEF q, to
  <2>5. Alone(h) /\ RequestTypes' /\ pc'[h] = to /\ req'[h] = q
    BY <1>1, <1>2, <2>1, <2>3, <2>4 DEF Alone, RequestTypes
  <2>6. /\ q.approval = a /\ q.process = req[h].process /\ q.target = req[h].target
        /\ to = "locking" => ~ dry[a]
        /\ to \in {"locking", "rollback", "deciding"}
        /\ to = "deciding" => q.target \in {"APPROVED", "REJECTED", "CANCELLED"}
    BY <2>1, <2>3 DEF q, to, Decision
  <2>7. dry' = dry /\ status' = status
    BY <1>2 DEF tableVars
  <2>8. HandlerInv(h)'
    BY <2>2, <2>5, <2>6, <2>7
    DEF HandlerInv, Serving, Deciding, Wet, Holding, Fresh, Applied, Undone, Recorded
  <2> QED BY <1>2, <2>5, <2>8, NothingWritten, TypeParts, WorldFromStep
<1>5. CASE ReadRollback(h) /\ ~ Finish(h)
  <2>1. /\ pc[h] = "rollback" /\ pc' = [pc EXCEPT ![h] = "compensating"]
        /\ req' = req
    BY <1>5 DEF ReadRollback, Step
  <2>2. Alone(h) /\ RequestTypes' /\ pc'[h] = "compensating"
    BY <1>1, <1>2, <2>1, GoesOn DEF PC
  <2>3. HandlerInv(h)'
    BY <1>1, <1>2, <2>1, <2>2
    DEF HandlerInv, Serving, Deciding, Wet, Holding, Fresh, Applied, Undone, Recorded,
        tableVars
  <2> QED BY <1>2, <2>2, <2>3, NothingWritten, TypeParts, WorldFromStep
<1> QED BY <1>3, <1>4, <1>5 DEF DecideRefused

\* executor.execute and executor.rollback are called; the outcome of a
\* rollback is recorded.
LEMMA WorldCompensate ==
  ASSUME WorldInv, NEW h \in Handlers, Compensate(h) \/ RecordRollback(h)
  PROVE  WorldInv'
<1>1. /\ RequestTypes /\ HandlerInv(h) /\ RowTypes /\ CallTypes /\ ProcessTypes
      /\ req[h].approval \in Approvals
  BY TypeParts DEF WorldInv, HandlerInv, Serving, Compensate, RecordRollback, Step
<1> DEFINE b == req[h].approval
<1>2. UNCHANGED <<status, dry, due, decisions, applied, known, lock, sweep>>
  BY DEF Compensate, RecordRollback, AddRollback, tableVars, externalVars
<1>3. ProcessTypes' /\ \A g \in Handlers : LocksKept(g)
  BY <1>1, <1>2 DEF ProcessTypes, WorldInv, HandlerInv, Holding, Fresh, LocksKept
<1>4. CASE Compensate(h)
  <2>1. \/ /\ undone' = [undone EXCEPT ![b] = Counted(@)]
           /\ pc' = [pc EXCEPT ![h] = "compensated"]
        \/ undone' = undone /\ pc' = [pc EXCEPT ![h] = "failed"]
    BY <1>4 DEF Compensate, Step, externalVars
  <2>2. pc[h] = "compensating" /\ req' = req /\ rollback' = rollback
    BY <1>4 DEF Compensate, Step, tableVars
  <2>3. Counted(undone[b]) \in 1..MaxCalls
    BY <1>1, SettingsAssumption DEF CallTypes, Counted
  <2>4. /\ undone' \in [Approvals -> 0..MaxCalls]
        /\ \A a \in Approvals : undone[a] > 0 => undone'[a] > 0
        /\ pc'[h] = "compensated" => undone'[b] > 0
    BY <1>1, <2>1, <2>3, SettingsAssumption DEF CallTypes, RequestTypes
  <2>5. RowTypes' /\ CallTypes' /\ Grows
    BY <1>1, <1>2, <2>2, <2>4 DEF RowTypes, CallTypes, Grows
  <2>6. Alone(h) /\ RequestTypes' /\ pc'[h] \in {"compensated", "failed"}
    BY <1>1, <1>2, <2>1, <2>2 DEF Alone, RequestTypes, PC
  <2>7. HandlerInv(h)'
    BY <1>1, <1>2, <2>2, <2>4, <2>6
    DEF HandlerInv, Serving, Deciding, Wet, Holding, Fresh, Applied, Undone, Recorded
  <2>8. \A a \in Approvals : RowTrue(a)'
    BY <1>2, <2>2, <2>4 DEF WorldInv, RowTrue
  <2> QED BY <1>3, <2>5, <2>6, <2>7, <2>8, TypeParts, WorldFromStep
<1>5. CASE RecordRollback(h)
  <2>1. /\ pc[h] \in {"compensated", "failed"} /\ undone' = undone
        /\ rollback' = [rollback EXCEPT ![b] = IF @ = "none" THEN pc[h] ELSE @]
    BY <1>5 DEF RecordRollback, AddRollback, externalVars
  <2>2. /\ rollback' \in [Approvals -> {"none", "compensated", "failed"}]
        /\ rollback'[b] # "none"
        /\ \A a \in Approvals : rollback[a] # "none" => rollback'[a] # "none"
    BY <1>1, <2>1 DEF RowTypes
  <2>3. RowTypes' /\ CallTypes' /\ Grows
    BY <1>1, <1>2, <2>1, <2>2 DEF RowTypes, CallTypes, Grows
  <2>4. \A a \in Approvals : RowTrue(a)'
    BY <1>2, <2>1, <2>2 DEF WorldInv, RowTrue
  <2>5. CASE Finish(h)
    BY <1>1, <1>2, <1>3, <2>3, <2>4, <2>5, Answered, TypeParts, WorldFromStep
  <2>6. CASE ~ Finish(h)
    <3>1. /\ pc[h] = "compensated" /\ pc' = [pc EXCEPT ![h] = "rolling back"]
          /\ req' = req
      BY <1>5, <2>6 DEF RecordRollback
    <3>2. Alone(h) /\ RequestTypes' /\ pc'[h] = "rolling back"
      BY <1>1, <1>2, <3>1, GoesOn DEF PC
    <3>3. HandlerInv(h)'
      BY <1>1, <1>2, <2>1, <2>2, <3>1, <3>2
      DEF HandlerInv, Serving, Deciding, Wet, Holding, Fresh, Applied, Undone, Recorded
    <3> QED BY <1>3, <2>3, <2>4, <3>2, <3>3, TypeParts, WorldFromStep
  <2> QED BY <2>5, <2>6
<1> QED BY <1>4, <1>5

\* transition_approval keeps the rows true when the caller has done what the
\* new status says.
LEMMA TransitionTrue ==
  ASSUME WorldInv, NEW b \in Approvals, NEW read, NEW target,
         Transition(b, read, target), UNCHANGED externalVars,
         Effective(b, target) = "EXECUTED" => applied[b] > 0,
         Effective(b, target) = "ROLLED_BACK" => undone[b] > 0 /\ rollback[b] # "none"
  PROVE  RowTypes' /\ CallTypes' /\ Grows /\ \A a \in Approvals : RowTrue(a)'
<1> DEFINE to == Effective(b, target)
<1>1. TypeOK /\ RowTypes /\ CallTypes
  BY TypeParts DEF WorldInv
<1>2. /\ status' \in [Approvals -> Status]
      /\ decisions' \in [Approvals -> Seq([from: Status, to: ApprovalStatus])]
      /\ dry' = dry /\ due' = due /\ rollback' = rollback
      /\ status'[b] = to /\ to \in Transitions(status[b])
      /\ \A a \in Approvals : a # b => status'[a] = status[a]
  BY <1>1, TransitionTables
<1>3. applied' = applied /\ undone' = undone
  BY DEF externalVars
<1> HIDE DEF to
<1>4. to # "NONE" /\ status[b] # "NONE" /\ (to = "ROLLED_BACK" => status[b] = "EXECUTED")
  BY <1>2 DEF Transitions
<1>5. RowTypes' /\ CallTypes'
  BY <1>1, <1>2, <1>3 DEF RowTypes, CallTypes
<1>6. Grows
  BY <1>2, <1>3, <1>4 DEF Grows
<1>7. ASSUME NEW a \in Approvals PROVE RowTrue(a)'
  <2>1. RowTrue(a)
    BY DEF WorldInv
  <2>2. CASE a = b
    BY <1>2, <1>3, <1>4, <2>1, <2>2 DEF RowTrue, to
  <2>3. CASE a # b
    BY <1>2, <1>3, <2>1, <2>3 DEF RowTrue
  <2> QED BY <2>2, <2>3
<1> QED BY <1>5, <1>6, <1>7

\* Decisions, sweeps and the end of a rollback.
LEMMA WorldDecide ==
  ASSUME WorldInv, NEW h \in Handlers,
         Decide(h) \/ SweepOne(h) \/ CommitRollback(h)
  PROVE  WorldInv'
<1>1. RequestTypes /\ HandlerInv(h) /\ ProcessTypes
  BY TypeParts DEF WorldInv
<1>2. UNCHANGED <<externalVars, known, lock>>
  BY DEF Decide, SweepOne, CommitRollback
<1>3. ProcessTypes' /\ \A g \in Handlers : LocksKept(g)
  BY <1>1, <1>2 DEF ProcessTypes, WorldInv, HandlerInv, Holding, Fresh, LocksKept
<1>4. CASE Decide(h)
  <2>1. req[h].approval \in Approvals
        /\ req[h].target \in {"APPROVED", "REJECTED", "CANCELLED"}
    BY <1>1, <1>4 DEF HandlerInv, Serving, Deciding, Decide
  <2>2. Effective(req[h].approval, req[h].target) \notin {"EXECUTED", "ROLLED_BACK"}
    BY <2>1 DEF Effective
  <2>3. Transition(req[h].approval, req[h].status, req[h].target) /\ Finish(h) /\ sweep' = sweep
    BY <1>4 DEF Decide
  <2> QED BY <1>1, <1>2, <1>3, <2>1, <2>2, <2>3, TransitionTrue, Answered, TypeParts,
             WorldFromStep
<1>5. CASE SweepOne(h)
  <2> PICK x \in sweep[h] :
        /\ \/ Transition(x.approval, x.status, "EXPIRED")
           \/ UNCHANGED tableVars
        /\ sweep' = [sweep EXCEPT ![h] = @ \ {x}]
    BY <1>5 DEF SweepOne
  <2>1. x.approval \in Approvals
    BY <1>1 DEF RequestTypes, Seen
  <2>2. RowTypes' /\ CallTypes' /\ Grows /\ \A a \in Approvals : RowTrue(a)'
    <3>1. CASE Transition(x.approval, x.status, "EXPIRED")
      BY <1>2, <2>1, <3>1, TransitionTrue DEF Effective
    <3>2. CASE UNCHANGED tableVars
      BY <1>2, <3>2, NothingWritten
    <3> QED BY <3>1, <3>2
  <2>3. pc' = pc /\ req' = req /\ pc[h] = "sweeping"
    BY <1>5 DEF SweepOne
  <2>4. Alone(h) /\ RequestTypes'
    BY <1>1, <2>3 DEF Alone, RequestTypes
  <2>5. HandlerInv(h)'
    BY <1>1, <1>3, <2>2, <2>3, OthersKept
  <2> QED BY <1>3, <2>2, <2>4, <2>5, TypeParts, WorldFromStep
<1>6. CASE CommitRollback(h)
  <2> DEFINE b == req[h].approval
  <2>1. b \in Approvals /\ undone[b] > 0 /\ rollback[b] # "none"
    BY <1>1, <1>6 DEF HandlerInv, Serving, Undone, Recorded, CommitRollback
  <2>2. Effective(b, "ROLLED_BACK") # "EXECUTED"
    BY DEF Effective
  <2>3. RowTypes' /\ CallTypes' /\ Grows /\ \A a \in Approvals : RowTrue(a)'
    <3>1. CASE Transition(b, req[h].status, "ROLLED_BACK")
      BY <1>2, <2>1, <2>2, <3>1, TransitionTrue
    <3>2. CASE UNCHANGED tableVars
      BY <1>2, <3>2, NothingWritten
    <3> QED BY <1>6, <3>1, <3>2 DEF CommitRollback
  <2>4. Finish(h) /\ sweep' = sweep
    BY <1>6 DEF CommitRollback
  <2> QED BY <1>1, <1>3, <2>3, <2>4, Answered, TypeParts, WorldFromStep
<1> QED BY <1>4, <1>5, <1>6

\* Execution under the lock.
LEMMA WorldExecute ==
  ASSUME WorldInv, NEW h \in Handlers,
         AcquireLock(h) \/ CallExecutor(h) \/ CommitExecution(h)
  PROVE  WorldInv'
<1> DEFINE b == req[h].approval
           p == req[h].process
<1>1. RequestTypes /\ HandlerInv(h) /\ ProcessTypes /\ RowTypes /\ CallTypes
  BY TypeParts DEF WorldInv
<1>2. b \in Approvals /\ p \in Processes /\ status[b] # "NONE" /\ ~ dry[b]
  BY <1>1 DEF HandlerInv, Serving, Wet, AcquireLock, CallExecutor, CommitExecution, Step
<1>3. sweep' = sweep
  BY DEF AcquireLock, CallExecutor, CommitExecution
<1>4. \A g \in Handlers : pc[g] \in {"executing", "committing"} =>
        lock[req[g].process] = g /\ req[g].process \in Processes
  BY DEF WorldInv, HandlerInv, Serving, Holding
<1>5. \A g \in Handlers : pc[g] = "executing" =>
        req[g].approval \notin known[req[g].process]
  BY DEF WorldInv, HandlerInv, Fresh
<1>6. CASE AcquireLock(h)
  <2>1. UNCHANGED <<tableVars, externalVars, known>> /\ lock[p] = NoHandler
        /\ pc[h] = "locking"
    BY <1>6 DEF AcquireLock
  <2>2. CASE b \in known[p]
    BY <1>1, <1>3, <1>6, <2>1, <2>2, Answered, NothingWritten, TypeParts, WorldFromStep
    DEF AcquireLock
  <2>3. CASE b \notin known[p]
    <3>1. /\ pc' = [pc EXCEPT ![h] = "executing"] /\ req' = req
          /\ lock' = [lock EXCEPT ![p] = h]
      BY <1>6, <2>3 DEF AcquireLock, Step
    <3>2. RowTypes' /\ CallTypes' /\ ProcessTypes'
      BY <1>1, <2>1, <3>1 DEF RowTypes, CallTypes, ProcessTypes, tableVars, externalVars
    <3>3. Grows /\ \A a \in Approvals : RowTrue(a)'
      BY <2>1 DEF Grows, WorldInv, RowTrue, tableVars, externalVars
    <3>4. ASSUME NEW g \in Handlers, g # h PROVE LocksKept(g)
      BY <1>1, <1>2, <1>4, <1>5, <2>1, <3>1, <3>4, HandlersAssumption
      DEF LocksKept, ProcessTypes
    <3>5. Alone(h) /\ RequestTypes' /\ pc'[h] = "executing"
      BY <1>1, <1>3, <3>1, GoesOn DEF PC
    <3>6. lock'[p] = h /\ known' = known /\ status' = status /\ dry' = dry
      BY <1>1, <1>2, <2>1, <3>1 DEF ProcessTypes, tableVars
    <3>7. HandlerInv(h)'
      BY <1>2, <2>3, <3>1, <3>5, <3>6
      DEF HandlerInv, Serving, Deciding, Wet, Holding, Fresh, Applied, Undone, Recorded
    <3> QED BY <3>2, <3>3, <3>4, <3>5, <3>7, TypeParts, WorldFromStep
  <2> QED BY <2>2, <2>3
<1>7. CASE CallExecutor(h) /\ pc'[h] = "committing"
  <2>1. /\ pc' = [pc EXCEPT ![h] = "committing"] /\ req' = req
        /\ applied' = [applied EXCEPT ![b] = Counted(@)]
        /\ undone' = undone /\ pc[h] = "executing"
        /\ UNCHANGED <<tableVars, known, lock>>
    BY <1>1, <1>7 DEF CallExecutor, Step, Finish, RequestTypes
  <2>2. Counted(applied[b]) \in 1..MaxCalls
    BY <1>1, <1>2, SettingsAssumption DEF CallTypes, Counted
  <2>3. /\ applied' \in [Approvals -> 0..MaxCalls] /\ applied'[b] > 0
        /\ \A a \in Approvals : applied[a] > 0 => applied'[a] > 0
        /\ \A a \in Approvals : a # b => applied'[a] = applied[a]
    BY <1>1, <1>2, <2>1, <2>2, SettingsAssumption DEF CallTypes
  <2>4. RowTypes' /\ CallTypes' /\ ProcessTypes' /\ Grows
    BY <1>1, <2>1, <2>3 DEF RowTypes, CallTypes, ProcessTypes, Grows, tableVars
  <2>5. \A g \in Handlers : LocksKept(g)
    BY <1>4, <1>5, <2>1 DEF LocksKept
  <2>6. \A a \in Approvals : RowTrue(a)'
    BY <1>2, <2>1, <2>3 DEF WorldInv, RowTrue, tableVars
  <2>7. Alone(h) /\ RequestTypes'
    BY <1>1, <1>3, <2>1, GoesOn DEF PC
  <2>8. HandlerInv(h)'
    BY <1>2, <1>4, <1>7, <2>1, <2>3
    DEF HandlerInv, Serving, Deciding, Wet, Holding, Fresh, Applied, Undone, Recorded,
        tableVars
  <2> QED BY <2>4, <2>5, <2>6, <2>7, <2>8, TypeParts, WorldFromStep
<1>8. CASE \/ CallExecutor(h) /\ pc'[h] # "committing"
           \/ CommitExecution(h)
  <2>1. /\ Finish(h) /\ lock' = [lock EXCEPT ![p] = NoHandler]
        /\ UNCHANGED externalVars /\ pc[h] \in {"executing", "committing"}
    BY <1>1, <1>8 DEF CallExecutor, CommitExecution, Step, Release, RequestTypes
  <2>2. /\ known' \in [Processes -> SUBSET Approvals]
        /\ \A q \in Processes : q # p => known'[q] = known[q]
    BY <1>1, <1>2, <1>8 DEF CallExecutor, CommitExecution, ProcessTypes
  <2>3. ProcessTypes'
    BY <1>1, <2>1, <2>2 DEF ProcessTypes
  <2>4. ASSUME NEW g \in Handlers, g # h PROVE LocksKept(g)
    <3>1. pc[g] \in {"executing", "committing"} => req[g].process # p
      BY <1>4, <2>1, <2>4
    <3> QED BY <1>1, <1>4, <1>5, <2>1, <2>2, <3>1 DEF LocksKept, ProcessTypes
  <2>5. RowTypes' /\ CallTypes' /\ Grows /\ \A a \in Approvals : RowTrue(a)'
    <3>1. CASE CommitExecution(h) /\ Transition(b, req[h].status, "EXECUTED")
      <4>1. applied[b] > 0 /\ Effective(b, "EXECUTED") # "ROLLED_BACK"
        BY <1>1, <3>1 DEF HandlerInv, Applied, CommitExecution, Effective
      <4> QED BY <1>2, <2>1, <3>1, <4>1, TransitionTrue
    <3>2. CASE UNCHANGED tableVars
      <4>1. RowTypes' /\ CallTypes'
        BY <1>1, <2>1, <3>2 DEF RowTypes, CallTypes, tableVars, externalVars
      <4> QED BY <2>1, <3>2, <4>1 DEF Grows, WorldInv, RowTrue, tableVars, externalVars
    <3> QED BY <1>8, <3>1, <3>2 DEF CallExecutor, CommitExecution, Step
  <2> QED BY <1>1, <1>3, <2>1, <2>3, <2>4, <2>5, Answered, TypeParts, WorldFromStep
<1> QED BY <1>6, <1>7, <1>8

\* What requests do not do: creation, the clock, new requests, crashes.
LEMMA WorldTables ==
  ASSUME WorldInv, NEW b \in Approvals,
         Expire(b) \/ \E preview \in BOOLEAN : Create(b, preview)
  PROVE  WorldInv'
<1>1. RowTypes /\ CallTypes /\ ProcessTypes /\ RequestTypes
  BY TypeParts DEF WorldInv
<1>2. UNCHANGED <<rollback, applied, undone, known, lock, pc, req, sweep>>
  BY DEF Expire, Create, externalVars, handlerVars
<1>3. \A g \in Handlers : LocksKept(g)
  BY <1>2 DEF WorldInv, HandlerInv, Holding, Fresh, LocksKept
<1>4. RowTypes' /\ Grows /\ \A a \in Approvals : RowTrue(a)'
  <2>1. CASE Expire(b)
    <3>1. /\ due' = [due EXCEPT ![b] = TRUE]
          /\ UNCHANGED <<status, dry, decisions>>
      BY <2>1 DEF Expire
    <3>2. RowTypes'
      BY <1>1, <1>2, <3>1 DEF RowTypes
    <3> QED BY <1>2, <3>1, <3>2 DEF Grows, WorldInv, RowTrue
  <2>2. ASSUME NEW preview \in BOOLEAN, Create(b, preview)
        PROVE  RowTypes' /\ Grows /\ \A a \in Approvals : RowTrue(a)'
    <3> DEFINE first == <<[from |-> "NONE", to |-> "REQUESTED"]>>
    <3>1. /\ status[b] = "NONE"
          /\ status' = [status EXCEPT ![b] = "REQUESTED"]
          /\ dry' = [dry EXCEPT ![b] = preview]
          /\ decisions' = [decisions EXCEPT ![b] = first]
          /\ due' = due
      BY <2>2 DEF Create
    <3>2. first \in Seq([from: Status, to: ApprovalStatus])
      BY DEF Status, ApprovalStatus
    <3> HIDE DEF first
    <3>3. status' \in [Approvals -> Status]
      BY <1>1, <3>1 DEF RowTypes, Status, ApprovalStatus
    <3>4. RowTypes'
      BY <1>1, <1>2, <3>1, <3>2, <3>3 DEF RowTypes
    <3>5. Grows
      BY <1>1, <1>2, <3>1 DEF Grows, RowTypes
    <3>6. applied[b] = 0
      BY <3>1 DEF WorldInv, RowTrue
    <3>7. \A a \in Approvals : RowTrue(a)'
      BY <1>1, <1>2, <3>1, <3>6 DEF WorldInv, RowTrue, RowTypes
    <3> QED BY <3>4, <3>5, <3>7
  <2> QED BY <2>1, <2>2
<1>5. CallTypes' /\ ProcessTypes' /\ RequestTypes'
  BY <1>1, <1>2 DEF CallTypes, ProcessTypes, RequestTypes
<1>6. \A g \in Handlers : HandlerInv(g)'
  BY <1>2, <1>3, <1>4, OthersKept DEF WorldInv
<1> QED BY <1>4, <1>5, <1>6, TypeParts DEF WorldInv

LEMMA WorldBegin ==
  ASSUME WorldInv, NEW h \in Handlers, NEW p \in Processes, NEW b \in Approvals,
         NEW target \in Decision \cup {"none"}, BeginRequest(h, p, b, target)
  PROVE  WorldInv'
<1> DEFINE q == [approval |-> b, target |-> target, status |-> "NONE", process |-> p]
           listed == {s \in Seen : /\ status[s.approval] = s.status
                                   /\ s.status \in {"REQUESTED", "APPROVED"}
                                   /\ due[s.approval]}
<1>1. RequestTypes
  BY TypeParts DEF WorldInv
<1>2. /\ status[b] # "NONE"
      /\ pc' = [pc EXCEPT ![h] = "sweeping"]
      /\ req' = [req EXCEPT ![h] = q]
      /\ sweep' = [sweep EXCEPT ![h] = listed]
      /\ UNCHANGED <<tableVars, externalVars, known, lock>>
  BY DEF BeginRequest, Step
<1>3. q \in Request /\ q.approval = b /\ q.process = p
  BY DEF Request, Status
<1>4. listed \in SUBSET Seen
  OBVIOUS
<1> HIDE DEF q, listed
<1>5. Alone(h) /\ RequestTypes' /\ pc'[h] = "sweeping" /\ req'[h] = q
  BY <1>1, <1>2, <1>3, <1>4 DEF Alone, RequestTypes, PC
<1>6. status' = status
  BY <1>2 DEF tableVars
<1>7. HandlerInv(h)'
  BY <1>2, <1>3, <1>5, <1>6
  DEF HandlerInv, Serving, Deciding, Wet, Holding, Fresh, Applied, Undone, Recorded
<1> QED BY <1>2, <1>5, <1>7, NothingWritten, TypeParts, WorldFromStep

LEMMA WorldCrash ==
  ASSUME WorldInv, NEW p \in Processes, Crash(p)
  PROVE  WorldInv'
<1>1. RowTypes /\ CallTypes /\ ProcessTypes /\ RequestTypes
  BY TypeParts DEF WorldInv
<1>2. /\ pc' = [h \in Handlers |-> IF req[h].process = p THEN "idle" ELSE pc[h]]
      /\ req' = [h \in Handlers |-> IF req[h].process = p THEN NoRequest ELSE req[h]]
      /\ sweep' = [h \in Handlers |-> IF req[h].process = p THEN {} ELSE sweep[h]]
      /\ known' = [known EXCEPT ![p] = {}]
      /\ lock' = [lock EXCEPT ![p] = NoHandler]
      /\ UNCHANGED <<tableVars, externalVars>>
  BY DEF Crash
<1>3. RowTypes' /\ CallTypes' /\ Grows /\ \A a \in Approvals : RowTrue(a)'
  <2>1. RowTypes' /\ CallTypes'
    BY <1>1, <1>2 DEF RowTypes, CallTypes, tableVars, externalVars
  <2> QED BY <1>2, <2>1 DEF Grows, WorldInv, RowTrue, tableVars, externalVars
<1>4. ProcessTypes'
  BY <1>1, <1>2 DEF ProcessTypes
<1>5. RequestTypes'
  <2>1. NoRequest \in Request /\ "idle" \in PC
    BY DEF NoRequest, Request, Status, PC
  <2> QED BY <1>1, <1>2, <2>1 DEF RequestTypes
<1>6. ASSUME NEW g \in Handlers PROVE HandlerInv(g)'
  <2>1. CASE req[g].process = p
    <3>1. pc'[g] = "idle"
      BY <1>2, <2>1
    <3> QED BY <3>1
        DEF HandlerInv, Serving, Deciding, Wet, Holding, Fresh, Applied, Undone, Recorded
  <2>2. CASE req[g].process # p
    <3>1. pc'[g] = pc[g] /\ req'[g] = req[g] /\ HandlerInv(g)
      BY <1>2, <2>2 DEF WorldInv
    <3>2. LocksKept(g)
      BY <1>1, <1>2, <2>2, <3>1
      DEF LocksKept, HandlerInv, Serving, Holding, Fresh, ProcessTypes
    <3> QED BY <1>3, <3>1, <3>2, OthersKept
  <2> QED BY <2>1, <2>2
<1> QED BY <1>3, <1>4, <1>5, <1>6, TypeParts DEF WorldInv

LEMMA WorldInit == Init => WorldInv
<1> SUFFICES ASSUME Init PROVE WorldInv
  OBVIOUS
<1>1. RowTypes
  BY DEF Init, RowTypes, Status
<1>2. CallTypes /\ ProcessTypes
  BY SettingsAssumption DEF Init, CallTypes, ProcessTypes
<1>3. RequestTypes
  BY DEF Init, RequestTypes, NoRequest, Request, Status, PC
<1>4. \A h \in Handlers : HandlerInv(h)
  BY DEF Init, HandlerInv, Serving, Deciding, Wet, Holding, Fresh, Applied, Undone, Recorded
<1>5. \A a \in Approvals : RowTrue(a)
  BY DEF Init, RowTrue
<1> QED BY <1>1, <1>2, <1>3, <1>4, <1>5, TypeParts DEF WorldInv

LEMMA WorldNext == WorldInv /\ [Next]_vars => WorldInv'
<1> SUFFICES ASSUME WorldInv, [Next]_vars PROVE WorldInv'
  OBVIOUS
<1>1. CASE \E a \in Approvals : Expire(a) \/ \E preview \in BOOLEAN : Create(a, preview)
  BY <1>1, WorldTables
<1>2. CASE \E h \in Handlers, p \in Processes, a \in Approvals,
             target \in Decision \cup {"none"} : BeginRequest(h, p, a, target)
  BY <1>2, WorldBegin
<1>3. ASSUME NEW h \in Handlers, HandlerStep(h) PROVE WorldInv'
  BY <1>3, WorldRead, WorldCompensate, WorldDecide, WorldExecute DEF HandlerStep
<1>4. CASE \E p \in Processes : Crash(p)
  BY <1>4, WorldCrash
<1>5. CASE UNCHANGED vars
  <2>1. UNCHANGED <<tableVars, externalVars, known, lock, pc, req, sweep>>
    BY <1>5 DEF vars, handlerVars
  <2>2. RequestTypes'
    BY <2>1, TypeParts DEF WorldInv, RequestTypes
  <2>3. \A g \in Handlers : HandlerInv(g)'
    BY <2>1, NothingWritten, OthersKept DEF WorldInv
  <2> QED BY <2>1, <2>2, <2>3, NothingWritten, TypeParts DEF WorldInv
<1> QED BY <1>1, <1>2, <1>3, <1>4, <1>5 DEF Next

LEMMA WorldAlways == Spec => []WorldInv
BY WorldInit, WorldNext, PTL DEF Spec

-----------------------------------------------------------------------------
\* What follows

\* The tables, the processes' memory and the requests stay within their types.
THEOREM ApprovalTypes == Spec => []TypeOK
<1>1. WorldInv => TypeOK
  BY DEF WorldInv
<1> QED BY <1>1, WorldAlways, PTL

\* EXECUTED and ROLLED_BACK are never said of an action that did not take
\* effect: transition_approval comes after executor.execute, in the request
\* that holds the lock, and nothing else leads to EXECUTED.
THEOREM ExecutedIsApplied == Spec => []ExecutedWasApplied
<1>1. WorldInv => ExecutedWasApplied
  BY DEF WorldInv, RowTrue, ExecutedWasApplied
<1> QED BY <1>1, WorldAlways, PTL

\* ROLLED_BACK is never said of an action whose compensation failed, was not
\* tried or was not recorded.
THEOREM RolledBackIsUndone == Spec => []RolledBackWasUndone
<1>1. WorldInv => RolledBackWasUndone
  BY DEF WorldInv, RowTrue, RolledBackWasUndone
<1> QED BY <1>1, WorldAlways, PTL

\* No request, whatever it has read and whenever, reaches the executor with a
\* dry-run approval.
THEOREM DryRunIsDry == Spec => []DryRunNotApplied
<1>1. WorldInv => DryRunNotApplied
  BY DEF WorldInv, RowTrue, DryRunNotApplied
<1> QED BY <1>1, WorldAlways, PTL

\* The lock and the second look at _outcomes keep a process from calling the
\* executor for an approval that it has executed.
THEOREM ActionNotRepeated == Spec => []NotRepeated
<1>1. WorldInv => NotRepeated
  BY DEF WorldInv, HandlerInv, Fresh, NotRepeated
<1> QED BY <1>1, WorldAlways, PTL

\* What the row of an approval says of the outside world holds, for any number
\* of requests, processes and crashes.
THEOREM ApprovalsTellTheTruth == Spec => []ApprovalsInv
<1>1. TypeOK /\ TrailIsPath /\ ExecutedWasApplied /\ RolledBackWasUndone /\ DryRunNotApplied /\ NotRepeated
        => ApprovalsInv
  BY DEF ApprovalsInv
<1> QED
  BY <1>1, ApprovalTypes, TrailsArePaths, ExecutedIsApplied, RolledBackIsUndone, DryRunIsDry, ActionNotRepeated, PTL
=============================================================================
