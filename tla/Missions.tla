------------------------------ MODULE Missions ------------------------------
(***************************************************************************)
(* Asynchronous missions: submission, the background job that executes a   *)
(* mission, and the cooperative cancel that races it                       *)
(* (api/async_missions.py, cancellation.py, the mission endpoints of       *)
(* main.py and the mission half of the run executor).                      *)
(*                                                                         *)
(* Jobs and cancel requests are processes; every access to the store or to *)
(* a shared flag is a step of its own, because the workers and the API are  *)
(* different processes.  The agent is one step that returns an outcome or  *)
(* raises.                                                                 *)
(***************************************************************************)
EXTENDS MissionStore

CONSTANTS
  Jobs,        \* deliveries of missions to workers that may be under way at once
  Clients,     \* cancel requests
  Outcomes,    \* what an agent may end with: completed, partial or failed
  MaxStarts,   \* how often a mission is delivered: max_attempts of its run
  MaxCrashes   \* bound: how often a process dies

ASSUME MissionBounds ==
  /\ MaxStarts \in Nat \ {0} /\ MaxCrashes \in Nat
  /\ IsFiniteSet(Jobs) /\ Jobs \cap Clients = {} /\ "none" \notin Missions
  /\ Outcomes \subseteq {"completed", "partial", "failed"}

VARIABLES
  thread,     \* missions submitted as a message of a thread, not through the mission API
  back,       \* [mission -> the put of submit_message that follows the commit]
  redis,      \* is the cancellation backend shared (RedisCancellationBackend)?
  local,      \* [node -> missions]: the flags in a process's memory
  shared,     \* missions whose flag is set in Redis
  queued,     \* missions whose run, attempt and outbox row are committed
  threadCancel, \* missions whose run was cancelled through its thread
  starts,     \* [mission -> deliveries so far, those that were killed included]
  ended,      \* missions one of whose deliveries has run to its end
  crashes,
  proc        \* [process -> where it is and what it holds]

flagVars == <<local, shared>>
fixed == <<thread, redis>>
missionVars == <<row, table, thread, back, redis, local, shared, queued, threadCancel,
                 starts, ended, crashes, proc>>

Processes == Jobs \cup Clients
Nodes == {"api", "worker"}
Node(p) == IF p \in Jobs THEN "worker" ELSE "api"
Idle == [pc |-> "idle", m |-> "none", ret |-> "none", raw |-> NoRow, got |-> "none"]

MissionsInit ==
  /\ StoreInit
  /\ redis \in BOOLEAN /\ thread \in SUBSET Missions
  /\ back = [m \in Missions |-> "none"]
  /\ local = [n \in Nodes |-> {}] /\ shared = {}
  /\ queued = {} /\ threadCancel = {}
  /\ starts = [m \in Missions |-> 0] /\ ended = {} /\ crashes = 0
  /\ proc = [p \in Processes |-> Idle]

-----------------------------------------------------------------------------
(* Cancellation flags                                                      *)

request_cancel(p, m) ==
  /\ local' = [local EXCEPT ![Node(p)] = @ \cup {m}]
  /\ shared' = IF redis THEN shared \cup {m} ELSE shared

clear_cancel_Local(p, m) ==
  /\ local' = [local EXCEPT ![Node(p)] = @ \ {m}]
  /\ UNCHANGED shared

clear_cancel(p, m) ==
  /\ local' = [local EXCEPT ![Node(p)] = @ \ {m}]
  /\ shared' = IF redis THEN shared \ {m} ELSE shared

is_cancel_requested(p, m) ==
  \/ m \in local[Node(p)]
  \/ redis /\ m \in shared
  \/ get_raw(m).raw = "cancelled"
  \/ get(m) = "cancelled"

-----------------------------------------------------------------------------
(* Submission                                                              *)

\* What a process read is forgotten once it was used.
Goto(p, pc) == proc' = [proc EXCEPT ![p].pc = pc, ![p].raw = NoRow, ![p].got = "none"]

\* The placeholder is written before the run, which refers to it.
Placeholder == [NoRow EXCEPT !.raw = "running", !.async = TRUE,
                             !.events = <<Event("accepted", 1)>>]

seed_running_mission(m) ==
  /\ row[m].result = "none"
  /\ Put(m, "running", Placeholder)
  /\ UNCHANGED <<fixed, back, flagVars, queued, threadCancel, starts, ended, crashes, proc>>

\* The transaction that commits thread, run, attempt, messages and outbox row.
\* publish_durable_mission only hurries what the outbox delivers anyway.
enqueue_durable_mission(m) ==
  /\ get(m) # "none" /\ m \notin queued
  /\ queued' = queued \cup {m}
  /\ back' = [back EXCEPT ![m] = IF m \in thread THEN "todo" ELSE "done"]
  /\ UNCHANGED <<storeVars, fixed, flagVars, threadCancel, starts, ended, crashes, proc>>

\* submit_message then adds its context to the placeholder it has in hand: it
\* reads the present result and puts it back with that placeholder.
PutBackGet(m) ==
  /\ back[m] = "todo"
  /\ back' = [back EXCEPT ![m] = get(m)]
  /\ UNCHANGED <<storeVars, fixed, flagVars, queued, threadCancel, starts, ended, crashes, proc>>

PutBackPut(m) ==
  /\ back[m] \in Statuses
  /\ Put(m, back[m], Placeholder)
  /\ back' = [back EXCEPT ![m] = "done"]
  /\ UNCHANGED <<fixed, flagVars, queued, threadCancel, starts, ended, crashes, proc>>

-----------------------------------------------------------------------------
(* run_mission_job                                                         *)

\* A delivery of the run; a mission already asked to stop is skipped.
JobStart(j, m) ==
  /\ proc[j].pc = "idle"
  /\ m \in queued /\ m \notin threadCancel /\ starts[m] < MaxStarts
  /\ starts' = [starts EXCEPT ![m] = @ + 1]
  /\ proc' = [proc EXCEPT ![j] = [Idle EXCEPT !.m = m,
                !.pc = IF is_cancel_requested(j, m) THEN "context" ELSE "agent"]]
  /\ UNCHANGED <<storeVars, fixed, back, flagVars, queued, threadCancel, ended, crashes>>

\* The events of a finished V3 mission, with or without gathered evidence.
v3_events(status, wave) ==
  <<Event("created", 1)>>
    \o (IF wave THEN <<Event("wave", 2)>> ELSE <<>>)
    \o <<Event(status, IF wave THEN 3 ELSE 2)>>

\* run_v3_mission returns: whatever happened to the agent, its outcome is put.
AgentReturns(j) ==
  /\ proc[j].pc = "agent"
  /\ \E status \in Outcomes, wave \in BOOLEAN :
       Put(proc[j].m, status,
           [NoRow EXCEPT !.raw = status, !.events = v3_events(status, wave)])
  /\ Goto(j, "check")
  /\ UNCHANGED <<fixed, back, flagVars, queued, threadCancel, starts, ended, crashes>>

AgentRaises_Swallowed(j) ==
  /\ proc[j].pc = "agent"
  /\ Goto(j, "context")
  /\ UNCHANGED <<storeVars, fixed, back, flagVars, queued, threadCancel, starts, ended, crashes>>

\* asyncio.timeout fires or run_v3_mission raises: nothing was put.
AgentRaises(j) ==
  /\ proc[j].pc = "agent"
  /\ Goto(j, "except")
  /\ UNCHANGED <<storeVars, fixed, back, flagVars, queued, threadCancel, starts, ended, crashes>>

\* The heartbeat lost the lease, or the worker is told to stop: the execution is
\* cancelled at the job's one await.  No except of the job is for CancelledError,
\* so the delivery ends without having put anything.
JobCancelled(j) ==
  /\ proc[j].pc = "agent"
  /\ proc' = [proc EXCEPT ![j] = Idle]
  /\ UNCHANGED <<storeVars, fixed, back, flagVars, queued, threadCancel, starts, ended, crashes>>

JobCheck(j) ==
  /\ proc[j].pc = "check"
  /\ Goto(j, IF is_cancel_requested(j, proc[j].m) THEN "restore" ELSE "mark")
  /\ UNCHANGED <<storeVars, fixed, back, flagVars, queued, threadCancel, starts, ended, crashes>>

\* Cancel won: write the cancelled state unless it is there already.
JobRestore(j) ==
  LET m == proc[j].m IN
  /\ proc[j].pc = "restore"
  /\ IF get_raw(m).raw = "cancelled"
     THEN clear_cancel(j, m) /\ Goto(j, "context")
     ELSE /\ proc' = [proc EXCEPT ![j].pc = "cancel1", ![j].ret = "job"]
          /\ UNCHANGED flagVars
  /\ UNCHANGED <<storeVars, fixed, back, queued, threadCancel, starts, ended, crashes>>

\* The async marker is added to the payload: read raw, read the result, put.
JobMark(j) ==
  LET m == proc[j].m IN
  /\ proc[j].pc = "mark"
  /\ IF get_raw(m).raw \notin {"none", "cancelled"}
     THEN /\ proc' = [proc EXCEPT ![j].pc = "markget", ![j].raw = [get_raw(m) EXCEPT !.async = TRUE]]
          /\ UNCHANGED flagVars
     ELSE clear_cancel(j, m) /\ Goto(j, "context")
  /\ UNCHANGED <<storeVars, fixed, back, queued, threadCancel, starts, ended, crashes>>

JobMarkGet(j) ==
  LET m == proc[j].m IN
  /\ proc[j].pc = "markget"
  /\ IF get(m) # "cancelled"
     THEN /\ proc' = [proc EXCEPT ![j].pc = "markput", ![j].got = get(m)]
          /\ UNCHANGED flagVars
     ELSE clear_cancel(j, m) /\ Goto(j, "context")
  /\ UNCHANGED <<storeVars, fixed, back, queued, threadCancel, starts, ended, crashes>>

JobMarkPut(j) ==
  LET m == proc[j].m IN
  /\ proc[j].pc = "markput"
  /\ Put(m, proc[j].got, proc[j].raw)
  /\ clear_cancel(j, m)
  /\ Goto(j, "context")
  /\ UNCHANGED <<fixed, back, queued, threadCancel, starts, ended, crashes>>

\* except Exception: a pending cancel is written, anything else is a failure.
JobExcept(j) ==
  LET m == proc[j].m IN
  /\ proc[j].pc = "except"
  /\ IF ~is_cancel_requested(j, m)
     THEN Goto(j, "fail") /\ UNCHANGED flagVars
     ELSE IF get_raw(m).raw = "cancelled"
     THEN clear_cancel(j, m) /\ Goto(j, "context")
     ELSE /\ proc' = [proc EXCEPT ![j].pc = "cancel1", ![j].ret = "except"]
          /\ UNCHANGED flagVars
  /\ UNCHANGED <<storeVars, fixed, back, queued, threadCancel, starts, ended, crashes>>

JobFail(j) ==
  LET m == proc[j].m IN
  /\ proc[j].pc = "fail"
  /\ Put(m, "failed", [NoRow EXCEPT !.raw = "failed", !.async = TRUE,
                                    !.events = <<Event("failed", 2)>>])
  /\ clear_cancel(j, m)
  /\ Goto(j, "context")
  /\ UNCHANGED <<fixed, back, queued, threadCancel, starts, ended, crashes>>

\* The executor reads the payload back and stores it once more with the run's
\* context: read raw, read the result, put.  Then the delivery is over.
ContextRead(j) ==
  /\ proc[j].pc = "context"
  /\ proc' = [proc EXCEPT ![j].pc = "contextget", ![j].raw = get_raw(proc[j].m)]
  /\ UNCHANGED <<storeVars, fixed, back, flagVars, queued, threadCancel, starts, ended, crashes>>

ContextGet(j) ==
  /\ proc[j].pc = "contextget"
  /\ proc' = [proc EXCEPT ![j].pc = "contextput", ![j].got = get(proc[j].m)]
  /\ UNCHANGED <<storeVars, fixed, back, flagVars, queued, threadCancel, starts, ended, crashes>>

ContextPut(j) ==
  /\ proc[j].pc = "contextput"
  /\ Put(proc[j].m, proc[j].got, proc[j].raw)
  /\ ended' = ended \cup {proc[j].m}
  /\ proc' = [proc EXCEPT ![j] = Idle]
  /\ UNCHANGED <<fixed, back, flagVars, queued, threadCancel, starts, crashes>>

-----------------------------------------------------------------------------
(* cancel_running_mission, called by a client or by a job                  *)

\* POST /v1/missions/{id}/cancel
cancel_mission(c, m) ==
  /\ proc[c].pc = "idle" /\ get_raw(m).raw # "none"
  /\ proc' = [proc EXCEPT ![c] = [Idle EXCEPT !.pc = "cancel1", !.m = m, !.ret = "client"]]
  /\ UNCHANGED <<storeVars, fixed, back, flagVars, queued, threadCancel, starts, ended, crashes>>

cancel_run_AnyMission(c, m) ==
  /\ proc[c].pc = "idle"
  /\ threadCancel' = threadCancel \cup {m}
  /\ request_cancel(c, m)
  /\ proc' = [proc EXCEPT ![c] = [Idle EXCEPT !.pc = "cancel1", !.m = m, !.ret = "client"]]
  /\ UNCHANGED <<storeVars, fixed, back, queued, starts, ended, crashes>>

\* The run's own cancel endpoint: the run is over, the backend's flag is set,
\* and the mission is cancelled if it can be.
cancel_run(c, m) ==
  /\ proc[c].pc = "idle" /\ m \in queued
  /\ threadCancel' = threadCancel \cup {m}
  /\ request_cancel(c, m)
  /\ proc' = [proc EXCEPT ![c] = [Idle EXCEPT !.pc = "cancel1", !.m = m, !.ret = "client"]]
  /\ UNCHANGED <<storeVars, fixed, back, queued, starts, ended, crashes>>

\* Where a raised ValueError takes the caller.
Refused(p) == CASE proc[p].ret = "client" -> "refused"
                [] proc[p].ret = "job"    -> "except"
                [] proc[p].ret = "except" -> "dropflag"

CancelFirstCheck(p) ==
  /\ proc[p].pc = "cancel1"
  /\ Goto(p, IF get_raw(proc[p].m).raw = "running" THEN "cancel2" ELSE Refused(p))
  /\ UNCHANGED <<storeVars, fixed, back, flagVars, queued, threadCancel, starts, ended, crashes>>

CancelFlag(p) ==
  /\ proc[p].pc = "cancel2"
  /\ request_cancel(p, proc[p].m)
  /\ Goto(p, "cancel3")
  /\ UNCHANGED <<storeVars, fixed, back, queued, threadCancel, starts, ended, crashes>>

CancelSecondCheck(p) ==
  LET m == proc[p].m IN
  /\ proc[p].pc = "cancel3"
  /\ IF get_raw(m).raw = "running"
     THEN /\ proc' = [proc EXCEPT ![p].pc = "cancel4", ![p].raw = get_raw(m)]
          /\ UNCHANGED flagVars
     ELSE clear_cancel(p, m) /\ Goto(p, Refused(p))
  /\ UNCHANGED <<storeVars, fixed, back, queued, threadCancel, starts, ended, crashes>>

CancelPut_KeepStatus(p) ==
  LET raw == proc[p].raw IN
  /\ proc[p].pc = "cancel4"
  /\ Put(proc[p].m, "cancelled",
         [raw EXCEPT !.async = TRUE, !.events = Append(@, Event("cancelled", Len(@) + 1))])
  /\ Goto(p, "cancel5")
  /\ UNCHANGED <<fixed, back, flagVars, queued, threadCancel, starts, ended, crashes>>

CancelPut(p) ==
  LET raw == proc[p].raw IN
  /\ proc[p].pc = "cancel4"
  /\ Put(proc[p].m, "cancelled",
         [raw EXCEPT !.raw = "cancelled", !.async = TRUE,
                     !.events = Append(@, Event("cancelled", Len(@) + 1))])
  /\ Goto(p, "cancel5")
  /\ UNCHANGED <<fixed, back, flagVars, queued, threadCancel, starts, ended, crashes>>

CancelConfirm_Trusting(p) ==
  LET m == proc[p].m IN
  /\ proc[p].pc = "cancel5"
  /\ IF proc[p].ret = "client" THEN UNCHANGED flagVars ELSE clear_cancel(p, m)
  /\ Goto(p, IF proc[p].ret = "client" THEN "accepted" ELSE "context")
  /\ UNCHANGED <<storeVars, fixed, back, queued, threadCancel, starts, ended, crashes>>

\* "If the job won the race, store refused the cancel write - surface that."
CancelConfirm(p) ==
  LET m == proc[p].m IN
  /\ proc[p].pc = "cancel5"
  /\ IF get_raw(m).raw = "cancelled"
     THEN /\ IF proc[p].ret = "client" THEN UNCHANGED flagVars ELSE clear_cancel(p, m)
          /\ Goto(p, IF proc[p].ret = "client" THEN "accepted" ELSE "context")
     ELSE clear_cancel(p, m) /\ Goto(p, Refused(p))
  /\ UNCHANGED <<storeVars, fixed, back, queued, threadCancel, starts, ended, crashes>>

\* except (KeyError, ValueError): pass, then clear_cancel.
DropFlag(j) ==
  /\ proc[j].pc = "dropflag"
  /\ clear_cancel(j, proc[j].m)
  /\ Goto(j, "context")
  /\ UNCHANGED <<storeVars, fixed, back, queued, threadCancel, starts, ended, crashes>>

-----------------------------------------------------------------------------
(* A process dies: its flags and its work are gone, Redis and the store    *)
(* stay.  Its attempts count: a mission is delivered again only while its  *)
(* run has attempts left, and the row of the mission is not written.       *)
Crash(n) ==
  /\ crashes < MaxCrashes
  /\ crashes' = crashes + 1
  /\ local' = [local EXCEPT ![n] = {}]
  /\ proc' = [p \in Processes |->
                IF Node(p) = n /\ proc[p].pc \notin {"refused", "accepted"} THEN Idle ELSE proc[p]]
  /\ UNCHANGED <<storeVars, fixed, back, shared, queued, threadCancel, starts, ended>>

JobStep(j) ==
  \/ AgentReturns(j) \/ AgentRaises(j) \/ JobCheck(j) \/ JobRestore(j)
  \/ JobMark(j) \/ JobMarkGet(j) \/ JobMarkPut(j) \/ JobExcept(j) \/ JobFail(j)
  \/ ContextRead(j) \/ ContextGet(j) \/ ContextPut(j) \/ DropFlag(j)

CancelStep(p) ==
  \/ CancelFirstCheck(p) \/ CancelFlag(p) \/ CancelSecondCheck(p)
  \/ CancelPut(p) \/ CancelConfirm(p)

MissionsNext ==
  \/ \E m \in Missions : seed_running_mission(m) \/ enqueue_durable_mission(m)
                        \/ PutBackGet(m) \/ PutBackPut(m)
  \/ \E j \in Jobs, m \in Missions : JobStart(j, m)
  \/ \E j \in Jobs : JobStep(j) \/ JobCancelled(j)
  \/ \E c \in Clients, m \in Missions : cancel_mission(c, m) \/ cancel_run(c, m)
  \/ \E p \in Processes : CancelStep(p)
  \/ \E n \in Nodes : Crash(n)

MissionsSpec == MissionsInit /\ [][MissionsNext]_missionVars

\* The outbox delivers what is queued and recovery what was killed, for as long
\* as the run has attempts left; nothing is owed to a mission that was delivered
\* to the end.
Deliver(j) == \E m \in Missions \ ended : JobStart(j, m)

\* A live process goes on, and deliveries are not forgotten.
MissionsFairSpec ==
  /\ MissionsSpec
  /\ \A j \in Jobs : WF_missionVars(JobStep(j)) /\ WF_missionVars(Deliver(j))
  /\ \A p \in Processes : WF_missionVars(CancelStep(p))

-----------------------------------------------------------------------------
(* Every process is at a place of the code, every flag names a mission.    *)
MissionsTypeOK ==
  /\ StoreTypeOK
  /\ local \in [Nodes -> SUBSET Missions] /\ shared \subseteq Missions
  /\ back \in [Missions -> Statuses \cup {"none", "todo", "done"}]
  /\ queued \subseteq Missions /\ threadCancel \subseteq queued
  /\ starts \in [Missions -> 0..MaxStarts] /\ ended \subseteq Missions
  /\ crashes \in 0..MaxCrashes
  /\ \A p \in Processes :
       /\ proc[p].pc \in {"idle", "agent", "check", "restore", "mark", "markget", "markput",
                          "except", "fail", "context", "contextget", "contextput", "dropflag",
                          "cancel1", "cancel2", "cancel3", "cancel4", "cancel5",
                          "refused", "accepted"}
       /\ proc[p].pc # "idle" => proc[p].m \in Missions

(* A client that was told its mission is cancelled never sees it end any   *)
(* other way, whichever job was about to report (async_missions.py:450).   *)
AcceptedCancelHolds ==
  \A c \in Clients : proc[c].pc = "accepted" => row[proc[c].m].result = "cancelled"

(* "Do not leave a sticky cancel flag after a 409 / race loss": once no    *)
(* process is at work on a mission, a flag that is still set belongs to a  *)
(* mission that is cancelled, to a run that was, or to a process that died *)
(* before it could take it back.                                           *)
NoStickyFlag ==
  \A m \in Missions :
    (\A p \in Processes : proc[p].m = m => proc[p].pc \in {"idle", "refused", "accepted"})
      /\ (m \in shared \/ \E n \in Nodes : m \in local[n])
    => row[m].raw = "cancelled" \/ m \in threadCancel \/ crashes > 0

(* The in-memory store and Postgres decide alike whether a write replaces  *)
(* the row, for every new status, although one looks at the raw payload    *)
(* first and the other only at the status column: for a mission of the     *)
(* mission API no read-modify-write of a job, of the executor or of a      *)
(* cancel leaves the two statuses of a row in disagreement.                *)
StoresAgree ==
  \A m \in Missions \ thread, new \in Statuses :
    PutApplies(row[m], new) = MemoryPutApplies(row[m], new)

Concluded(m) == row[m].result # "running" \/ m \in threadCancel
AtWorkOn(m) ==
  {p \in Processes : proc[p].m = m /\ proc[p].pc \notin {"idle", "refused", "accepted"}}

\* Every attempt of its run was killed or lost its lease: the run is FAILED, and
\* nothing is left that would write the mission's row.
Killed(m) == starts[m] = MaxStarts /\ m \notin ended /\ AtWorkOn(m) = {}

\* The process of a cancel died between the flag in Redis and its write: the
\* flag stays, and every later delivery skips the mission without a word.
Orphaned(m) == m \in shared /\ AtWorkOn(m) = {}

(* A mission of the mission API whose run is queued ends, with workers     *)
(* dying, leases lost and cancels at any moment - unless its last attempt  *)
(* was killed, or the process of a cancel died half-way.                   *)
NoMissionHangs ==
  \A m \in Missions : m \in queued /\ m \notin thread ~> Concluded(m) \/ Killed(m) \/ Orphaned(m)

(* The same of every mission, those submitted as a message included.       *)
NoThreadMissionHangs ==
  \A m \in Missions : m \in queued ~> Concluded(m) \/ Killed(m) \/ Orphaned(m)

(* "never leave a hung running mission" (async_missions.py:335), also when *)
(* it is not an exception that ends the deliveries of the mission.         *)
KilledMissionsEnd ==
  \A m \in Missions : m \in queued /\ m \notin thread ~> Concluded(m) \/ Orphaned(m)

(* A mission that dies while a cancel is pending is cancelled, or "the     *)
(* runner is left running forever with no terminal write"                  *)
(* (async_missions.py:337-339), also when the cancel dies with its process.*)
PendingCancelEnds ==
  \A m \in Missions : m \in queued /\ m \notin thread ~> Concluded(m) \/ Killed(m)

\* A mission's row, its events, what the process holds of it and its cancel
\* flags agree, whatever jobs, cancels and deaths have done to them; and a
\* cancel that was accepted holds.
MissionsInv ==
  /\ MissionsTypeOK
  /\ EventsMirrorRaw
  /\ StoresAgree
  /\ NoStickyFlag
  /\ AcceptedCancelHolds

\* How a mission ended stays: nothing revives a cancelled one, and one that
\* has an outcome is never turned into a cancelled one.
CancelIsFinal ==
  /\ CancelledForever
  /\ OutcomeNeverCancelled
=============================================================================
