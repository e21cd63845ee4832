---------------------------- MODULE RunLifecycle ----------------------------
(***************************************************************************)
(* What the durable run queue promises to a client that polls a run and    *)
(* reads its event log: a submitted run ends at most once, in one of three *)
(* ways, and the event that says so appears in the same instant.           *)
(***************************************************************************)
CONSTANT Runs
VARIABLES
  status,  \* "NONE", "OPEN" or how the run ended
  log      \* the terminal events the run's log holds

vars == <<status, log>>

EndEvent == [COMPLETED |-> "run.completed", FAILED |-> "run.failed",
             CANCELLED |-> "run.cancelled"]

Init ==
  /\ status = [r \in Runs |-> "NONE"]
  /\ log = [r \in Runs |-> {}]

Submit(r) ==
  /\ status[r] = "NONE"
  /\ status' = [status EXCEPT ![r] = "OPEN"]
  /\ UNCHANGED log

\* The run ends, and its log tells how.
End(r, how) ==
  /\ status[r] = "OPEN"
  /\ status' = [status EXCEPT ![r] = how]
  /\ log' = [log EXCEPT ![r] = {EndEvent[how]}]

Next ==
  \E r \in Runs : Submit(r) \/ \E how \in DOMAIN EndEvent : End(r, how)

Spec == Init /\ [][Next]_vars
=============================================================================
