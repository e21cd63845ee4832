------------------------------ MODULE AgentRun ------------------------------
(***************************************************************************)
(* One mission of the agent: agent/runner.py run_v3_mission and            *)
(* agent/validation run_validated_mission.  The model is free to call any  *)
(* tool it is offered, several at once and again and again; the budgets,   *)
(* the guard against repeated calls and the withdrawal of tools have to    *)
(* bring the mission to an end, and only an answer that the validator has  *)
(* passed may come out as one.  The verdict itself is module Evidence's.   *)
(***************************************************************************)
EXTENDS Integers, Sequences, FiniteSets

CONSTANTS
  CallKinds,     \* tool calls that differ in the tool or the arguments
  ToolOf,        \* the tool of each
  CatalogueTools,\* _STILL_AVAILABLE_WITHOUT_LIVE_DATA
  Batch,         \* how many calls one response of the model may hold
  MaxCalls,      \* limits.max_tool_calls
  SpareRequests, \* the requests granted on top of the tool calls (32)
  MaxRevisions,  \* limits.max_validation_revisions
  AgentRetries,  \* limits.agent_retries
  Routes         \* what the classifier may say: "alias", "conversation", "agent"

ASSUME AgentAssumption ==
  /\ Batch \in Nat \ {0} /\ MaxCalls \in Nat /\ MaxRevisions \in Nat
  /\ SpareRequests \in Nat /\ AgentRetries \in Nat \ {0}

VARIABLES
  phase,      \* where the mission is
  route,      \* what run_v3_mission decided to do
  offered,    \* the tools of the current model request
  slots,      \* the calls of the current response and how far each is
  counts,     \* deps.call_counts: repeat counters, withdrawals, live data
  prior,      \* the guard's stored result per call
  usage,      \* of this agent run: requests, calls, retries; calls of the mission
  revision,   \* tracker.validation_revisions
  verdict,    \* the validator's word on the current result
  draft,      \* what the client is shown: text of which runs, and if it is whole
  result      \* how the mission ended

agentVars == <<phase, route, offered, slots, counts, prior, usage, revision,
               verdict, draft, result>>

Tools == {ToolOf[k] : k \in CallKinds}
Outcomes == {"ok", "refused", "transient"}
NoSlot == [call |-> "none", at |-> "free"]
Ongoing == [status |-> "none", error |-> "none", run |-> 0]
NoDraft == [runs |-> {}, whole |-> FALSE]

AgentInit ==
  /\ phase = "routing" /\ route = "agent" /\ offered = {}
  /\ slots = [i \in 1..Batch |-> NoSlot]
  /\ counts = [repeats |-> [k \in CallKinds |-> 0], withdrawn |-> {},
               executed |-> [k \in CallKinds |-> 0],
               retries |-> [k \in CallKinds |-> 0], live_down |-> FALSE]
  /\ prior = [k \in CallKinds |-> "none"]
  /\ usage = [requests |-> 0, calls |-> 0, retries |-> 0, mission |-> 0]
  /\ revision = 0 /\ verdict = "none"
  /\ draft = NoDraft
  /\ result = Ongoing

AgentTypeOK ==
  /\ phase \in {"routing", "lookup", "requesting", "responding", "working",
                "validating", "over"}
  /\ route \in Routes \cup {"agent"} /\ offered \subseteq Tools
  /\ \A i \in 1..Batch : slots[i].at \in {"free", "pending", "running", "done"}
  /\ counts.withdrawn \subseteq Tools
  /\ revision \in 0..MaxRevisions
  /\ draft.runs \subseteq 1..(MaxRevisions + 1)
  /\ result.status \in {"none", "completed", "partial", "failed"}

-----------------------------------------------------------------------------
\* _usage_limits: each run gets its share, rounded up, of the mission's budget.
Attempts == 1 + MaxRevisions
_share_Whole(total) == total
_share(total) == (total + Attempts - 1) \div Attempts
Cap == IF MaxCalls < 1 THEN 1 ELSE MaxCalls

Finish(status, error) ==
  /\ phase' = "over"
  /\ result' = [status |-> status, error |-> error, run |-> revision + 1]

\* run_v3_mission: an exact alias is looked up without the model, small talk
\* gets no tools, everything else runs the agent.
Decide(r) ==
  /\ phase = "routing"
  /\ route' = r
  /\ phase' = IF r = "alias" THEN "lookup" ELSE "requesting"
  /\ UNCHANGED <<offered, slots, counts, prior, usage, revision, verdict, draft, result>>

\* _alias_lookup_result: a value, or the reason that there is none.
Lookup(found) ==
  /\ phase = "lookup"
  /\ IF found THEN Finish("completed", "none") ELSE Finish("failed", "INSUFFICIENT_EVIDENCE")
  /\ UNCHANGED <<route, offered, slots, counts, prior, usage, revision, verdict, draft>>

\* _withdraw_data_tools prepares the tools of each request.
Prepared ==
  IF route = "conversation" THEN {}
  ELSE (IF counts.live_down THEN Tools \cap CatalogueTools ELSE Tools) \ counts.withdrawn
Request ==
  /\ phase = "requesting"
  /\ usage.requests < _share(Cap + SpareRequests)
  /\ offered' = Prepared
  /\ usage' = [usage EXCEPT !.requests = @ + 1]
  /\ phase' = "responding"
  /\ UNCHANGED <<route, slots, counts, prior, revision, verdict, draft, result>>

\* The model answers with calls; they are refused as a whole when the run's
\* budget does not cover them (UsageLimitExceeded).
RespondWithCalls(chosen) ==
  LET n == Cardinality({i \in 1..Batch : chosen[i] # "none"}) IN
  /\ phase = "responding" /\ n > 0
  /\ \A i \in 1..Batch : chosen[i] # "none" => ToolOf[chosen[i]] \in offered
  /\ usage.calls + n <= _share(Cap)
  /\ usage' = [usage EXCEPT !.calls = @ + n, !.mission = @ + n]
  /\ slots' = [i \in 1..Batch |-> [call |-> chosen[i],
                                   at |-> IF chosen[i] = "none" THEN "done" ELSE "pending"]]
  /\ phase' = "working"
  /\ UNCHANGED <<route, offered, counts, prior, revision, verdict, draft, result>>

\* An output that is no MissionResult is sent back to the model; when it is so
\* once too often the run raises (Raise).
RetryOutput ==
  /\ phase = "responding" /\ draft = NoDraft
  /\ usage.retries < AgentRetries
  /\ usage' = [usage EXCEPT !.retries = @ + 1]
  /\ phase' = "requesting"
  /\ UNCHANGED <<route, offered, slots, counts, prior, revision, verdict, draft, result>>

\* _run_agent turns an exhausted budget into a failed result, which
\* run_validated_mission returns without asking the validator.
OverBudget_CallsOnly ==
  /\ phase = "responding" /\ usage.calls + Batch > _share(Cap)
  /\ Finish("failed", "EXECUTION_LIMIT_EXCEEDED")
  /\ UNCHANGED <<route, offered, slots, counts, prior, usage, revision, verdict, draft>>
OverBudget ==
  /\ \/ phase = "requesting" /\ usage.requests >= _share(Cap + SpareRequests)
     \/ phase = "responding" /\ usage.calls + Batch > _share(Cap)
  /\ Finish("failed", "EXECUTION_LIMIT_EXCEEDED")
  /\ UNCHANGED <<route, offered, slots, counts, prior, usage, revision, verdict, draft>>

-----------------------------------------------------------------------------
\* RepeatCallGuard.wrap_tool_execute: count the call, then execute it or replay
\* what it gave before; the third time its tool is withdrawn.
WITHDRAW_AFTER == 3
Rerun_Failed(k) == prior[k] # "ok"
Rerun(k) == prior[k] \in {"none", "transient"}
BeginCall(i) ==
  LET k == slots[i].call
      n == IF counts.repeats[k] < WITHDRAW_AFTER THEN counts.repeats[k] + 1
           ELSE WITHDRAW_AFTER IN
  /\ phase = "working" /\ slots[i].at = "pending"
  /\ slots' = [slots EXCEPT ![i].at = IF Rerun(k) THEN "running" ELSE "done"]
  /\ counts' = [counts EXCEPT
                  !.repeats[k] = n,
                  !.executed[k] = IF Rerun(k) THEN @ + 1 ELSE @,
                  !.withdrawn = IF ~Rerun(k) /\ n >= WITHDRAW_AFTER THEN @ \cup {ToolOf[k]} ELSE @]
  /\ UNCHANGED <<phase, route, offered, prior, usage, revision, verdict, draft, result>>

\* The tool returns: the calls of one response run side by side, so an earlier
\* result of the same call may be overwritten.
EndCall(i, o) ==
  LET k == slots[i].call IN
  /\ phase = "working" /\ slots[i].at = "running"
  /\ slots' = [slots EXCEPT ![i].at = "done"]
  /\ prior' = [prior EXCEPT ![k] = o]
  /\ \E down \in IF o = "refused" THEN BOOLEAN ELSE {FALSE} :
       counts' = [counts EXCEPT !.live_down = @ \/ down,
                                !.retries[k] = IF o = "transient" THEN @ + 1 ELSE @]
  /\ UNCHANGED <<phase, route, offered, usage, revision, verdict, draft, result>>

Continue ==
  /\ phase = "working" /\ \A i \in 1..Batch : slots[i].at = "done"
  /\ slots' = [i \in 1..Batch |-> NoSlot]
  /\ phase' = "requesting"
  /\ UNCHANGED <<route, offered, counts, prior, usage, revision, verdict, draft, result>>

-----------------------------------------------------------------------------
\* The model writes the final answer, streamed suffix by suffix.
Stream(whole) ==
  /\ phase = "responding" /\ ~draft.whole
  /\ draft' = [runs |-> draft.runs \cup {revision + 1}, whole |-> whole]
  /\ phase' = IF whole THEN "validating" ELSE phase
  /\ draft' # draft
  /\ UNCHANGED <<route, offered, slots, counts, prior, usage, revision, verdict, result>>

\* EvidenceValidator.validate says of this run's result; "invalid" stands for
\* the structural gates (an unknown artifact id, an empty or placeholder answer).
Validate(v) ==
  /\ phase = "validating" /\ verdict = "none"
  /\ verdict' = v
  /\ UNCHANGED <<phase, route, offered, slots, counts, prior, usage, revision, draft, result>>

\* A rejected answer ends the mission, and so does one to revise when no
\* revision is left; a PASS is returned with the status the model gave it,
\* which the runner reads as partial when it is none of its own.
Conclude_RawStatus(status) ==
  /\ phase = "validating" /\ verdict # "none"
  /\ IF verdict = "PASS" THEN Finish(IF status = "partial" THEN "running" ELSE status, "none")
     ELSE /\ verdict = "REJECT" \/ revision >= MaxRevisions
          /\ Finish("failed", "INSUFFICIENT_EVIDENCE")
  /\ UNCHANGED <<route, offered, slots, counts, prior, usage, revision, verdict, draft>>
Conclude(status) ==
  /\ phase = "validating" /\ verdict # "none"
  /\ IF verdict = "PASS" THEN Finish(status, "none")
     ELSE /\ verdict = "REJECT" \/ revision >= MaxRevisions
          /\ Finish("failed", "INSUFFICIENT_EVIDENCE")
  /\ UNCHANGED <<route, offered, slots, counts, prior, usage, revision, verdict, draft>>

\* The streamed answer is called back and a new agent run begins, with the
\* mission's counters and stored results and a usage of its own.
Revise_KeepsDraft ==
  /\ phase = "validating" /\ verdict \in {"REVISE", "invalid"} /\ revision < MaxRevisions
  /\ revision' = revision + 1
  /\ verdict' = "none"
  /\ draft' = [draft EXCEPT !.whole = FALSE]
  /\ usage' = [usage EXCEPT !.requests = 0, !.calls = 0, !.retries = 0]
  /\ phase' = "requesting"
  /\ UNCHANGED <<route, offered, slots, counts, prior, result>>
Revise ==
  /\ phase = "validating" /\ verdict \in {"REVISE", "invalid"} /\ revision < MaxRevisions
  /\ revision' = revision + 1
  /\ verdict' = "none"
  /\ draft' = NoDraft
  /\ usage' = [usage EXCEPT !.requests = 0, !.calls = 0, !.retries = 0]
  /\ phase' = "requesting"
  /\ UNCHANGED <<route, offered, slots, counts, prior, result>>

\* Anything that raises, and the mission's timeout, end it with an error.
Raise(error) ==
  /\ phase # "over"
  /\ Finish("failed", error)
  /\ UNCHANGED <<route, offered, slots, counts, prior, usage, revision, verdict, draft>>

AgentStep ==
  \/ \E r \in Routes : Decide(r)
  \/ \E found \in BOOLEAN : Lookup(found)
  \/ Request \/ RetryOutput \/ OverBudget \/ Continue \/ Revise
  \/ \E chosen \in [1..Batch -> CallKinds \cup {"none"}] : RespondWithCalls(chosen)
  \/ \E i \in 1..Batch : BeginCall(i) \/ \E o \in Outcomes : EndCall(i, o)
  \/ \E whole \in BOOLEAN : Stream(whole)
  \/ \E v \in {"PASS", "REVISE", "REJECT", "invalid"} : Validate(v)
  \/ \E status \in {"completed", "partial", "failed"} : Conclude(status)
AgentNext ==
  \/ AgentStep
  \/ \E error \in {"LLM_RATE_LIMITED", "V3_AGENT_TIMEOUT", "V3_AGENT_FAILED",
                   "EXECUTION_LIMIT_EXCEEDED"} : Raise(error)

-----------------------------------------------------------------------------
\* What comes out as a completed answer of the agent has been passed, and a
\* client that followed the stream has been shown exactly that answer: no text
\* of an answer that was called back is left in front of it.
AnswerIsValidated ==
  result.status = "completed" /\ route # "alias" =>
    /\ verdict = "PASS"
    /\ draft = [runs |-> {result.run}, whole |-> TRUE]

\* "the mission's aggregate stays at the configured single-run budget", up to
\* the rounding of each run's share, however many revisions there are.
SpendIsBounded == usage.mission <= Cap + MaxRevisions

\* A call that does not fail transiently is executed once, or once per place in
\* a single response that holds it several times.
SameCallIsBounded ==
  \A k \in CallKinds : counts.executed[k] <= Batch * (1 + counts.retries[k])

\* Whatever the model does, the mission ends without the timeout's help.
MissionEnds == <>(phase = "over")

\* However the model acts, a mission that is delivered was validated, and
\* neither its budget nor a repeated call runs away.
AgentInv ==
  /\ AgentTypeOK
  /\ AnswerIsValidated
  /\ SpendIsBounded
  /\ SameCallIsBounded
=============================================================================
