---------------------------- MODULE ModelRouting ----------------------------
(***************************************************************************)
(* Which language model answers: the gateway of llm/gateway.py, where each *)
(* model is behind a circuit breaker, and the agent's fallback chain, where*)
(* a model that failed is skipped while it cools down (agent/model_health  *)
(* .py).  Requests run concurrently and read and write the health of the   *)
(* models between their calls; a request whose task is cancelled says      *)
(* nothing of its call.                                                    *)
(*                                                                         *)
(* Timers count down.  The adapter's own retries of one call               *)
(* (llm/adapters) are part of the call.                                    *)
(***************************************************************************)
EXTENDS Integers, Sequences, FiniteSets

CONSTANTS
  Order,       \* the models by priority
  Callers,     \* concurrent requests
  Threshold,   \* failure_threshold
  Cooldown,    \* the cooldown, in clock ticks
  Chains,      \* the chains resolve_v3_model may build, sequences of models
  Gates        \* which of the two a caller uses: "breaker", "chain"

Models == {Order[i] : i \in DOMAIN Order}
ModelsOf(chain) == {chain[i] : i \in DOMAIN chain}

\* A chain is never empty and repeats no model.
ASSUME RoutingAssumption ==
  /\ Threshold \in Nat \ {0} /\ Cooldown \in Nat \ {0}
  /\ Gates \subseteq {"breaker", "chain"}
  /\ Order \in Seq(Models)
  /\ \A chain \in Chains : chain \in Seq(Models) /\ Len(chain) \in 1..Len(Order)

VARIABLES
  gate,      \* what the callers use
  health,    \* per model: failures, open, probing (breaker) and cooling (chain)
  known,     \* the models some chain has registered
  caller,    \* per caller: its chain, where it is in it, what became of it
  abandoned  \* the models whose probe was cancelled, until another call of theirs ends

routingVars == <<gate, health, known, caller, abandoned>>

\* open: ticks until a probe is let through, -1 when the breaker is closed.
Healthy == [failures |-> 0, open |-> -1, probing |-> FALSE, cooling |-> 0]
Resting == [chain |-> <<>>, next |-> 1, at |-> "idle", probe |-> FALSE, tried |-> 0]

RoutingTypeOK ==
  /\ gate \in Gates
  /\ health \in [Models -> [failures: 0..Threshold, open: -1..Cooldown,
                            probing: BOOLEAN, cooling: 0..Cooldown]]
  /\ known \subseteq Models /\ abandoned \subseteq Models
  /\ \A c \in Callers :
       /\ caller[c].at \in {"idle", "choosing", "calling", "served", "failed"}
       /\ caller[c].tried \in 0..Len(Order)

RoutingInit ==
  /\ gate \in Gates
  /\ health = [m \in Models |-> Healthy]
  /\ known = {}
  /\ caller = [c \in Callers |-> Resting]
  /\ abandoned = {}

-----------------------------------------------------------------------------
\* CircuitBreaker
allow(m) == health[m].open = -1 \/ (health[m].open = 0 /\ ~health[m].probing)
Admitted(m) == [health EXCEPT ![m].probing = @ \/ health[m].open = 0]
record_success(m) == [health EXCEPT ![m] = Healthy]
record_failure_KeepsProbe(m) ==
  LET n == IF health[m].failures < Threshold THEN health[m].failures + 1 ELSE Threshold IN
  [health EXCEPT ![m].failures = n, ![m].open = IF n >= Threshold THEN Cooldown ELSE @]
record_failure(m) ==
  LET n == IF health[m].failures < Threshold THEN health[m].failures + 1 ELSE Threshold IN
  [health EXCEPT ![m].failures = n, ![m].probing = FALSE,
                 ![m].open = IF n >= Threshold THEN Cooldown ELSE @]

\* ModelHealth: a cooling model is skipped while another known one is not.
should_skip_Always(m) == health[m].cooling > 0
should_skip(m) ==
  health[m].cooling > 0 /\ \E other \in known \ {m} : health[other].cooling = 0

-----------------------------------------------------------------------------
\* A request starts; resolve_v3_model registers the models of its chain.
Start(c, chain) ==
  /\ caller[c].at = "idle"
  /\ caller' = [caller EXCEPT ![c] = [Resting EXCEPT !.at = "choosing", !.chain = chain]]
  /\ known' = IF gate = "chain" THEN known \cup ModelsOf(chain) ELSE known
  /\ UNCHANGED <<gate, health, abandoned>>

Current(c) == caller[c].chain[caller[c].next]
Refuses(m) == IF gate = "breaker" THEN ~allow(m) ELSE should_skip(m)

\* The loop over the candidates up to the first that is called: it does not
\* await, so nobody else runs in between.
Route(c) ==
  LET chain == caller[c].chain
      open == {i \in caller[c].next..Len(chain) : ~Refuses(chain[i])} IN
  /\ caller[c].at = "choosing"
  /\ IF open = {}
     THEN caller' = [caller EXCEPT ![c].at = "failed"] /\ UNCHANGED health
     ELSE LET i == CHOOSE i \in open : \A j \in open : i <= j IN
          /\ caller' = [caller EXCEPT ![c].at = "calling", ![c].next = i,
                                      ![c].probe = health[chain[i]].open = 0,
                                      ![c].tried = @ + 1]
          /\ health' = IF gate = "breaker" THEN Admitted(chain[i]) ELSE health
  /\ UNCHANGED <<gate, known, abandoned>>

\* The call returns; its success is recorded whatever has happened since.
Serve(c) ==
  /\ caller[c].at = "calling"
  /\ caller' = [caller EXCEPT ![c] = [Resting EXCEPT !.at = "served"]]
  /\ health' = record_success(Current(c))
  /\ abandoned' = abandoned \ {Current(c)}
  /\ UNCHANGED <<gate, known>>

\* ... or fails: retryable, and the next candidate is tried; or for good.  A
\* request problem (cooldown_for = 0) does not cool the model.
Fail(c, retryable) ==
  /\ caller[c].at = "calling"
  /\ caller' = [caller EXCEPT ![c].at = IF retryable THEN "choosing" ELSE "failed",
                              ![c].next = @ + 1]
  /\ IF gate = "breaker" THEN health' = record_failure(Current(c))
     ELSE health' \in {health, [health EXCEPT ![Current(c)].cooling = Cooldown]}
  /\ abandoned' = abandoned \ {Current(c)}
  /\ UNCHANGED <<gate, known>>

\* ... or its task is cancelled (a lost lease, a timeout around the request):
\* CancelledError is no Exception, so neither success nor failure is recorded.
Cancelled(c) ==
  /\ caller[c].at = "calling"
  /\ caller' = [caller EXCEPT ![c] = Resting]
  /\ abandoned' = IF caller[c].probe THEN abandoned \cup {Current(c)} ELSE abandoned
  /\ UNCHANGED <<gate, health, known>>

\* The request is over; the caller makes another one.
Again(c) ==
  /\ caller[c].at \in {"served", "failed"}
  /\ caller' = [caller EXCEPT ![c] = Resting]
  /\ UNCHANGED <<gate, health, known, abandoned>>

Sooner_PastZero(timer) == timer - 1
Sooner(timer) == IF timer > 0 THEN timer - 1 ELSE timer
Wait ==
  /\ health' = [m \in Models |-> [health[m] EXCEPT !.open = Sooner(@), !.cooling = Sooner(@)]]
  /\ health' # health
  /\ UNCHANGED <<gate, known, caller, abandoned>>

RoutingNext ==
  \/ Wait
  \/ \E c \in Callers :
       \/ \E chain \in IF gate = "breaker" THEN {Order} ELSE Chains : Start(c, chain)
       \/ Route(c) \/ Serve(c) \/ Cancelled(c) \/ Again(c)
       \/ \E retryable \in BOOLEAN : Fail(c, retryable)

RoutingSpec == RoutingInit /\ [][RoutingNext]_routingVars

-----------------------------------------------------------------------------
Probes(c, m) == caller[c].at = "calling" /\ caller[c].probe /\ Current(c) = m

\* A model that waits for its probe has a caller that will record the probe's
\* outcome, unless that caller was cancelled.
ProbeHasCaller ==
  \A m \in Models : health[m].probing => m \in abandoned \/ \E c \in Callers : Probes(c, m)

\* A chain that holds every known model is never skipped as a whole: when all of
\* them cool down the mission still makes a call.
SomeModelTried ==
  gate = "chain" => \A c \in Callers :
    caller[c].at = "failed" /\ known \subseteq ModelsOf(caller[c].chain) => caller[c].tried > 0

\* Breaker and health cooldown keep requests from a broken model, not from every
\* model of the process, and for no longer than a probe is under way.
RoutingInv ==
  /\ RoutingTypeOK
  /\ ProbeHasCaller
  /\ SomeModelTried

\* llm/gateway.py:81-82: "Non-LLMError must still close the probe: leaving
\* _probing=True here wedges the breaker (no success/failure ever recorded)."
\* A cancelled call leaves it: allow() then refuses the model for good.
ProbeIsClosed == \A m \in Models : health[m].probing => \E c \in Callers : Probes(c, m)

\* agent/model_health.py:8-9: "If every model in the chain is cooling down, none is
\* skipped: better to try a recently-failed model than to fail the mission without
\* a single call."  should_skip asks every model ever registered, not the chain's.
NoneSkippedWhenAllCool ==
  gate = "chain" => \A c \in Callers : caller[c].at = "failed" => caller[c].tried > 0
=============================================================================
