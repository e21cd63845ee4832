----------------------------- MODULE Derivations -----------------------------
(***************************************************************************)
(* The tools that derive a claim from evidence the mission has fetched: a  *)
(* causal estimate and its refutation (toolsets/causal.py, causal/         *)
(* service.py), a forecast (toolsets/models.py, models/service.py) and the *)
(* lift of an experiment (toolsets/experiments.py).  The evidence and the  *)
(* date of the question stay as they are; the artifacts accumulate.        *)
(*                                                                         *)
(* An observation is one row of one day: its metric, its label of the      *)
(* dimension (or ""), its value, which may be missing.  What DoWhy and     *)
(* statsmodels compute is external: an estimation may be unavailable, its  *)
(* refuters may agree or not, a fit may fail.                              *)
(***************************************************************************)
EXTENDS Integers, Sequences, FiniteSets, FiniteSetsExt

CONSTANTS
  Histories,        \* the rows a mission may have fetched, in their order
  AsOf,             \* the day of the question
  HistoryBase,      \* HISTORY_DAYS_BASE
  CandidateCap,     \* BASE_CAUSAL_CANDIDATE_CAP
  MinObservations,  \* MIN_OBSERVATION_ROWS
  MinHistory,       \* MIN_HISTORY_DAYS
  Registry,         \* the forecast models, in the order of the registry
  Variants,         \* the variants of the experiment, in their order
  MaxEstimates,     \* max_causal_queries
  MaxForecasts,     \* max_prediction_calls
  MaxReplies        \* calls in one mission

ASSUME DerivationsAssumption ==
  /\ {HistoryBase, CandidateCap, MinObservations, MinHistory} \subseteq Nat \ {0}
  /\ {MaxEstimates, MaxForecasts, MaxReplies} \subseteq Nat
  /\ AsOf \in Int
  /\ \A h \in Histories :
       h \in Seq([metric : STRING, label : STRING, day : Int, value : Int, null : BOOLEAN])
  /\ Variants \in Seq([label : STRING, control : BOOLEAN])

VARIABLES
  history,    \* the rows
  derived,    \* the artifacts, in the order they were stored
  replies,    \* what each call answered
  used        \* what of each budget is gone

derivationVars == <<history, derived, replies, used>>

Breadths == 0..2
Treatment == "t"
Outcome == "o"

DerivationsInit ==
  /\ history \in Histories
  /\ derived = <<>> /\ replies = <<>>
  /\ used = [estimates |-> 0, forecasts |-> 0]

Known(is) == {i \in is : ~history[i].null}
OfMetric(is, m) == {i \in is : history[i].metric = m}
DaysOf(is) == {history[i].day : i \in is}
LastRow(is) == CHOOSE i \in is : \A j \in is : j <= i

\* One call, answered and counted.
Replied(reply) == Len(replies) < MaxReplies /\ replies' = Append(replies, reply)
Consume_FirstOnly(key, limit) == used' = [used EXCEPT ![key] = IF limit > 0 THEN 1 ELSE 0]
Consume(key, limit) == used' = [used EXCEPT ![key] = IF @ < limit THEN @ + 1 ELSE @]

-----------------------------------------------------------------------------
(* Causal estimates                                                        *)

\* The gate looks at all rows of the two series, not only at the window's.
_precondition_history_Wider(breadth) ==
  \A m \in {Treatment, Outcome} :
    LET days == DaysOf(OfMetric(DOMAIN history, m)) IN
    /\ Cardinality(OfMetric(DOMAIN history, m)) >= MinObservations
    /\ Max(days) - Min(days) + 1 >= MinHistory * (1 + breadth)
_precondition_history(breadth) ==
  \A m \in {Treatment, Outcome} :
    LET days == DaysOf(OfMetric(DOMAIN history, m)) IN
    /\ Cardinality(OfMetric(DOMAIN history, m)) >= MinObservations
    /\ Max(days) - Min(days) + 1 >= MinHistory

widening_for(breadth) == [days |-> HistoryBase * (1 + breadth), cap |-> CandidateCap + breadth]

\* The rows of the window, the metrics they have, and where each one first appears.
InWindow(wide) == {i \in Known(DOMAIN history) : history[i].day \in (AsOf - wide.days)..AsOf}
MetricsOf(is) == {history[i].metric : i \in is}
FirstSeen(is, m) == Min(OfMetric(is, m))

\* The days on which every column has a value.
CompleteDays_AnyColumn(is, columns) == DaysOf(UNION {OfMetric(is, m) : m \in columns})
CompleteDays(is, columns) == {d \in DaysOf(is) : \A m \in columns : d \in DaysOf(OfMetric(is, m))}

\* The warning that confounders were left out.
Truncated_OffByOne(metrics, cap) == Cardinality(metrics) - 2 > cap
Truncated(metrics, cap) == Cardinality(metrics) - 1 > cap

\* The observation frame: the confounders that ride along, the days it has.
build_observation_frame(breadth) ==
  LET wide == widening_for(breadth)
      is == InWindow(wide)
      metrics == MetricsOf(is)
      others == metrics \ {Treatment, Outcome}
      causes == {m \in others : Cardinality({n \in others : FirstSeen(is, n) <= FirstSeen(is, m)})
                                  <= wide.cap - 1} IN
  IF \E m \in {Treatment, Outcome} : OfMetric(is, m) = {}
  THEN [causes |-> {}, days |-> {}, warned |-> FALSE]
  ELSE [causes |-> causes, days |-> CompleteDays(is, {Treatment, Outcome} \cup causes),
        warned |-> Truncated(metrics, wide.cap)]

\* DoWhy's refuters: how many it ran to an end, how many of these disagreed.
Refutations == {r \in [completed: 0..3, contradicted: 0..3] : r.contradicted <= r.completed}
classify_from_refutations(r) ==
  IF r.contradicted > 0 \/ r.completed < 2 THEN "ASSOCIATION" ELSE "CAUSALLY_SUPPORTED"

\* With too few observations, or DoWhy unavailable, there is no effect to state.
estimate_from_evidence(breadth) ==
  LET frame == build_observation_frame(breadth)
      estimate(effect, class) ==
        [type |-> "causal", breadth |-> breadth, frame |-> frame, effect |-> effect, class |-> class,
         refutes |-> 0] IN
  {estimate(FALSE, "ASSOCIATION")}
  \cup IF Cardinality(frame.days) < MinObservations THEN {}
       ELSE {estimate(TRUE, classify_from_refutations(r)) : r \in Refutations}

estimate_effect(breadth) ==
  /\ history # <<>>
  /\ LET spent == used.estimates >= MaxEstimates
         refused == spent \/ ~_precondition_history(breadth) IN
     /\ Replied([tool |-> "estimate", refused |-> refused, spent |-> spent])
     /\ IF refused THEN UNCHANGED derived
        ELSE \E e \in estimate_from_evidence(breadth) : derived' = Append(derived, e)
  /\ Consume("estimates", MaxEstimates)
  /\ UNCHANGED history

\* The same evidence, treatment, outcome and breadth as the artifact's, again.
\* It asks for no budget.
refute_estimate_Base(k) ==
  /\ derived[k].type = "causal"
  /\ \E e \in estimate_from_evidence(0) :
       derived' = Append(derived, [e EXCEPT !.refutes = k])
  /\ Replied([tool |-> "refute", refused |-> FALSE])
  /\ UNCHANGED <<history, used>>
refute_estimate(k) ==
  /\ derived[k].type = "causal"
  /\ \E e \in estimate_from_evidence(derived[k].breadth) :
       derived' = Append(derived, [e EXCEPT !.refutes = k])
  /\ Replied([tool |-> "refute", refused |-> FALSE])
  /\ UNCHANGED <<history, used>>

-----------------------------------------------------------------------------
(* Forecasts                                                               *)

_approved_model_for(target) ==
  {i \in DOMAIN Registry : /\ Registry[i].target = target
                           /\ Registry[i].approved /\ Registry[i].type = "forecast"}

\* forecast_series orders the measured rows by day; the fit may fail.
forecast_series(horizon) ==
  horizon >= 1 /\ Cardinality(Known(DOMAIN history)) >= MinObservations

forecast(horizon) ==
  LET metrics == {history[i].metric : i \in DOMAIN history}
      target == CHOOSE m \in metrics : TRUE
      models == _approved_model_for(target)
      served == /\ used.forecasts < MaxForecasts
                /\ Cardinality(metrics) = 1 /\ models # {}
                /\ Cardinality(Known(DOMAIN history)) >= Registry[Min(models)].minimum
                /\ forecast_series(horizon) IN
  /\ history # <<>>
  /\ \E fits \in BOOLEAN :
       /\ Replied([tool |-> "forecast", refused |-> ~(served /\ fits)])
       /\ derived' = IF served /\ fits
                     THEN Append(derived, [type |-> "prediction", model |-> Min(models),
                                           points |-> Known(DOMAIN history)])
                     ELSE derived
  /\ Consume("forecasts", MaxForecasts)
  /\ UNCHANGED history

-----------------------------------------------------------------------------
(* Experiments                                                             *)

Controls == {i \in DOMAIN Variants : Variants[i].control}
treatments == {i \in DOMAIN Variants : ~Variants[i].control}

\* The row that speaks for a label: the last measured one that carries it.
by_label_AnyRow(label) ==
  LET is == {i \in DOMAIN history : history[i].label = label} IN
  IF is = {} THEN 0 ELSE LastRow(is)
by_label(label) ==
  LET is == {i \in Known(DOMAIN history) : history[i].label = label} IN
  IF is = {} THEN 0 ELSE LastRow(is)

lift(control, row) ==
  [type |-> "lift", cites |-> <<control, row>>,
   absolute |-> history[row].value - history[control].value,
   relative |-> history[control].value # 0]

evaluate_experiment ==
  LET control == IF Controls = {} THEN 0 ELSE by_label(Variants[Min(Controls)].label)
      rows == [i \in treatments |-> by_label(Variants[i].label)]
      measured == IF control = 0 THEN {} ELSE {i \in treatments : rows[i] # 0}
      nth(n) == CHOOSE i \in measured : Cardinality({j \in measured : j <= i}) = n IN
  /\ history # <<>>
  /\ derived' = derived \o [n \in 1..Cardinality(measured) |-> lift(control, rows[nth(n)])]
  /\ Replied([tool |-> "experiment", refused |-> measured = {}])
  /\ UNCHANGED <<history, used>>

-----------------------------------------------------------------------------
DerivationsNext ==
  \/ \E b \in Breadths : estimate_effect(b)
  \/ \E k \in DOMAIN derived : refute_estimate(k)
  \/ \E h \in 0..1 : forecast(h)
  \/ evaluate_experiment

-----------------------------------------------------------------------------
(* What the claims promise                                                 *)

\* Estimates and forecasts of a mission stay within its budgets, however many
\* calls were refused meanwhile.
DerivedWithinBudget ==
  /\ Cardinality({k \in DOMAIN derived : derived[k].type = "causal" /\ derived[k].refutes = 0})
       <= MaxEstimates
  /\ Cardinality({k \in DOMAIN derived : derived[k].type = "prediction"}) <= MaxForecasts

\* "Higher breadth widens the window, it does not refuse evidence that would have
\* passed at breadth 0": with budget left, two breadths get the same answer.
WiderNeverRefuses ==
  \A m, n \in DOMAIN replies :
    /\ replies[m].tool = "estimate" /\ ~replies[m].spent
    /\ replies[n].tool = "estimate" /\ ~replies[n].spent
    => replies[m].refused = replies[n].refused

\* An effect rests on enough days, none older than its window, on each of which the
\* treatment, the outcome and every cause it controls for were measured.
EffectIsObserved ==
  \A k \in DOMAIN derived :
    derived[k].type = "causal" /\ derived[k].effect =>
      /\ Cardinality(derived[k].frame.days) >= MinObservations
      /\ \A d \in derived[k].frame.days, m \in {Treatment, Outcome} \cup derived[k].frame.causes :
           /\ d + HistoryBase * (1 + derived[k].breadth) >= AsOf
           /\ \E i \in Known(DOMAIN history) : history[i].day = d /\ history[i].metric = m

\* Confounders that were measured in the window are left out exactly when the
\* artifact warns of it.
TruncationIsTold ==
  \A k \in DOMAIN derived :
    derived[k].type = "causal" /\ derived[k].frame.days # {} =>
      LET left == {history[i].metric : i \in InWindow(widening_for(derived[k].breadth))}
                    \ ({Treatment, Outcome} \cup derived[k].frame.causes) IN
      derived[k].frame.warned <=> left # {}

\* A refutation, of a refutation too, looks at the very observations of the
\* estimate it refutes.
RefutesTheSame ==
  \A k \in DOMAIN derived :
    derived[k].type = "causal" /\ derived[k].refutes # 0 =>
      derived[k].frame = derived[derived[k].refutes].frame

\* A lift compares two measured values, that of a row labelled as the control with
\* that of a row labelled as a treatment.
LiftIsMeasured ==
  \A k \in DOMAIN derived :
    derived[k].type = "lift" =>
      LET c == derived[k].cites[1]
          v == derived[k].cites[2] IN
      /\ ~history[c].null /\ ~history[v].null
      /\ \E i \in Controls : Variants[i].label = history[c].label
      /\ \E i \in treatments : Variants[i].label = history[v].label

\* What a finding says of the experiment's metric is of that metric and of one
\* period; the code compares labels only.
LiftIsLikeForLike ==
  \A k \in DOMAIN derived :
    derived[k].type = "lift" =>
      LET c == derived[k].cites[1]
          v == derived[k].cites[2] IN
      history[c].metric = history[v].metric /\ history[c].day = history[v].day

\* "One point per period": what models/service.py says of the series it is given.
OnePointPerPeriod ==
  \A k \in DOMAIN derived :
    derived[k].type = "prediction" =>
      \A i, j \in derived[k].points : history[i].day = history[j].day => i = j

\* A causal estimate, forecast or lift rests on observed rows, says what it
\* left out, and is refuted on the data it was made from.
DerivationsInv ==
  /\ DerivedWithinBudget
  /\ WiderNeverRefuses
  /\ EffectIsObserved
  /\ TruncationIsTold
  /\ RefutesTheSame
  /\ LiftIsMeasured
=============================================================================
