------------------------------ MODULE Evidence ------------------------------
(***************************************************************************)
(* The validator of an answer (agent/validation): the checks over the      *)
(* artifacts a mission has stored, the trust score and the verdict they    *)
(* lead to.  Tools only add artifacts, a revision included, so what the    *)
(* validator says is a function of a growing collection.                   *)
(*                                                                         *)
(* Scores are in ten-thousandths.  No check emits methodological issues    *)
(* and run_validated_mission passes no alternatives, so both are left out. *)
(***************************************************************************)
EXTENDS Integers, Sequences, FiniteSets, FiniteSetsExt

CONSTANTS
  Kinds,          \* the artifacts a tool may store
  Scopes,         \* what a question may demand: sets of candidate dimensions
  MinRows,        \* policy.MIN_OBSERVATION_ROWS
  MaxArtifacts    \* bound: artifacts of one mission

ASSUME EvidenceAssumption ==
  /\ MinRows \in Nat /\ MaxArtifacts \in Nat
  /\ \A k \in Kinds : /\ k.type = "evidence" /\ k.parses /\ ~k.null => k.value \in Int
                      /\ k.type = "causal" /\ k.parses => k.passed \in Nat

VARIABLES
  artifacts,  \* the mission's artifacts, in the order they were stored
  demanded    \* required_scope.breakdowns and value_filters

evidenceVars == <<artifacts, demanded>>

EvidenceInit == artifacts = <<>> /\ demanded \in Scopes

\* ArtifactStore.put: an artifact is never changed or removed.
Store(k) ==
  /\ Len(artifacts) < MaxArtifacts
  /\ artifacts' = Append(artifacts, k)
  /\ UNCHANGED demanded
EvidenceNext == \E k \in Kinds : Store(k)

-----------------------------------------------------------------------------
\* Policy: the thresholds and profiles of toolsets/policy_config.py.
CONTRADICTION_TOLERANCE == 500
MIN_REFUTATIONS == 2
TRUST_BLOCKING_CAP == 3000
TRUST_REVISE_BELOW_Tightened == 8500
TRUST_REVISE_BELOW == 5500
TRUST_LABEL_THRESHOLDS == [WEAK |-> 3500, PROBABLE |-> 5500, STRONG |-> 7200,
                           VERIFIED |-> 9000]
TRUST_PROFILES ==
  [numeric |-> <<<<"source_reliability", 25>>, <<"metric_validity", 25>>, <<"freshness", 20>>,
                 <<"provenance_completeness", 20>>, <<"cross_source_agreement", 10>>>>,
   causal |-> <<<<"evidence_quality", 15>>, <<"temporal_validity", 15>>,
                <<"graph_plausibility", 15>>, <<"confounder_coverage", 15>>,
                <<"estimator_validity", 10>>, <<"refutation_robustness", 15>>,
                <<"alternative_elimination", 10>>, <<"cross_source_agreement", 5>>>>,
   forecast |-> <<<<"model_applicability", 25>>, <<"backtest_quality", 20>>,
                  <<"drift_status", 25>>, <<"calibration", 10>>, <<"feature_freshness", 10>>,
                  <<"interval_quality", 10>>>>,
   default |-> <<<<"evidence_quality", 40>>, <<"provenance_completeness", 30>>,
                 <<"cross_source_agreement", 30>>>>]
\* The signals that feed a dimension, where it is not the one of its own name.
_DIMENSION_SIGNALS(d) ==
  CASE d = "evidence_quality" -> <<"evidence_quality", "statistical_strength">>
    [] d = "source_reliability" -> <<"provenance_completeness", "cross_source_agreement">>
    [] d = "freshness" -> <<"evidence_quality">>
    [] d = "calibration" -> <<"forecast_quality">>
    [] d = "feature_freshness" -> <<"evidence_quality", "forecast_quality">>
    [] OTHER -> <<d>>

\* The sum of a list, and its mean over the n entries that count.
TotalOf(list) ==
  LET upto[i \in 0..Len(list)] == IF i = 0 THEN 0 ELSE upto[i - 1] + list[i] IN
  upto[Len(list)]
MeanOf(list, n) == IF n = 0 THEN 0 ELSE TotalOf(list) \div n

-----------------------------------------------------------------------------
\* The checks.  blocking, gap and warning: a blocking challenge, a blocking
\* gap, a warning of one of REVISE_CATEGORIES.
Checked == [status |-> "OK", blocking |-> FALSE, gap |-> FALSE, warning |-> FALSE,
            signals |-> <<>>]
NotApplicable == [Checked EXCEPT !.status = "NOT_APPLICABLE"]

Claims(as) == {i \in DOMAIN as : as[i].type # "plan"}
Of(as, type) == {i \in Claims(as) : as[i].type = type}
Valued(as) == {i \in Of(as, "evidence") : ~as[i].null}

claim_type_for(as) ==
  IF Of(as, "causal") # {} THEN "causal"
  ELSE IF Of(as, "prediction") # {} THEN "forecast"
  ELSE IF Of(as, "evidence") \cup Of(as, "finding") # {} THEN "numeric"
  ELSE "default"

check_evidence(as) ==
  LET rows == Of(as, "evidence")
      nulls == rows # Valued(as)
      stale == \E i \in Valued(as) : as[i].stale
      thin == Cardinality(Valued(as)) < MinRows
  IN IF Claims(as) = {} THEN NotApplicable
     ELSE IF \E i \in rows : ~as[i].parses
     THEN [Checked EXCEPT !.status = "REJECTED", !.blocking = TRUE]
     ELSE IF Valued(as) = {}
     THEN [Checked EXCEPT !.status = "INSUFFICIENT", !.gap = TRUE,
                          !.signals = [evidence_quality |-> 0]]
     ELSE [Checked EXCEPT
             !.status = IF thin THEN "WEAK" ELSE "OK", !.warning = stale,
             !.signals = [evidence_quality |->
                10000 - (IF nulls THEN 1500 ELSE 0) - (IF stale THEN 2500 ELSE 0)
                      - (IF thin THEN 2000 ELSE 0)]]

\* Artifact.require_provenance, of everything that is not for the UI.
check_provenance_Latest(as) ==
  CASE Claims(as) = {} -> NotApplicable
    [] Len(as) \in Claims(as) /\ ~as[Len(as)].sourced ->
         [Checked EXCEPT !.status = "REJECTED", !.blocking = TRUE,
                         !.signals = [provenance_completeness |-> 0]]
    [] OTHER -> [Checked EXCEPT !.signals = [provenance_completeness |-> 10000]]
check_provenance(as) ==
  CASE Claims(as) = {} -> NotApplicable
    [] \E i \in Claims(as) : ~as[i].sourced ->
         [Checked EXCEPT !.status = "REJECTED", !.blocking = TRUE,
                         !.signals = [provenance_completeness |-> 0]]
    [] OTHER -> [Checked EXCEPT !.signals = [provenance_completeness |-> 10000]]

\* Rows of one metric, period and set of dimensions whose values differ by more
\* than the tolerance of the larger one.  It applies to every mission.
Disagree(as, i, j) ==
  /\ as[i].parses /\ as[j].parses /\ as[i].dims = as[j].dims
  /\ (as[i].value - as[j].value) * 10000 > CONTRADICTION_TOLERANCE * as[i].value
check_contradiction(as) ==
  LET worst == \E i, j \in Valued(as) : Disagree(as, i, j) IN
  [Checked EXCEPT !.warning = worst,
                  !.signals = [cross_source_agreement |-> IF worst THEN 4000 ELSE 8500]]

Refuted(as, i) == IF as[i].passed >= MIN_REFUTATIONS THEN 10000
                  ELSE (as[i].passed * 10000) \div MIN_REFUTATIONS
check_causal(as) ==
  LET rows == Of(as, "causal")
      good == {i \in rows : as[i].parses} IN
  IF rows = {} THEN NotApplicable
  ELSE [status |-> IF good = rows THEN "OK" ELSE "REJECTED",
        blocking |-> good # rows, gap |-> FALSE,
        warning |-> \E i \in good : as[i].supported /\ as[i].passed < MIN_REFUTATIONS,
        signals |-> IF good = {} THEN <<>> ELSE
          [estimator_validity |-> 10000,
           refutation_robustness |->
             MeanOf([i \in DOMAIN as |-> IF i \in good THEN Refuted(as, i) ELSE 0],
                    Cardinality(good))]]

check_prediction(as) ==
  LET rows == Of(as, "prediction")
      good == {i \in rows : as[i].parses}
      leaky == \E i \in good : ~as[i].leakage_checked IN
  IF rows = {} THEN NotApplicable
  ELSE [status |-> IF good = rows THEN "OK" ELSE "REJECTED",
        blocking |-> good # rows, gap |-> FALSE, warning |-> leaky,
        signals |-> [model_applicability |-> IF leaky THEN 5000 ELSE 10000,
                     interval_quality |->
                       (10000 * Cardinality({i \in good : as[i].interval}))
                         \div Cardinality(rows)]]

\* Every demanded breakdown or named value is a dimension of some evidence.
check_scope_coverage(as, scope) ==
  LET grouped == UNION {as[i].dims : i \in {j \in Of(as, "evidence") : as[j].parses}} IN
  IF scope = {} \/ Of(as, "evidence") = {} THEN NotApplicable
  ELSE IF \E candidates \in scope : candidates \cap grouped = {}
  THEN [Checked EXCEPT !.status = "INSUFFICIENT", !.gap = TRUE]
  ELSE Checked

run_checks(as, scope) ==
  {c \in {check_evidence(as), check_provenance(as), check_contradiction(as),
          check_causal(as), check_prediction(as), check_scope_coverage(as, scope)} :
     c.status # "NOT_APPLICABLE"}

-----------------------------------------------------------------------------
\* score_trust: the weighted mean of the dimensions that some signal feeds.  One
\* low reading of a signal is not averaged away.
Signals(outcomes) ==
  [n \in {"alternative_elimination"} \cup UNION {DOMAIN c.signals : c \in outcomes} |->
     Min({10000} \cup {c.signals[n] : c \in {o \in outcomes : n \in DOMAIN o.signals}})]
Feeders(s, d) == {i \in DOMAIN _DIMENSION_SIGNALS(d) : _DIMENSION_SIGNALS(d)[i] \in DOMAIN s}
Component(s, d) ==
  MeanOf([i \in DOMAIN _DIMENSION_SIGNALS(d) |->
            IF i \in Feeders(s, d) THEN s[_DIMENSION_SIGNALS(d)[i]] ELSE 0],
         Cardinality(Feeders(s, d)))
score_trust(outcomes, type) ==
  LET s == Signals(outcomes)
      profile == TRUST_PROFILES[type]
      weights == [i \in DOMAIN profile |->
                    IF Feeders(s, profile[i][1]) = {} THEN 0 ELSE profile[i][2]]
      score == MeanOf([i \in DOMAIN profile |-> weights[i] * Component(s, profile[i][1])],
                      TotalOf(weights))
  IN IF \E c \in outcomes : c.blocking THEN Min({score, TRUST_BLOCKING_CAP}) ELSE score
label_for(score) == {n \in DOMAIN TRUST_LABEL_THRESHOLDS : score >= TRUST_LABEL_THRESHOLDS[n]}

decide_verdict_NoGaps(outcomes, score) ==
  IF \E c \in outcomes : c.status = "REJECTED" \/ c.blocking THEN "REJECT"
  ELSE IF (\E c \in outcomes : c.warning) \/ score < TRUST_REVISE_BELOW THEN "REVISE"
  ELSE "PASS"
decide_verdict(outcomes, score) ==
  IF \E c \in outcomes : c.status = "REJECTED" \/ c.blocking THEN "REJECT"
  ELSE IF \/ \E c \in outcomes :
               c.gap \/ c.warning \/ c.status \in {"UNAVAILABLE", "INSUFFICIENT"}
          \/ score < TRUST_REVISE_BELOW
  THEN "REVISE"
  ELSE "PASS"

\* EvidenceValidator.score, and validate, whose structural gates come first.
TrustIn(as, scope) == score_trust(run_checks(as, scope), claim_type_for(as))
VerdictOn(as, scope) == decide_verdict(run_checks(as, scope), TrustIn(as, scope))
validate(as, scope) ==
  IF \E i \in Of(as, "causal") : ~as[i].parses THEN "invalid" ELSE VerdictOn(as, scope)

-----------------------------------------------------------------------------
\* A PASS is backed: what was concluded rests on a value that was fetched, no
\* two values of one thing disagree, a causal claim survived its refutations,
\* and everything the question asked to be broken down by is broken down.
PassIsBacked ==
  validate(artifacts, demanded) = "PASS" =>
    /\ Claims(artifacts) # {} => Valued(artifacts) # {}
    /\ \A i, j \in Valued(artifacts) :
         artifacts[i].dims = artifacts[j].dims =>
           artifacts[i].value * 95 <= artifacts[j].value * 100
    /\ \A i \in Of(artifacts, "causal") : artifacts[i].supported => artifacts[i].passed >= 2
    /\ Valued(artifacts) # {} =>
         \A c \in demanded : \E i \in Of(artifacts, "evidence") : c \cap artifacts[i].dims # {}

\* "Re-prompting spends a revision to get the same rejection": whatever a
\* revision stores in addition, a rejected mission stays rejected.
RejectIsFinal ==
  [][evidenceVars' # evidenceVars /\ VerdictOn(artifacts, demanded) = "REJECT" =>
       VerdictOn(artifacts', demanded') = "REJECT"]_evidenceVars

\* "a REVISE on a STRONG claim can only come from a gap, an unresolved
\* alternative, or a warning - never from the trust score itself", and what a
\* blocking challenge rejects never carries a trust label.
TwoSignals ==
  LET checks == run_checks(artifacts, demanded)
      labels == label_for(TrustIn(artifacts, demanded))
      verdict == VerdictOn(artifacts, demanded) IN
  /\ verdict = "REVISE" /\ "STRONG" \in labels => \E c \in checks : c.gap \/ c.warning
  /\ (\E c \in checks : c.blocking) => verdict = "REJECT" /\ labels = {}

\* The verdict follows the evidence: a pass is backed, and one weak signal
\* alone does not send an answer back.
EvidenceInv ==
  /\ PassIsBacked
  /\ TwoSignals
=============================================================================
