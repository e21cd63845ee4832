------------------------------ MODULE Analytics ------------------------------
(***************************************************************************)
(* The calculations over fetched evidence (toolsets/analytics.py and       *)
(* analytics/): each tool is handed rows the model chose, in an order the  *)
(* model chose, and either refuses them or writes findings that cite them. *)
(*                                                                         *)
(* A row is one EvidenceArtifact: its metric, its value of the dimension   *)
(* (or ""), the first day and the number of days of its period, its grain  *)
(* and its value, which may be missing.  Medians are doubled and shares    *)
(* are in percent, so that everything is an integer.                       *)
(***************************************************************************)
EXTENDS Integers, Sequences, FiniteSets, FiniteSetsExt, SequencesExt

CONSTANTS
  Rows,         \* the evidence there may be
  MaxRows,      \* rows given to one call
  MinShare,     \* MIN_SEGMENT_SHARE, in percent
  MaxSegments,  \* MAX_SEGMENTS_REPORTED
  FUNNEL_STEPS  \* metrics, the sessions first

ASSUME AnalyticsAssumption ==
  /\ MaxRows \in Nat /\ MinShare \in 0..100 /\ MaxSegments \in Nat
  /\ FUNNEL_STEPS \in Seq(STRING)
  /\ \A r \in Rows : r.start \in Int /\ r.value \in Int

VARIABLES given, computed, reported

analyticsVars == <<given, computed, reported>>

AnalyticsInit ==
  /\ given \in UNION {[1..n -> Rows] : n \in 0..MaxRows}
  /\ computed = "none" /\ reported = {}

-----------------------------------------------------------------------------
Abs(n) == IF n < 0 THEN -n ELSE n
Period(i) == <<given[i].start, given[i].span>>
Periods == {Period(i) : i \in DOMAIN given}
\* The period of the first row is period A.
InPeriod(p) == {i \in DOMAIN given : Period(i) = p}
PeriodA == Period(1)
PeriodB == CHOOSE p \in Periods : p # PeriodA
Measured(is) == {i \in is : ~given[i].null}
\* The last row of a key wins.
LastOf(is) == CHOOSE i \in is : \A j \in is : j <= i

\* The sum of the values of some rows, in their order.
SumOf(is) ==
  LET w == [i \in DOMAIN given |-> IF i \in is THEN given[i].value ELSE 0]
      upto[i \in 0..Len(given)] == IF i = 0 THEN 0 ELSE upto[i - 1] + w[i] IN
  upto[Len(given)]

\* The sum of the two middle values.
Ranked(is) == SetToSortSeq(is, LAMBDA i, j :
                \/ given[i].value < given[j].value
                \/ (given[i].value = given[j].value /\ i < j))
Median2(is) ==
  LET s == Ranked(is)
      n == Len(s) IN
  given[s[(n + 1) \div 2]].value + given[s[(n + 2) \div 2]].value

Finding(kind, metric, label, cites, value) ==
  [kind |-> kind, metric |-> metric, label |-> label, cites |-> cites, value |-> value]

\* _load_evidence wants at least one row; an empty set is no grain mismatch.
_ALLOWED_SPAN_DAYS == [day |-> 1..1, week |-> 7..7, month |-> 28..31]
validate_grain_set_OneGrain(is) ==
  \A i, j \in is : given[i].grain = given[j].grain
validate_grain_set(is) ==
  /\ \A i, j \in is : given[i].grain = given[j].grain
  /\ \A i \in is : given[i].grain \in DOMAIN _ALLOWED_SPAN_DAYS =>
       given[i].span \in _ALLOWED_SPAN_DAYS[given[i].grain]
  /\ \A i, j \in is : given[i].span = given[j].span
Usable == given # <<>> /\ validate_grain_set(DOMAIN given)

-----------------------------------------------------------------------------
(* compare_periods                                                         *)

pair_key(i) == <<given[i].metric, given[i].label>>
period_deltas ==
  LET of(p, k) == {i \in InPeriod(p) : pair_key(i) = k}
      keys == {k \in {pair_key(i) : i \in DOMAIN given} :
                 /\ of(PeriodA, k) # {} /\ of(PeriodB, k) # {}
                 /\ ~given[LastOf(of(PeriodA, k))].null /\ ~given[LastOf(of(PeriodB, k))].null} IN
  {LET a == LastOf(of(PeriodA, k))
       b == LastOf(of(PeriodB, k)) IN
   Finding("comparison", k[1], k[2], {a, b}, given[a].value - given[b].value) : k \in keys}
compare_periods == IF Usable /\ Cardinality(Periods) = 2 THEN period_deltas ELSE {}

-----------------------------------------------------------------------------
(* detect_anomalies: |z| >= 3 with sigma = 1.4826 MAD, and any move at all *)
(* from a history that is flat.                                            *)

robust_zscore(history, i) ==
  LET median2 == Median2(history)
      off(j) == Abs(2 * given[j].value - median2)
      ranked == SetToSortSeq(history, LAMBDA j, k : off(j) < off(k) \/ (off(j) = off(k) /\ j < k))
      n == Len(ranked)
      mad4 == off(ranked[(n + 1) \div 2]) + off(ranked[(n + 2) \div 2]) IN
  IF mad4 = 0 THEN off(i) # 0 ELSE 2 * off(i) * 10000 >= 3 * 14826 * mad4

_group_by_series_MetricOnly(is) == {{j \in is : given[j].metric = given[i].metric} : i \in is}
_group_by_series(is) == {{j \in is : pair_key(j) = pair_key(i)} : i \in is}
\* The latest of a series, the last given of equals (sorted is stable).
Latest(is) == CHOOSE i \in is : \A j \in is :
                \/ given[j].start < given[i].start
                \/ (given[j].start = given[i].start /\ j <= i)
detect_anomalies ==
  IF ~Usable THEN {}
  ELSE {Finding("anomaly", given[Latest(s)].metric, given[Latest(s)].label, s, given[Latest(s)].value) :
          s \in {m \in {Measured(g) : g \in _group_by_series(DOMAIN given)} :
                   Cardinality(m) >= 2 /\ robust_zscore(m \ {Latest(m)}, Latest(m))}}

-----------------------------------------------------------------------------
(* contribution_analysis and segment_decomposition                         *)

_segments_for_period(p) == {i \in InPeriod(p) : given[i].label # ""}
SegmentPeriods == {p \in Periods : _segments_for_period(p) # {}}

\* What is kept, largest first; the small and the surplus are "other" and stay
\* in the total.
shares_OfTheKept(is) ==
  LET total == SumOf(Measured(is))
      kept == {i \in Measured(is) : Abs(given[i].value) * 100 >= MinShare * Abs(total)} IN
  [total |-> SumOf(kept),
   kept |-> IF total = 0 THEN {} ELSE kept, other |-> 0]
shares(is) ==
  LET total == SumOf(Measured(is))
      larger(i) == {j \in Measured(is) : Abs(given[j].value) > Abs(given[i].value)
                                          \/ (Abs(given[j].value) = Abs(given[i].value) /\ j < i)}
      kept == {i \in Measured(is) : /\ Abs(given[i].value) * 100 >= MinShare * Abs(total)
                                    /\ Cardinality(larger(i)) < MaxSegments} IN
  [total |-> total, kept |-> IF total = 0 THEN {} ELSE kept,
   other |-> IF total = 0 THEN 0
             ELSE SumOf(Measured(is) \ kept)]

\* Segments are paired by their label; each row of period A gives one.
contributions_Newer(pa, pb) ==
  LET b(i) == {j \in Measured(_segments_for_period(pb)) : given[j].label = given[i].label} IN
  {Finding("contribution", given[1].metric, given[i].label, {i, LastOf(b(i))},
           given[LastOf(b(i))].value - given[i].value) :
     i \in {x \in Measured(_segments_for_period(pa)) : b(x) # {}}}
contributions(pa, pb) ==
  LET b(i) == {j \in Measured(_segments_for_period(pb)) : given[j].label = given[i].label} IN
  {Finding("contribution", given[1].metric, given[i].label, {i, LastOf(b(i))},
           given[i].value - given[LastOf(b(i))].value) :
     i \in {x \in Measured(_segments_for_period(pa)) : b(x) # {}}}

\* The first period of the segments is that of the first labelled row.
contribution_analysis ==
  LET first == Period(CHOOSE i \in DOMAIN given :
                 given[i].label # "" /\ \A j \in 1..(i - 1) : given[j].label = "")
      s == shares(_segments_for_period(first)) IN
  IF ~Usable \/ SegmentPeriods = {} \/ Cardinality(SegmentPeriods) > 2 THEN {}
  ELSE IF Cardinality(SegmentPeriods) = 2
  THEN contributions(first, CHOOSE p \in SegmentPeriods : p # first)
  ELSE {Finding("share", given[1].metric, given[i].label, {i}, given[i].value) : i \in s.kept}

segment_decomposition ==
  IF ~Usable \/ Cardinality(SegmentPeriods) # 1 THEN {}
  ELSE LET s == shares(_segments_for_period(CHOOSE p \in SegmentPeriods : TRUE)) IN
       IF s.kept = {} THEN {}
       ELSE {Finding("decomposition", given[1].metric, "", s.kept, s.total)}

-----------------------------------------------------------------------------
(* funnel_decomposition and cohort_analysis                                *)

\* The readings of the declared steps, the last of a metric, and those of them
\* that follow one another in the declared order.
Steps == {FUNNEL_STEPS[n] : n \in DOMAIN FUNNEL_STEPS}
reading(m) == {i \in DOMAIN given : ~given[i].null /\ given[i].metric = m}
Placed == {LastOf(reading(m)) : m \in {x \in Steps : reading(x) # {}}}
position(i) == CHOOSE n \in DOMAIN FUNNEL_STEPS : FUNNEL_STEPS[n] = given[i].metric
Precedes_AsGiven(i, j) == i < j
Precedes(i, j) == position(i) < position(j)
ordered_steps ==
  {p \in Placed \X Placed :
     Precedes(p[1], p[2]) /\ ~\E k \in Placed : Precedes(p[1], k) /\ Precedes(k, p[2])}
\* The base step is a count: all of it survives.  Rates are in percent, and so is
\* the share that gets from one step to the next.
Rate(i) == IF given[i].metric = FUNNEL_STEPS[1] THEN 100 ELSE given[i].value
transitions(pairs) ==
  {Finding("transition", given[p[2]].metric, given[p[1]].metric,
           Placed, (100 * Rate(p[2])) \div Rate(p[1])) : p \in {q \in pairs : Rate(q[1]) # 0}}
funnel_decomposition ==
  IF ~Usable \/ Cardinality(Placed) < 2 THEN {} ELSE transitions(ordered_steps)

cohort_spread_ZeroFilled(is) == is
cohort_spread(is) == Measured(is)
cohort_analysis ==
  LET cohorts == cohort_spread(DOMAIN given) IN
  IF ~Usable \/ Cardinality(cohorts) < 2 THEN {}
  ELSE {Finding("cohort", given[1].metric, given[i].label, {i},
                2 * given[i].value - Median2(cohorts)) : i \in cohorts}

-----------------------------------------------------------------------------
Calculate(name, findings) ==
  /\ computed = "none" /\ computed' = name /\ reported' = findings /\ UNCHANGED given
AnalyticsNext ==
  \/ Calculate("compare_periods", compare_periods)
  \/ Calculate("detect_anomalies", detect_anomalies)
  \/ Calculate("contribution_analysis", contribution_analysis)
  \/ Calculate("segment_decomposition", segment_decomposition)
  \/ Calculate("funnel_decomposition", funnel_decomposition)
  \/ Calculate("cohort_analysis", cohort_analysis)

-----------------------------------------------------------------------------
\* A finding never sets a sum over several days against a day ("a false +208%
\* spike"): what it cites has one grain and one span, and a daily row is a day.
LikeForLike ==
  \A f \in reported : \A i, j \in f.cites :
    /\ given[i].grain = given[j].grain /\ given[i].span = given[j].span
    /\ given[i].grain = "day" => given[i].span = 1

\* A series is scored against its own history and never pooled: an anomaly cites
\* one metric and one slice, and its value is of the latest period.
NeverPooled ==
  \A f \in reported : f.kind \in {"anomaly", "comparison"} =>
    /\ \A i, j \in f.cites : pair_key(i) = pair_key(j)
    /\ f.kind = "anomaly" => \E i \in f.cites :
         given[i].value = f.value /\ \A j \in f.cites : given[j].start <= given[i].start

\* A row without a value is not a zero: no finding stands on one.
NullIsNotZero == \A f \in reported : \A i \in f.cites : ~given[i].null

\* The two tools agree which way a metric moved: for labelled rows of one metric,
\* each label at most once a period, the contributions are the comparison.
OneSeries ==
  /\ Usable /\ Cardinality(Periods) = 2
  /\ \A i, j \in DOMAIN given :
       /\ given[i].label # "" /\ given[i].metric = given[j].metric
       /\ i # j => given[i].label # given[j].label \/ Period(i) # Period(j)
SameDirection ==
  computed = "contribution_analysis" /\ OneSeries =>
    {<<f.label, f.value>> : f \in reported} = {<<f.label, f.value>> : f \in compare_periods}

\* The parts make the whole: the shares reported and the rest that was folded
\* together are the total, and the whole is what was measured.
PartsAddUp ==
  computed = "contribution_analysis" /\ Usable /\ Cardinality(SegmentPeriods) = 1 =>
    LET is == _segments_for_period(CHOOSE p \in SegmentPeriods : TRUE)
        s == shares(is) IN
    /\ s.total = SumOf(Measured(is))
    /\ s.kept # {} => s.total = s.other + SumOf(s.kept)
    /\ Cardinality(s.kept) <= MaxSegments

\* The funnel is walked down and never back, in whatever order the rows came.
FunnelGoesDown ==
  \A f \in reported : f.kind = "transition" =>
    \E m, n \in 1..Len(FUNNEL_STEPS) :
      m < n /\ FUNNEL_STEPS[m] = f.label /\ FUNNEL_STEPS[n] = f.metric

\* "Silently computing over a subset ... is how a finding ends up citing evidence
\* that didn't back it": the evidence of a finding is of the metric it names.
FindingIsBacked ==
  \A f \in reported : f.kind # "transition" => \A i \in f.cites : given[i].metric = f.metric

\* A finding is computed from rows that may be compared, whatever rows the
\* model cites, and its parts, signs and order add up.
AnalyticsInv ==
  /\ LikeForLike
  /\ NeverPooled
  /\ NullIsNotZero
  /\ SameDirection
  /\ PartsAddUp
  /\ FunnelGoesDown
=============================================================================
