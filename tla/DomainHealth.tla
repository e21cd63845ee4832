---------------------------- MODULE DomainHealth ----------------------------
(***************************************************************************)
(* The daily snapshots of services/domain_health, over the metric states of*)
(* services/business_state: a run resolves each domain's metrics, compares *)
(* them with the snapshot before and replaces the file of the day.  A run  *)
(* may be killed anywhere and started again, on the same day too.          *)
(***************************************************************************)
EXTENDS Integers, Sequences, FiniteSets

CONSTANTS
  Domains,     \* a sequence: ALL_DOMAINS
  Profiles_,   \* [domain -> its metrics: "windowed", with "features" or "plain", and the
               \* rule on each]
  Fetches,     \* what the metrics service may send for a domain's metrics: each time
               \* rows, with nulls, or an error
  MinPoints,   \* min_points of the rolling features
  Runners,     \* processes that cron or a user may have started
  LastDay,     \* bound
  MaxKilledRuns \* bound

ASSUME HealthAssumption ==
  /\ MinPoints \in Nat /\ LastDay \in Nat \ {0} /\ MaxKilledRuns \in Nat
  /\ Domains \in Seq(DOMAIN Profiles_) /\ Domains # <<>>
  /\ \A d \in DOMAIN Profiles_ : Profiles_[d] \in Seq([class : {"windowed", "features", "plain"},
                                   rule : [below : BOOLEAN, threshold : Int]])
  /\ \A series \in Fetches : \A i \in DOMAIN series : series[i].rows \in Seq(Int)

VARIABLES
  date,    \* the end of the window asked for: as_of
  disk,    \* [domain -> [day -> the file]]
  tmp_,    \* [domain -> [day -> the temporary file]]
  runner,  \* [process -> where it is]
  killed_,
  saved    \* [domain -> the newest as_of that was saved, 0 for none]: history

healthVars == <<date, disk, tmp_, runner, killed_, saved>>

Days == 1..LastDay
DomainSet == {Domains[i] : i \in DOMAIN Domains}
Missing == -1        \* None for a value
NoFile_ == [kind |-> "absent"]
Torn == [kind |-> "torn"]
Asleep == [at |-> "idle", n |-> 0, as_of |-> 0, previous |-> NoFile_, snapshot |-> NoFile_]

HealthInit ==
  /\ date = 1 /\ killed_ = 0
  /\ disk = [d \in DomainSet |-> [t \in Days |-> NoFile_]] /\ tmp_ = disk
  /\ runner = [r \in Runners |-> Asleep]
  /\ saved = [d \in DomainSet |-> 0]

HealthTypeOK ==
  /\ date \in Days /\ killed_ \in 0..MaxKilledRuns
  /\ \A r \in Runners : runner[r].n \in 0..Len(Domains)
  /\ \A d \in DomainSet, t \in Days :
       /\ disk[d][t].kind \in {"absent", "torn", "whole"}
       /\ disk[d][t].kind = "whole" => disk[d][t].as_of = t

-----------------------------------------------------------------------------
\* fetch_series: the points are pairs of a date and a value; rows without a value
\* are left out, "never a fabricated point".  A row's place stands for its date.
fetch_series_ZeroFilled(s) ==
  {<<i, IF s.rows[i] = Missing THEN 0 ELSE s.rows[i]>> : i \in DOMAIN s.rows}
fetch_series(s) == {<<i, s.rows[i]>> : i \in {n \in DOMAIN s.rows : s.rows[n] # Missing}}
NewestPoint(points) == CHOOSE p \in points : \A q \in points : q[1] <= p[1]

\* compute_features: the delta between the last two points, as numerator and
\* denominator; min_points withhold the rolling ones.
NoDelta == <<>>
Delta(now, before) ==
  IF now = Missing \/ before = Missing \/ before = 0 THEN NoDelta ELSE <<now, before>>
period_delta_pct(points) ==
  LET earlier == points \ {NewestPoint(points)} IN
  IF earlier = {} THEN NoDelta ELSE Delta(NewestPoint(points)[2], NewestPoint(earlier)[2])
Sparse(points) == Cardinality(points) < MinPoints \/ period_delta_pct(points) = NoDelta

\* get_metric_state: an unknown metric, an error and no rows at all look alike.
get_metric_state(features, s) ==
  LET points == fetch_series(s) IN
  IF s.error \/ points = {}
  THEN [status |-> "UNAVAILABLE", actual |-> Missing, delta |-> NoDelta]
  ELSE [status |-> IF features /\ Sparse(points) THEN "PARTIAL" ELSE "OK",
        actual |-> NewestPoint(points)[2],
        delta |-> IF features THEN period_delta_pct(points) ELSE NoDelta]

\* SnapshotStore.get_latest: the newest file that can be read.
get_latest(d) ==
  LET whole == {t \in Days : disk[d][t].kind = "whole"} IN
  IF whole = {} THEN NoFile_ ELSE disk[d][CHOOSE t \in whole : \A u \in whole : u <= t]

\* DomainStateResolver.resolve
Worse_Last(status, found) ==
  CASE found = "UNAVAILABLE" -> "UNAVAILABLE" [] found = "PARTIAL" -> "DEGRADED" [] OTHER -> status
Worse(status, found) ==
  CASE found = "UNAVAILABLE" -> "UNAVAILABLE"
    [] found = "PARTIAL" /\ status = "OK" -> "DEGRADED"
    [] OTHER -> status
Status(found) ==
  LET upto[n \in 0..Len(found)] == IF n = 0 THEN "OK" ELSE Worse(upto[n - 1], found[n]) IN
  upto[Len(found)]
PreviousValue(previous, i) ==
  IF previous.kind = "absent" THEN Missing ELSE previous.metrics[i].value
Breached(rule, delta) ==
  /\ delta # NoDelta
  /\ LET change == (delta[1] - delta[2]) * 100 IN
     IF rule.below THEN change < rule.threshold * delta[2] ELSE change > rule.threshold * delta[2]
ResolvedMetrics(d, series, previous) ==
  [i \in DOMAIN Profiles_[d] |->
     LET class == Profiles_[d][i].class
         state == get_metric_state(class = "features", series[i]) IN
     [value |-> state.actual, status |-> state.status,
      delta |-> IF class = "windowed" THEN Delta(state.actual, PreviousValue(previous, i))
                ELSE state.delta]]
Resolved(d, as_of, series, previous) ==
  LET metrics == ResolvedMetrics(d, series, previous) IN
  [kind |-> "whole", as_of |-> as_of, metrics |-> metrics,
   status |-> Status([i \in DOMAIN metrics |-> metrics[i].status]),
   signals |-> {i \in DOMAIN metrics : Breached(Profiles_[d][i].rule, metrics[i].delta)},
   series |-> series, previous |-> previous.kind # "absent"]

-----------------------------------------------------------------------------
At(r, place) == runner[r].at = place
Domain(r) == Domains[runner[r].n]
Becomes(r, x) == runner' = [runner EXCEPT ![r] = x]
Put_(files, d, t, x) == [files EXCEPT ![d][t] = x]

StartRun(r) ==
  /\ At(r, "idle")
  /\ Becomes(r, [Asleep EXCEPT !.at = "reading", !.n = 1])
  /\ UNCHANGED <<date, disk, tmp_, killed_, saved>>
ReadPrevious(r) ==
  /\ At(r, "reading")
  /\ Becomes(r, [runner[r] EXCEPT !.at = "resolving", !.as_of = date,
                   !.previous = get_latest(Domain(r))])
  /\ UNCHANGED <<date, disk, tmp_, killed_, saved>>
Resolve(r, series) ==
  /\ At(r, "resolving") /\ DOMAIN series = DOMAIN Profiles_[Domain(r)]
  /\ Becomes(r, [runner[r] EXCEPT !.at = "opening", !.previous = NoFile_,
                   !.snapshot = Resolved(Domain(r), runner[r].as_of, series, runner[r].previous)])
  /\ UNCHANGED <<date, disk, tmp_, killed_, saved>>

\* One file per domain and day.
FileDay_Today(r) == date
FileDay(r) == runner[r].as_of

\* SnapshotStore.save: write_text truncates and then fills the temporary file,
\* os.replace puts it in place and raises when another run has taken it.
OpenTmp__InPlace(r) ==
  /\ At(r, "opening")
  /\ disk' = Put_(disk, Domain(r), FileDay(r), Torn)
  /\ tmp_' = Put_(tmp_, Domain(r), FileDay(r), Torn)
  /\ Becomes(r, [runner[r] EXCEPT !.at = "writing"])
  /\ UNCHANGED <<date, killed_, saved>>
OpenTmp_(r) ==
  /\ At(r, "opening")
  /\ tmp_' = Put_(tmp_, Domain(r), FileDay(r), Torn)
  /\ Becomes(r, [runner[r] EXCEPT !.at = "writing"])
  /\ UNCHANGED <<date, disk, killed_, saved>>
WriteTmp_(r) ==
  /\ At(r, "writing")
  /\ tmp_' = Put_(tmp_, Domain(r), FileDay(r), runner[r].snapshot)
  /\ Becomes(r, [runner[r] EXCEPT !.at = "replacing"])
  /\ UNCHANGED <<date, disk, killed_, saved>>
ReplaceFile(r) ==
  LET d == Domain(r)
      t == FileDay(r) IN
  /\ At(r, "replacing")
  /\ IF tmp_[d][t] = NoFile_
     THEN Becomes(r, Asleep) /\ UNCHANGED <<disk, tmp_, saved>>
     ELSE /\ disk' = Put_(disk, d, t, tmp_[d][t])
          /\ tmp_' = Put_(tmp_, d, t, NoFile_)
          /\ saved' = [saved EXCEPT ![d] = IF t > @ THEN t ELSE @]
          /\ Becomes(r, IF runner[r].n = Len(Domains) THEN Asleep
                        ELSE [Asleep EXCEPT !.at = "reading", !.n = runner[r].n + 1])
  /\ UNCHANGED <<date, killed_>>

KillRun(r) ==
  /\ ~At(r, "idle") /\ killed_ < MaxKilledRuns
  /\ killed_' = killed_ + 1
  /\ Becomes(r, Asleep)
  /\ UNCHANGED <<date, disk, tmp_, saved>>
NextDay ==
  /\ date < LastDay /\ date' = date + 1
  /\ UNCHANGED <<disk, tmp_, runner, killed_, saved>>

HealthNext ==
  \/ NextDay
  \/ \E r \in Runners :
       \/ StartRun(r) \/ ReadPrevious(r) \/ OpenTmp_(r) \/ WriteTmp_(r) \/ ReplaceFile(r) \/ KillRun(r)
       \/ \E series \in Fetches : Resolve(r, series)

-----------------------------------------------------------------------------
\* What a run has saved stays readable: however a later run of the day ends, the
\* snapshot that the next one starts from is not an older one.
LatestNeverGoesBack ==
  \A d \in DomainSet : saved[d] > 0 => get_latest(d).kind = "whole" /\ get_latest(d).as_of >= saved[d]

Readable(d, t) == disk[d][t].kind = "whole"

\* A snapshot is as bad as its worst metric, in whichever order they come.
StatusIsWorst ==
  \A d \in DomainSet, t \in Days : Readable(d, t) =>
    LET found == {disk[d][t].metrics[i].status : i \in DOMAIN Profiles_[d]} IN
    disk[d][t].status = IF "UNAVAILABLE" \in found THEN "UNAVAILABLE"
                        ELSE IF "PARTIAL" \in found THEN "DEGRADED" ELSE "OK"

\* A headline signal rests on two measured values: two rows of a daily metric,
\* or this and an earlier snapshot's value of a windowed one.
SignalIsMeasured ==
  \A d \in DomainSet, t \in Days : Readable(d, t) =>
    \A i \in disk[d][t].signals :
      LET rows == disk[d][t].series[i].rows
          delta == disk[d][t].metrics[i].delta IN
      /\ \E n \in DOMAIN rows : rows[n] = delta[1]
      /\ IF Profiles_[d][i].class = "windowed" THEN disk[d][t].previous
         ELSE \E n \in DOMAIN rows : rows[n] = delta[2]

\* A snapshot that was filed stays readable, and says neither better of its
\* domain than the metrics do nor more than was measured.
HealthInv ==
  /\ HealthTypeOK
  /\ LatestNeverGoesBack
  /\ StatusIsWorst
  /\ SignalIsMeasured
=============================================================================
