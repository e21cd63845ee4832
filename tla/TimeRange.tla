------------------------------ MODULE TimeRange ------------------------------
(***************************************************************************)
(* The dates a question is about (services/time_range.py): the window read *)
(* from the words of the question, and the window a classified time range  *)
(* is resolved to when the data is fetched, perhaps on the next day.       *)
(*                                                                         *)
(* A date is the number of a day; the words of a question are the phrases  *)
(* the patterns look for, in order.                                        *)
(***************************************************************************)
EXTENDS Integers, Sequences, FiniteSets

CONSTANTS
  FirstYear, LastYear,  \* the years the calendar covers
  Anchors,              \* the days on which a question is asked: <<y, m, d>>
  Phrasings             \* the questions: sequences of phrases [kind, n, a, b]

ASSUME CalendarAssumption == FirstYear \in Nat \ {0} /\ LastYear \in Nat

VARIABLES
  asked,     \* the day the question is asked
  today,     \* the day it is
  phrases,   \* the question
  window,    \* the window read from it
  resolved   \* and the window the data is fetched for

timeVars == <<asked, today, phrases, window, resolved>>

-----------------------------------------------------------------------------
(* The calendar (datetime, calendar.monthrange).                           *)

Leap(y) == (y % 4 = 0 /\ y % 100 # 0) \/ y % 400 = 0
monthrange(y, m) == CASE m \in {4, 6, 9, 11} -> 30
                      [] m = 2 -> IF Leap(y) THEN 29 ELSE 28
                      [] OTHER -> 31
\* Day 1 is 1 January 0001, a Monday.
Day(y, m, d) ==
  LET b == y - 1
      before == <<0, 31, 59, 90, 120, 151, 181, 212, 243, 273, 304, 334>> IN
  365 * b + b \div 4 - b \div 100 + b \div 400
    + before[m] + (IF m > 2 /\ Leap(y) THEN 1 ELSE 0) + d
Dates == {t \in (FirstYear..LastYear) \X (1..12) \X (1..31) : t[3] <= monthrange(t[1], t[2])}
Calendar == [n \in {Day(t[1], t[2], t[3]) : t \in Dates} |->
               CHOOSE t \in Dates : Day(t[1], t[2], t[3]) = n]
\* The calendar covers the year before a question and the one after it.
ASSUME AnchorsAssumption ==
  \A t \in Anchors : t \in Dates /\ FirstYear < t[1] /\ t[1] < LastYear
Year(n) == Calendar[n][1]
Month(n) == Calendar[n][2]
DayOfMonth(n) == Calendar[n][3]
weekday(n) == (n - 1) % 7

_sub_months_Plain(n, k) ==
  LET total == Year(n) * 12 + Month(n) - 1 - k IN
  Day(total \div 12, (total % 12) + 1, 1) + DayOfMonth(n) - 1
_sub_months(n, k) ==
  LET total == Year(n) * 12 + Month(n) - 1 - k
      y == total \div 12
      m == (total % 12) + 1
      last == monthrange(y, m) IN
  Day(y, m, IF DayOfMonth(n) < last THEN DayOfMonth(n) ELSE last)
MonthStart(n) == Day(Year(n), Month(n), 1)
YearStart(n) == Day(Year(n), 1, 1)
_month_range(y, m) == <<Day(y, m, 1), Day(y, m, monthrange(y, m))>>

-----------------------------------------------------------------------------
(* TimeRangeV1.  The token is what relative_token says; 0 stands for None. *)

NoToken == <<"none", 0>>
Absolute(a, b, token) == [kind |-> "absolute", start |-> a, end |-> b,
                          start_b |-> 0, end_b |-> 0, token |-> token]
Comparison(a, b, c, d, token) == [kind |-> "comparison", start |-> a, end |-> b,
                                  start_b |-> c, end_b |-> d, token |-> token]
NoWindow == [kind |-> "none", start |-> 0, end |-> 0, start_b |-> 0, end_b |-> 0, token |-> NoToken]

_period_vs_prior(n, unit) ==
  CASE unit = "week" -> LET monday == n - weekday(n) IN <<monday, n, monday - 7, n - 7>>
    [] unit = "month" -> LET prior == _sub_months(n, 1) IN
                         <<MonthStart(n), n, MonthStart(prior), prior>>
    [] OTHER -> LET prior == _sub_months(n, 12) IN
                <<YearStart(n), n, YearStart(prior), prior>>

Clamped_NoFloor(k) == IF k > 90 THEN 90 ELSE k
Clamped(k) == IF k > 90 THEN 90 ELSE IF k < 1 THEN 1 ELSE k

\* Where the phrases of one kind are, and what the first of the kinds says.
ASSUME PhrasesAssumption ==
  \A ps \in Phrasings :
    /\ ps \in Seq([kind: STRING, n: Nat, a: Nat, b: Nat])
    /\ \A i \in DOMAIN ps :
         /\ ps[i].kind \in {"range", "named_month", "date"} => ps[i].a > 0
         /\ ps[i].kind = "range" => ps[i].b > 0
         /\ ps[i].kind = "named_month" => ps[i].b \in 1..12
OfKind(ps, kind) == {i \in DOMAIN ps : ps[i].kind = kind}
Earliest(is) == CHOOSE i \in is : \A j \in is : i <= j
Has(ps, kind) == OfKind(ps, kind) # {}
FirstOf(kinds, ps) == CHOOSE i \in 1..Len(kinds) :
                        Has(ps, kinds[i]) /\ \A j \in 1..(i - 1) : ~Has(ps, kinds[j])
LastN == <<"last_d", "last_w", "last_m", "last_q">>
Units == <<"week", "month", "year">>
Words == <<"yesterday", "today", "this_month", "this_week", "this_year">>
Some(kinds, ps) == \E i \in 1..Len(kinds) : Has(ps, kinds[i])

\* Ranges before named months before single days: two or more are a comparison
\* of the first two, one is a window.
ExplicitKinds == <<"range", "named_month", "date">>
Spoken(p) == CASE p.kind = "range" -> <<p.a, p.b>>
               [] p.kind = "named_month" -> _month_range(p.a, p.b)
               [] OTHER -> <<p.a, p.a>>
Explicit(ps, kind) ==
  LET is == OfKind(ps, kind)
      s == Spoken(ps[Earliest(is)])
      t == Spoken(ps[Earliest(is \ {Earliest(is)})]) IN
  IF is = {Earliest(is)} THEN Absolute(s[1], s[2], NoToken)
  ELSE Comparison(s[1], s[2], t[1], t[2], NoToken)

\* The first that matches wins.
window_from_query(ps, n) ==
  IF Some(LastN, ps)
  THEN LET kind == LastN[FirstOf(LastN, ps)]
           said == ps[Earliest(OfKind(ps, kind))].n
           k == IF kind = "last_d" THEN Clamped(said) ELSE said
           start == CASE kind = "last_d" -> n - (k - 1)
                      [] kind = "last_w" -> n - 7 * k
                      [] kind = "last_m" -> _sub_months(n, k)
                      [] OTHER -> _sub_months(n, 3 * k) IN
       Absolute(start, n, <<kind, k>>)
  ELSE IF Some(ExplicitKinds, ps) THEN Explicit(ps, ExplicitKinds[FirstOf(ExplicitKinds, ps)])
  ELSE IF Has(ps, "verb") /\ Some(Units, ps)
  THEN LET unit == Units[FirstOf(Units, ps)]
           w == _period_vs_prior(n, unit) IN
       Comparison(w[1], w[2], w[3], w[4], <<unit, 0>>)
  ELSE IF Some(Words, ps)
  THEN LET word == Words[FirstOf(Words, ps)] IN
       CASE word = "yesterday" -> Absolute(n - 1, n - 1, <<word, 0>>)
         [] word = "today" -> Absolute(n, n, <<word, 0>>)
         [] word = "this_month" -> Absolute(MonthStart(n), n, <<word, 0>>)
         [] word = "this_week" -> Absolute(n - weekday(n), n, <<word, 0>>)
         [] OTHER -> Absolute(YearStart(n), n, <<word, 0>>)
  ELSE NoWindow

\* The tokens once more, for a range that was classified and not read.
Relative_FullWeeks(token, n) ==
  LET k == token[2] IN
  CASE token[1] = "last_d" -> Absolute(n - (Clamped(k) - 1), n, token)
    [] token[1] = "last_w" -> Absolute(n - 7 * k + 1, n, token)
    [] token[1] = "last_m" -> Absolute(_sub_months(n, k), n, token)
    [] token[1] = "last_q" -> Absolute(_sub_months(n, 3 * k), n, token)
    [] OTHER -> Absolute(n, n, token)
Relative(token, n) ==
  LET k == token[2] IN
  CASE token[1] = "last_d" -> Absolute(n - (Clamped(k) - 1), n, token)
    [] token[1] = "last_w" -> Absolute(n - 7 * k, n, token)
    [] token[1] = "last_m" -> Absolute(_sub_months(n, k), n, token)
    [] token[1] = "last_q" -> Absolute(_sub_months(n, 3 * k), n, token)
    [] token[1] = "today" -> Absolute(n, n, token)
    [] token[1] = "yesterday" -> Absolute(n - 1, n - 1, token)
    [] token[1] = "this_week" -> Absolute(n - weekday(n), n, token)
    [] token[1] = "this_month" -> Absolute(MonthStart(n), n, token)
    [] token[1] = "this_year" -> Absolute(YearStart(n), n, token)

\* A comparison with a token is worked out again, one with dates keeps them.
resolve_time_range_FirstOnly(r, n) ==
  CASE r.kind = "absolute" /\ r.start # 0 ->
         Absolute(r.start, IF r.end # 0 THEN r.end ELSE r.start, NoToken)
    [] r.kind = "relative" -> Relative(r.token, n)
    [] r.kind = "comparison" ->
         IF r.token[1] \in {Units[i] : i \in 1..3}
         THEN LET w == _period_vs_prior(n, r.token[1]) IN
              Comparison(w[1], w[2], r.start_b, r.end_b, r.token)
         ELSE r
    [] OTHER -> r
resolve_time_range(r, n) ==
  CASE r.kind = "absolute" /\ r.start # 0 ->
         Absolute(r.start, IF r.end # 0 THEN r.end ELSE r.start, NoToken)
    [] r.kind = "relative" -> Relative(r.token, n)
    [] r.kind = "comparison" ->
         CASE r.token[1] = "yesterday_vs_as_of" -> Comparison(n - 1, n - 1, n, n, r.token)
           [] r.token[1] \in {Units[i] : i \in 1..3} ->
                LET w == _period_vs_prior(n, r.token[1]) IN
                Comparison(w[1], w[2], w[3], w[4], r.token)
           [] OTHER -> r
    [] OTHER -> r

-----------------------------------------------------------------------------
TimeInit ==
  /\ asked \in {Day(t[1], t[2], t[3]) : t \in Anchors} /\ today = asked
  /\ phrases \in Phrasings
  /\ window = NoWindow /\ resolved = NoWindow

Read == /\ window = NoWindow /\ window' = window_from_query(phrases, today)
        /\ window'.kind # "none"
        /\ UNCHANGED <<asked, today, phrases, resolved>>
\* Midnight passes between the two: as_of_date is asked each time.
Midnight == /\ window # NoWindow /\ resolved = NoWindow /\ today = asked
            /\ today' = today + 1 /\ UNCHANGED <<asked, phrases, window, resolved>>
ResolveWindow == /\ window # NoWindow /\ resolved = NoWindow
                 /\ resolved' = resolve_time_range(window, today)
                 /\ UNCHANGED <<asked, today, phrases, window>>
TimeNext == Read \/ Midnight \/ ResolveWindow

-----------------------------------------------------------------------------
Span(w) == <<w.start, w.end, w.start_b, w.end_b>>

\* Midnight between reading and fetching never mixes two days: the dates are
\* still those of the day the question was read or all those of the day the data
\* is fetched, and an explicit or single window does not move at all.
NeverMixed ==
  resolved # NoWindow =>
    /\ Span(resolved) \in {Span(window), Span(window_from_query(phrases, today))}
    /\ window.kind = "absolute" => Span(resolved) = Span(window)

\* A token says what the words it was read from say: the two ways into the
\* module, each with code of its own, give the same dates on the same day.
TokenSaysTheSame ==
  window.kind = "absolute" /\ window.token # NoToken =>
    Span(resolve_time_range([window EXCEPT !.kind = "relative"], asked)) = Span(window)

\* A period-over-period comparison is of two disjoint spans that start where
\* their periods do, the earlier no longer than the later, and as long unless the
\* calendar is in the way (a shorter month, a leap day).
PeriodsMatch ==
  LET w == IF resolved # NoWindow THEN resolved ELSE window
      unit == w.token[1] IN
  unit \in {Units[i] : i \in 1..3} =>
    /\ w.start_b <= w.end_b /\ w.end_b < w.start /\ w.start <= w.end
    /\ unit = "week" => weekday(w.start) = 0 /\ weekday(w.start_b) = 0
    /\ unit # "week" => DayOfMonth(w.start) = 1 /\ DayOfMonth(w.start_b) = 1
    /\ unit = "month" => Month(w.end_b) = ((Month(w.end) + 10) % 12) + 1
    /\ unit = "year" => Year(w.end_b) = Year(w.end) - 1 /\ Month(w.end_b) = Month(w.end)
    /\ \/ w.end_b - w.start_b = w.end - w.start
       \/ unit = "month" /\ DayOfMonth(w.end_b + 1) = 1
       \/ unit = "year" /\ (Leap(Year(w.end)) \/ Leap(Year(w.end_b)))

\* A window of the last N days, weeks, months or quarters ends on the day it was
\* asked and is not empty; one of days has N of them, within one and ninety.
WindowIsSound ==
  window.kind = "absolute" /\ window.token # NoToken =>
    /\ window.start <= window.end /\ window.end <= today
    /\ window.token[1] = "last_d" =>
         window.end - window.start + 1 = window.token[2] /\ window.token[2] \in 1..90

\* A window is the one the phrase names on that day, in both resolvers, and
\* its comparison period fits it, at the end of months and years too.
TimeInv ==
  /\ NeverMixed
  /\ TokenSaysTheSame
  /\ PeriodsMatch
  /\ WindowIsSound
=============================================================================
