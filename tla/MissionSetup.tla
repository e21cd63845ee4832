---------------------------- MODULE MissionSetup ----------------------------
(***************************************************************************)
(* What a mission knows before its agent runs (agent/runner.py             *)
(* run_v3_mission, agent/intent.py, agent/scope.py,                        *)
(* services/catalogue_bootstrap.py): the snapshot of the live catalogue,   *)
(* the classifier's judgments, the values the question names, and the      *)
(* breakdowns its answer must have.  Missions start side by side and share *)
(* the one catalogue cache of the process; every await is a step.          *)
(*                                                                         *)
(* A phrase is a sequence of words; a dimension is the sequence of the     *)
(* words of its id.                                                        *)
(***************************************************************************)
EXTENDS Integers, Sequences, FiniteSets, SequencesExt

CONSTANTS
  Payloads,    \* what the catalogue server may send, by version: [metrics,
               \* dims, aliases (from phrases to dimensions), supported]
  Starters,    \* missions, each started once
  Question,    \* the phrases that follow a "by" in the question
  Stopwords,
  Answers,     \* what the classifier may answer: from fields to raw values
  Resolutions, \* what the value index may answer: sets of terms
  Ceiling,     \* settings.max_tool_calls
  TTL          \* ttl_seconds, in ticks of the clock

\* The aliases of a payload are listed with the dimension that they stand for.
ASSUME SetupAssumption ==
  /\ Ceiling \in Nat \ {0} /\ TTL \in Nat
  /\ Question \subseteq Seq(STRING)
  /\ \A v \in DOMAIN Payloads : \A p \in DOMAIN Payloads[v].aliases :
       Payloads[v].aliases[p] \in Payloads[v].dims

VARIABLES
  cache,    \* the versions the cached metrics and dimensions come from
  age,      \* ticks since the cache was warmed, or -1
  mission,  \* per mission: how far it is and what it has
  replaced  \* the missions whose cache another one loaded after their snapshot
            \* and before their scope was read

setupVars == <<cache, age, mission, replaced>>

Empty == [metrics |-> "none", dims |-> "none"]
Unjudged == [intent |-> "none", complexity |-> "none", needs_write |-> "none"]
NoDeps == [breakdowns |-> {}, filters |-> {}, budget |-> 0, tools |-> FALSE, plan |-> FALSE, fast |-> FALSE]
NotStarted == [at |-> "idle", warmed |-> FALSE, snapshot |-> Empty,
               judged |-> Unjudged, deps |-> NoDeps]

SetupInit ==
  /\ cache = Empty /\ age = -1 /\ replaced = {}
  /\ mission = [q \in Starters |-> NotStarted]

-----------------------------------------------------------------------------
(* The catalogue cache.                                                    *)

Metrics(v) == IF v = "none" THEN {} ELSE Payloads[v].metrics
alias_index(v) == IF v = "none" THEN <<>>
                  ELSE [p \in Payloads[v].dims \cup DOMAIN Payloads[v].aliases |->
                          IF p \in DOMAIN Payloads[v].aliases THEN Payloads[v].aliases[p] ELSE p]
dimension_ids(c) == (IF c.dims = "none" THEN {} ELSE Payloads[c.dims].dims)
                    \cup (IF c.metrics = "none" THEN {} ELSE Payloads[c.metrics].supported)

should_refresh == age = -1 \/ age > TTL
\* A payload replaces everything, an empty one too.
_load_payload_KeepsDims(v) == [metrics |-> v, dims |-> IF v = "none" THEN cache.dims ELSE v]
_load_payload(v) == [metrics |-> v, dims |-> v]

-----------------------------------------------------------------------------
(* The classifier: each field is read by itself.                           *)

Raw(answers, field) == IF field \in DOMAIN answers THEN answers[field] ELSE [type |-> "absent"]
Rounded(tenths) ==
  LET q == tenths \div 10
      r == tenths % 10 IN
  IF r < 5 \/ (r = 5 /\ q % 2 = 0) THEN q ELSE q + 1
_COMPLEXITY_LEVELS == <<"simple", "moderate", "complex">>
_LABELS == {"conversation", "lookup", "diagnostic"}

_choice(raw) == IF raw.type = "token" /\ raw.value \in _LABELS THEN raw.value ELSE "none"
_normalize_ordinal(raw) ==
  CASE raw.type = "number" ->
         LET n == Rounded(raw.value) IN
         _COMPLEXITY_LEVELS[1 + (IF n < 0 THEN 0 ELSE IF n > 2 THEN 2 ELSE n)]
    [] raw.type = "token" /\ raw.value \in Range(_COMPLEXITY_LEVELS) -> raw.value
    [] OTHER -> "none"
_normalize_bool(raw) ==
  CASE raw.type = "number" -> IF raw.value >= 5 THEN "yes" ELSE "no"
    [] raw.type = "token" /\ raw.value \in {"yes", "no"} -> raw.value
    [] OTHER -> "none"

_parse_answers(answers) ==
  [intent |-> _choice(Raw(answers, "intent")),
   complexity |-> _normalize_ordinal(Raw(answers, "complexity")),
   needs_write |-> _normalize_bool(Raw(answers, "needs_write"))]
\* A list cannot be looked up among the labels: TypeError.
ParseRaises(answers) ==
  \E field \in {"intent", "complexity"} : Raw(answers, field).type = "list"

_PLAN_INTENTS == {"diagnostic"}
_FAST_MODEL_INTENTS == {"conversation", "lookup"}
_TOOL_BUDGET_BY_INTENT == [conversation |-> 1, lookup |-> 2, diagnostic |-> 3]
_should_plan(j) == j.intent \in _PLAN_INTENTS \/ j.complexity = "complex"
_tool_budget_Least(intent) ==
  IF intent = "none" THEN 1
  ELSE LET n == _TOOL_BUDGET_BY_INTENT[intent] IN IF n < Ceiling THEN n ELSE Ceiling
_tool_budget(intent) ==
  IF intent = "none" THEN Ceiling
  ELSE LET n == _TOOL_BUDGET_BY_INTENT[intent] IN IF n < Ceiling THEN n ELSE Ceiling
_prefer_fast_model(j) ==
  j.intent \in _FAST_MODEL_INTENTS /\ j.complexity # "complex" /\ j.needs_write # "yes"

-----------------------------------------------------------------------------
(* What the answer must cover.                                             *)

value_filters_from_resolution(terms) ==
  {[term |-> t.term,
    dims |-> {d \in DOMAIN t.dims : \E v \in t.dims[d] : v[2] = "exact"}] :
   t \in {x \in terms : ~x.vocabulary /\ x.best = "exact"
                         /\ \E d \in DOMAIN x.dims : \E v \in x.dims[d] : v[2] = "exact"}}

_resolve_dimension_candidates(phrase, index, dims) ==
  (IF phrase \in dims THEN {phrase} ELSE {})
    \cup (IF phrase \in DOMAIN index THEN {index[phrase]} ELSE {})
    \cup {d \in dims : Range(phrase) \subseteq Range(d)}
    \cup {index[a] : a \in {x \in DOMAIN index : Range(phrase) \subseteq Range(x)}}

\* The n-grams a phrase is tried as: of its first three words, up to a stopword.
_candidate_term_groups(words) ==
  LET kept == {n \in 1..Len(words) : n <= 3 /\ \A i \in 1..n : words[i] \notin Stopwords} IN
  {SubSeq(words, 1, n) : n \in kept}

\* The longest n-gram that resolves wins, a phrase that does not is dropped.
build_required_scope_KeepsAll(c) ==
  IF alias_index(c.dims) = <<>> /\ dimension_ids(c) = {} THEN {}
  ELSE {_resolve_dimension_candidates(words, alias_index(c.dims), dimension_ids(c)) :
          words \in Question}
build_required_scope(c) ==
  LET index == alias_index(c.dims)
      found(words) == {g \in _candidate_term_groups(words) :
                         _resolve_dimension_candidates(g, index, dimension_ids(c)) # {}}
      longest(words) == CHOOSE g \in found(words) : \A h \in found(words) : Len(h) <= Len(g) IN
  {_resolve_dimension_candidates(longest(words), index, dimension_ids(c)) :
     words \in {w \in Question : found(w) # {}}}

\* For every state of the cache, so that TLC works each out once.
Versions == DOMAIN Payloads \cup {"none"}
_required_scope == [c \in [metrics : Versions, dims : Versions] |-> build_required_scope(c)]

-----------------------------------------------------------------------------
Move(q, to) == mission' = [mission EXCEPT ![q] = to]

\* _catalogue_snapshot: nothing is awaited between the end of warm() and the copy.
Arrive(q) ==
  /\ mission[q].at = "idle"
  /\ IF should_refresh THEN Move(q, [mission[q] EXCEPT !.at = "bootstrap"])
     ELSE Move(q, [mission[q] EXCEPT !.at = "classify", !.snapshot = cache])
  /\ UNCHANGED <<cache, age, replaced>>
Loaded(q, loaded) ==
  /\ cache' = loaded
  /\ replaced' = replaced \cup {p \in Starters \ {q} : mission[p].at \in {"classify", "values"}}
Warmed(q, loaded) ==
  /\ Loaded(q, loaded) /\ age' = 0
  /\ Move(q, [mission[q] EXCEPT !.at = "classify", !.snapshot = loaded,
                                !.warmed = Metrics(loaded.metrics) # {}])
\* warm(): catalogue_bootstrap, then catalogue_list_metrics, then the local
\* index; a failed call is an empty payload, and is loaded like one.
WarmBootstrap(q, v) ==
  /\ mission[q].at = "bootstrap"
  /\ IF Metrics(v) # {} THEN Warmed(q, _load_payload(v))
     ELSE /\ Loaded(q, _load_payload(v))
          /\ Move(q, [mission[q] EXCEPT !.at = "list"]) /\ UNCHANGED age
WarmList(q, v, local) ==
  /\ mission[q].at = "list"
  /\ Warmed(q, _load_payload(IF Metrics(v) # {} THEN v ELSE local))

\* The rest of the setup, without an await: the scope is read from the cache as
\* it is now.
Ready(q, judged, terms) ==
  LET small == judged.intent = "conversation" IN
  Move(q, [mission[q] EXCEPT !.at = "ready", !.judged = judged,
             !.deps = [breakdowns |-> _required_scope[cache],
                       filters |-> value_filters_from_resolution(terms),
                       budget |-> _tool_budget(judged.intent), tools |-> ~small,
                       plan |-> _should_plan(judged), fast |-> _prefer_fast_model(judged)]])

classify_query(q, answers) ==
  /\ mission[q].at = "classify"
  /\ LET judged == _parse_answers(answers) IN
     CASE ParseRaises(answers) -> Move(q, [mission[q] EXCEPT !.at = "raised"])
       [] ~ParseRaises(answers) /\ judged.intent = "conversation" -> Ready(q, judged, {})
       [] OTHER -> Move(q, [mission[q] EXCEPT !.at = "values", !.judged = judged])
  /\ UNCHANGED <<cache, age, replaced>>
\* An error, a timeout, or an index that is still warming up: no terms.
_resolve_values(q, terms) ==
  /\ mission[q].at = "values"
  /\ Ready(q, mission[q].judged, terms)
  /\ UNCHANGED <<cache, age, replaced>>

Elapse == /\ age \in 0..TTL /\ age' = age + 1 /\ UNCHANGED <<cache, mission, replaced>>

SetupStep(q) ==
  \/ Arrive(q)
  \/ \E v \in Versions : WarmBootstrap(q, v)
  \/ \E v, local \in Versions : WarmList(q, v, local)
  \/ \E answers \in Answers \cup {<<>>} : classify_query(q, answers)
  \/ \E terms \in Resolutions \cup {{}} : _resolve_values(q, terms)
SetupNext == Elapse \/ \E q \in Starters : SetupStep(q)
SetupSpec == SetupInit /\ [][SetupNext]_setupVars

-----------------------------------------------------------------------------
\* A snapshot comes from one payload in full, and from a payload at all when the
\* mission's own refresh has found one, whatever the refreshes of other missions
\* do to the cache meanwhile.
SnapshotIsWhole ==
  \A q \in Starters : mission[q].at \in {"classify", "values", "ready"} =>
    /\ mission[q].snapshot.metrics = mission[q].snapshot.dims
    /\ mission[q].warmed => Metrics(mission[q].snapshot.metrics) # {}

\* An answer can have the breakdowns that are demanded of it: each names at least
\* one dimension, and the catalogue that the mission itself works with has them
\* all.  The exception is a mission whose cache was replaced after its snapshot:
\* its scope was read from the other payload.
ScopeIsAnswerable ==
  \A q \in Starters : mission[q].at = "ready" =>
    LET scope == mission[q].deps.breakdowns IN
    /\ {} \notin scope
    /\ \/ q \in replaced
       \/ /\ UNION scope \subseteq dimension_ids(mission[q].snapshot)
          /\ scope = {} => _required_scope[mission[q].snapshot] = {}

\* Fail open: a judgment the classifier did not give costs a mission none of its
\* tools, calls or model, and a write is never left to the fast model.
OutageNeverTightens ==
  \A q \in Starters : mission[q].at = "ready" =>
    LET j == mission[q].judged
        d == mission[q].deps IN
    /\ j.intent = "none" => d.tools /\ d.budget = Ceiling /\ ~d.fast
    /\ d.budget \in 1..Ceiling
    /\ (j.needs_write = "yes" \/ j.complexity = "complex") => ~d.fast
    /\ ~d.tools => j.intent = "conversation" /\ d.filters = {}

\* "A missing/garbled answer for one question leaves that field None without
\* affecting the others": no answer of the classifier ends a mission.
GarbledFieldsFailOpen == \A q \in Starters : mission[q].at # "raised"

\* A mission starts from one version of the catalogue, is asked for nothing that
\* this version cannot answer unless the cache was replaced under it, and is no
\* tighter for an outage.
SetupInv ==
  /\ SnapshotIsWhole
  /\ ScopeIsAnswerable
  /\ OutageNeverTightens

\* agent/scope.py:13-17: "RequiredScope captures what the user demanded, resolved
\* to catalogue dimension ids, so the post-run reconciliation check can prove the
\* executed evidence actually covers it - and force a REVISE (not a silent
\* completed) when it does not."  A breakdown that the mission's own catalogue
\* resolves is demanded; the scope is read from the cache that another mission's
\* refresh may just have emptied.
DemandIsCaptured ==
  \A q \in Starters : mission[q].at = "ready" /\ mission[q].deps.breakdowns = {} =>
    _required_scope[mission[q].snapshot] = {}
=============================================================================
