------------------------------ MODULE Fetching ------------------------------
(***************************************************************************)
(* How the agent's numbers are fetched (toolsets/semantic.py query_metrics *)
(* and drilldown, services/mcp_query.py, state/cache.py): the arguments a  *)
(* call leads to, the mission's query cache with its single flight, the    *)
(* Cube budget, the fallbacks on a bad brand or an empty result, and the   *)
(* evidence written.  The calls of one response of the model run side by   *)
(* side and interleave at every await.                                     *)
(*                                                                         *)
(* A value is the number of the fetch it came from: the data changes all   *)
(* the time, so no two fetches need to agree.                              *)
(***************************************************************************)
EXTENDS Integers, Sequences, FiniteSets

CONSTANTS
  Asked,        \* what the model may ask: [tool, metric, dims], dims a function
                \* from dimensions to "value", "marker" or "placeholder"
  Supports,     \* the dimensions each metric of the catalogue supports
  ToolCalls,    \* tool calls, each made once
  MaxQueries    \* limits.max_cube_queries

ASSUME FetchingAssumption == MaxQueries \in Nat

VARIABLES
  snapshot,   \* is the catalogue snapshot loaded
  live,       \* is there an MCP server at all
  fetched,    \* the metrics_query calls made, by their arguments
  stored,     \* the query cache: from arguments to results
  drilled,    \* and the drilldowns in it, by the arguments of the parent
  written,    \* the cached outcomes of query_metrics, by arguments
  spent,      \* budget.cube_queries
  withdrawn_, \* fetching tools have been withdrawn
  tool,       \* per call: the request, its arguments, where it is
  evidence    \* what has been written, in order

fetchVars == <<snapshot, live, fetched, stored, drilled, written, spent, withdrawn_, tool, evidence>>

NoArgs == [metric |-> "none", groups |-> {}, filters |-> {}]
Answer == [kind: {"unknown_brand", "unknown_dimension", "transient", "unavailable",
                  "absent", "empty", "null", "rows", "spent"}, value: Nat]
NoAnswer == [kind |-> "spent", value |-> 0]
Unused == [ask |-> [tool |-> "none", metric |-> "none", dims |-> <<>>], args |-> NoArgs,
           for |-> "none", at |-> "idle", answer |-> NoAnswer, outcome |-> "none",
           again |-> FALSE]

FetchingTypeOK ==
  /\ snapshot \in BOOLEAN /\ live \in BOOLEAN /\ withdrawn_ \in BOOLEAN
  /\ spent \in 0..MaxQueries
  /\ \A c \in ToolCalls :
       /\ tool[c].at \in {"idle", "asking", "fetching", "waiting", "answered", "drilling", "over"}
       /\ tool[c].for \in {"none", "data", "default brand", "probe", "parent"}
       /\ tool[c].answer \in Answer
  /\ \A a \in DOMAIN stored : stored[a] \in Answer

FetchingInit ==
  /\ snapshot \in BOOLEAN /\ live \in BOOLEAN
  /\ fetched = <<>> /\ stored = <<>> /\ drilled = <<>> /\ written = <<>>
  /\ spent = 0 /\ withdrawn_ = FALSE
  /\ tool = [c \in ToolCalls |-> Unused]
  /\ evidence = <<>>

-----------------------------------------------------------------------------
\* _sanitize_dimensions: "*", "all" and the like ask for a breakdown, a
\* placeholder of the model's own making is dropped.
Groups(dims) == {d \in DOMAIN dims : dims[d] = "marker"}
Filters(dims) == {<<d, "asked">> : d \in {x \in DOMAIN dims : dims[x] = "value"}}

\* build_metrics_query_args: the default brand, unless the query has one.
_has_brand(groups, filters) == "brand" \in groups \cup {f[1] : f \in filters}
build_metrics_query_args(metric, groups, filters, inject) ==
  [metric |-> metric, groups |-> groups,
   filters |-> IF inject /\ ~_has_brand(groups, filters)
               THEN filters \cup {<<"brand", "default">>} ELSE filters]
supports_brand(metric) == ~snapshot \/ "brand" \in Supports[metric]
NonBrand(filters) == {f \in filters : f[1] # "brand"}

DataArgs(ask, filters) ==
  build_metrics_query_args(ask.metric, Groups(ask.dims), filters, supports_brand(ask.metric))

\* _reject_unknown_metric and _reject_incompatible_dimensions, where the
\* snapshot can tell and knows something better.
Rejected(ask) ==
  /\ snapshot
  /\ \/ ask.metric \notin DOMAIN Supports
     \/ \E d \in Groups(ask.dims) \cup {f[1] : f \in Filters(ask.dims)} :
          /\ d \notin Supports[ask.metric]
          /\ \E other \in DOMAIN Supports : d \in Supports[other]

Go(c, to) == tool' = [tool EXCEPT ![c] = to]
End(c, outcome) == Go(c, [tool[c] EXCEPT !.at = "over", !.outcome = outcome])
\* Everything but the call itself stays as it is.
OnlyTool == UNCHANGED <<snapshot, live, fetched, stored, drilled, written, spent, withdrawn_, evidence>>

\* The same call has been made and has failed: this one is a retry of it.
FailedBefore(ask) ==
  \E d \in ToolCalls : tool[d].ask = ask /\ tool[d].outcome = "retryable"
\* A tool that was withdrawn is not offered again; the calls of the response
\* that is under way still run.
Offered == ~withdrawn_ \/ \E d \in ToolCalls : tool[d].at \notin {"idle", "over"}
Called(ask, args, for, at, outcome) ==
  [ask |-> ask, args |-> args, for |-> for, at |-> at, answer |-> NoAnswer,
   outcome |-> outcome, again |-> FailedBefore(ask)]
Invoke(c, ask) ==
  /\ tool[c].at = "idle" /\ Offered
  /\ CASE ask.tool = "drilldown" ->
            Go(c, Called(ask, build_metrics_query_args(ask.metric, {}, {}, TRUE),
                         "parent", "asking", "none"))
       [] ask.tool = "query_metrics" /\ Rejected(ask) ->
            Go(c, Called(ask, NoArgs, "none", "over", "retry"))
       [] OTHER ->
            Go(c, Called(ask, DataArgs(ask, Filters(ask.dims)), "data", "asking", "none"))
  /\ OnlyTool

-----------------------------------------------------------------------------
\* _cached_metrics_query, up to its await: what is stored costs nothing; the
\* budget is charged before it is known whether the same query is in flight.
InFlightFor(args) == \E c \in ToolCalls : tool[c].at = "fetching" /\ tool[c].args = args
Coalesced_Never(args) == FALSE
Coalesced(args) == InFlightFor(args)
BudgetLeft_OffByOne == spent <= MaxQueries
BudgetLeft == spent < MaxQueries
consume_FirstOnly(c) == IF tool[c].for = "data" THEN spent + 1 ELSE spent
consume(c) == spent + 1
Ask(c) ==
  LET args == tool[c].args IN
  /\ tool[c].at = "asking"
  /\ CASE args \in DOMAIN stored ->
            /\ Go(c, [tool[c] EXCEPT !.at = "answered", !.answer = stored[args]])
            /\ UNCHANGED <<spent, withdrawn_, fetched>>
       [] args \notin DOMAIN stored /\ ~BudgetLeft ->
            /\ Go(c, [tool[c] EXCEPT !.at = "answered", !.answer = NoAnswer])
            /\ withdrawn_' = TRUE
            /\ UNCHANGED <<spent, fetched>>
       [] OTHER ->
            /\ spent' = consume(c)
            /\ IF Coalesced(args)
               THEN Go(c, [tool[c] EXCEPT !.at = "waiting"]) /\ UNCHANGED fetched
               ELSE /\ Go(c, [tool[c] EXCEPT !.at = "fetching", !.answer.value = Len(fetched) + 1])
                    /\ fetched' = Append(fetched, args)
            /\ UNCHANGED withdrawn_
  /\ UNCHANGED <<snapshot, live, stored, drilled, written, evidence>>

\* What Cube may say to these arguments (external).
Replies(args) ==
  IF ~live THEN {"unavailable"}
  ELSE {"transient"} \cup
       IF \E d \in args.groups \cup {f[1] : f \in args.filters} :
            args.metric \notin DOMAIN Supports \/ d \notin Supports[args.metric]
       THEN {"unknown_dimension"}
       ELSE {"empty", "null", "rows"}
              \cup (IF <<"brand", "asked">> \in args.filters THEN {"unknown_brand"} ELSE {})
              \cup (IF NonBrand(args.filters) # {} THEN {"absent"} ELSE {})

\* get_or_fetch: the reply of this very fetch, an error included, is stored for the mission, and
\* those who waited for it get it too.
CubeReplies(c, kind) ==
  LET args == tool[c].args
      reply == [kind |-> kind, value |-> tool[c].answer.value] IN
  /\ tool[c].at = "fetching" /\ kind \in Replies(args)
  /\ stored' = [a \in DOMAIN stored \cup {args} |-> IF a = args THEN reply ELSE stored[a]]
  /\ tool' = [x \in ToolCalls |->
                IF x = c \/ (tool[x].at = "waiting" /\ tool[x].args = args)
                THEN [tool[x] EXCEPT !.at = "answered", !.answer = reply] ELSE tool[x]]
  /\ withdrawn_' = (withdrawn_ \/ kind = "unavailable")
  /\ UNCHANGED <<snapshot, live, fetched, drilled, written, spent, evidence>>

-----------------------------------------------------------------------------
\* What query_metrics makes of the reply.
Failure(kind) == CASE kind = "unknown_dimension" -> "unsupported"
                   [] kind = "unavailable" -> "unavailable"
                   [] OTHER -> "retryable"
Errors == {"unknown_brand", "unknown_dimension", "transient", "unavailable", "spent"}

\* A bad brand gives way to the default one, everything else stays.
DefaultBrandArgs_NoFilters(c) == DataArgs(tool[c].ask, {})
DefaultBrandArgs(c) == DataArgs(tool[c].ask, NonBrand(Filters(tool[c].ask.dims)))
FallBack(c) ==
  /\ tool[c].at = "answered" /\ tool[c].for = "data"
  /\ tool[c].answer.kind = "unknown_brand"
  /\ Go(c, [tool[c] EXCEPT !.for = "default brand", !.at = "asking",
                           !.args = DefaultBrandArgs(c)])
  /\ OnlyTool

Examine(c) ==
  LET kind == tool[c].answer.kind IN
  /\ tool[c].at = "answered" /\ tool[c].for \in {"data", "default brand"}
  /\ kind # "unknown_brand" /\ kind # "rows" /\ kind # "null"
  /\ CASE kind \in Errors -> End(c, Failure(kind))
       [] kind = "absent" -> End(c, "value not found")
       [] kind = "empty" /\ NonBrand(tool[c].args.filters) = {} -> End(c, "no data")
       \* _suggest_close_values asks which values there are.
       [] OTHER -> Go(c, [tool[c] EXCEPT !.for = "probe", !.at = "asking",
                            !.args = build_metrics_query_args(tool[c].ask.metric,
                                       {f[1] : f \in NonBrand(tool[c].args.filters)}, {}, TRUE)])
  /\ OnlyTool
Probed(c) ==
  /\ tool[c].at = "answered" /\ tool[c].for = "probe"
  /\ End(c, "no data")
  /\ OnlyTool

\* The evidence is written once per arguments; the same fetch later on gets the
\* outcome that is stored.  The row says what was asked.
WrittenBefore_Never(args) == FALSE
WrittenBefore(args) == args \in DOMAIN written
Write(c) ==
  LET args == tool[c].args
      outcome == IF WrittenBefore(args) THEN written[args]
                 ELSE IF tool[c].answer.kind = "rows" THEN "ok" ELSE "no data" IN
  /\ tool[c].at = "answered" /\ tool[c].for \in {"data", "default brand"}
  /\ tool[c].answer.kind \in {"rows", "null"}
  /\ written' = [a \in DOMAIN written \cup {args} |-> IF a = args THEN outcome ELSE written[a]]
  /\ evidence' = IF WrittenBefore(args) \/ outcome # "ok" THEN evidence
                 ELSE Append(evidence, [by |-> "query_metrics", args |-> args,
                                        value |-> tool[c].answer.value,
                                        slice |-> {f[1] : f \in Filters(tool[c].ask.dims)}])
  /\ End(c, outcome)
  /\ UNCHANGED <<snapshot, live, fetched, stored, drilled, spent, withdrawn_>>

\* drilldown: a parent query, which may be composed of several parts, and then
\* a call of its own, outside the Cube budget.  Its reply is cached and shared
\* too, an exception is shared by those who wait and not cached, and every call
\* writes the rows for itself.
_resolve_drilldown_parent_id(c) ==
  Go(c, [tool[c] EXCEPT !.at = "drilling"]) \/ End(c, "no data")
Drill(c) ==
  /\ tool[c].at = "answered" /\ tool[c].for = "parent"
  /\ IF tool[c].answer.kind \in Errors THEN End(c, Failure(tool[c].answer.kind))
     ELSE _resolve_drilldown_parent_id(c)
  /\ OnlyTool
DrillReturns(c, kind) ==
  LET args == tool[c].args IN
  /\ tool[c].at = "drilling"
  /\ args \in DOMAIN drilled => kind = drilled[args]
  /\ drilled' = [a \in DOMAIN drilled \cup {args} |-> IF a = args THEN kind ELSE drilled[a]]
  /\ evidence' = IF kind = "rows"
                 THEN Append(evidence, [by |-> "drilldown", args |-> args,
                                        value |-> tool[c].answer.value, slice |-> {}])
                 ELSE evidence
  /\ End(c, IF kind = "rows" THEN "ok" ELSE "no data")
  /\ UNCHANGED <<snapshot, live, fetched, stored, written, spent, withdrawn_>>
DrillRaises(c) ==
  /\ tool[c].at = "drilling" /\ tool[c].args \notin DOMAIN drilled
  /\ tool' = [x \in ToolCalls |->
                IF tool[x].at = "drilling" /\ tool[x].args = tool[c].args
                THEN [tool[x] EXCEPT !.at = "over", !.outcome = "retryable"] ELSE tool[x]]
  /\ OnlyTool

FetchingNext ==
  \E c \in ToolCalls :
    \/ \E ask \in Asked : Invoke(c, ask)
    \/ Ask(c) \/ FallBack(c) \/ Examine(c) \/ Probed(c) \/ Write(c) \/ Drill(c)
    \/ \E kind \in {"unknown_brand", "unknown_dimension", "transient", "unavailable",
                    "absent", "empty", "null", "rows"} : CubeReplies(c, kind)
    \/ \E kind \in {"rows", "empty"} : DrillReturns(c, kind)
    \/ DrillRaises(c)

FetchingSpec == FetchingInit /\ [][FetchingNext]_fetchVars

-----------------------------------------------------------------------------
\* One query has one value in a mission: calls that ask the same at the same
\* time do not come back with two ("two units_sold fetches 3ms apart, same
\* metric/period/dimensions, returned 816 and 977").
OneValuePerQuery ==
  \A i, j \in DOMAIN evidence :
    evidence[i].args = evidence[j].args => evidence[i].value = evidence[j].value

\* query_metrics writes the rows of one query once, however many calls end in it.
RowsWrittenOnce ==
  \A i, j \in DOMAIN evidence :
    /\ evidence[i].args = evidence[j].args /\ i # j
    => {evidence[i].by, evidence[j].by} # {"query_metrics"}

\* "Never strip a user-supplied product/return/region filter": an answer comes
\* from a query with every filter but a bad brand, and with every breakdown,
\* that the call asked for.
NothingStripped ==
  \A c \in ToolCalls : tool[c].ask.tool = "query_metrics" /\ tool[c].outcome = "ok" =>
    /\ NonBrand(Filters(tool[c].ask.dims)) \subseteq tool[c].args.filters
    /\ Groups(tool[c].ask.dims) = tool[c].args.groups

\* A mission's queries stay within max_cube_queries, the parents of drilldowns,
\* the fallbacks and the probes included, and each is about one brand or broken
\* down by brand when its metric knows brands.
WithinCubeBudget ==
  /\ Len(fetched) <= spent /\ spent <= MaxQueries
  /\ \A i \in DOMAIN fetched :
       "brand" \in Supports[fetched[i].metric] =>
         _has_brand(fetched[i].groups, fetched[i].filters)

\* "A failure the tool marked retryable is re-executed instead of replayed - a
\* transient MCP error deserves a real retry": a retry that fails does not fail
\* with the very reply of the call it retries.
RetryIsReal ==
  \A c, d \in ToolCalls :
    /\ tool[c].again /\ tool[c].outcome = "retryable" /\ tool[c].answer.kind = "transient"
    /\ ~tool[d].again /\ tool[d].outcome = "retryable" /\ tool[d].ask = tool[c].ask
    => tool[d].answer # tool[c].answer

\* Concurrent tool calls of one mission see one value per query, write its
\* rows once, ask what was asked and stay within the budget of queries.
FetchingInv ==
  /\ FetchingTypeOK
  /\ OneValuePerQuery
  /\ RowsWrittenOnce
  /\ NothingStripped
  /\ WithinCubeBudget
=============================================================================
