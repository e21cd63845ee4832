------------------------------- MODULE MCAgent -------------------------------
(***************************************************************************)
(* Instances of the parts that answer one question (what the mission starts*)
(* from, the models behind it, the agent's loop, its tools, the validation *)
(* of what they found) and of the migrations a process starts with, for    *)
(* TLC.  They share no state: each initial state chooses one of them       *)
(* (focus), and the variables of the others stay as they are.              *)
(***************************************************************************)
EXTENDS MissionSetup, AgentRun, ModelRouting, Fetching, TimeRange, Analytics,
        Derivations, Evidence, Actions, Migrations, TLC

VARIABLE focus

-----------------------------------------------------------------------------
\* MissionSetup: two missions that start side by side, with two versions of the
\* catalogue and one without metrics.
SomePayloads ==
  [p1 |-> [metrics |-> {"orders"}, dims |-> {<<"channel">>},
           aliases |-> (<<"source">> :> <<"channel">>), supported |-> {<<"channel">>}],
   p2 |-> [metrics |-> {"orders", "ctr"}, dims |-> {<<"channel">>, <<"lt", "channel">>},
           aliases |-> (<<"order", "source">> :> <<"lt", "channel">>), supported |-> {<<"brand">>}],
   p3 |-> [metrics |-> {}, dims |-> {<<"channel">>}, aliases |-> <<>>, supported |-> {}]]
SomeQuestion == {<<"channel", "last">>, <<"source", "name">>, <<"june">>}
Token(t) == [type |-> "token", value |-> t]
Number(n) == [type |-> "number", value |-> n]
SomeAnswers ==
  {[intent |-> Token("conversation"), complexity |-> Number(25)],
   [intent |-> Token("lookup"), complexity |-> Number(15), needs_write |-> Number(5)],
   [intent |-> Token("diagnostic"), complexity |-> Number(-10), needs_write |-> Token("maybe")],
   [intent |-> Token("musing"), complexity |-> Number(30), needs_write |-> Token("yes")],
   [intent |-> [type |-> "list"]]}
SomeResolutions ==
  {{[term |-> "whatsapp", vocabulary |-> FALSE, best |-> "exact",
     dims |-> [utm |-> {<<"whatsapp", "exact">>, <<"wa", "abbreviation">>},
               page |-> {<<"x", "token">>}]],
    [term |-> "google", vocabulary |-> TRUE, best |-> "exact",
     dims |-> [utm |-> {<<"google", "exact">>}]],
    [term |-> "month", vocabulary |-> FALSE, best |-> "token",
     dims |-> [page |-> {<<"m", "token">>}]]}}

\* ModelRouting: two configured models and a fast one, which only the chain of a
\* lookup holds when azure_openai_fast_model is set.
ThreeModels == <<"a", "b", "fast">>
StrongAndFast == {<<"a", "b">>, <<"fast", "a", "b">>}

\* AgentRun: one call of a data tool and one of a catalogue tool.
SomeTools == [k \in CallKinds |-> IF k = "s1" THEN "s" ELSE "q"]

\* Fetching: two metrics, one of which knows no brands.
SomeSupports == [orders |-> {"brand", "product"}, ctr |-> {"product"}]
Query(metric, dims) == [tool |-> "query_metrics", metric |-> metric, dims |-> dims]
SomeAsked ==
  {Query("orders", <<>>), Query("orders", [brand |-> "value", product |-> "value"]),
   Query("orders", [brand |-> "placeholder", product |-> "marker"]),
   Query("orders", [product |-> "value"]), Query("ctr", [brand |-> "value"]),
   [tool |-> "drilldown", metric |-> "orders", dims |-> <<>>]}

\* TimeRange: the ends and the middle of every month around a leap day.
SomeAnchors ==
  ({2028} \X (1..12) \X {1, 15, 28}) \cup {<<2028, m, monthrange(2028, m)>> : m \in 1..12}
  \cup {<<2029, 2, 28>>, <<2029, 3, 31>>, <<2028, 3, 30>>, <<2028, 12, 30>>}
Phrase(k, n, a, b) == [kind |-> k, n |-> n, a |-> a, b |-> b]
Word(k) == Phrase(k, 0, 0, 0)
February == Phrase("range", 0, Day(2028, 2, 1), Day(2028, 2, 29))
LeapDay == Phrase("date", 0, Day(2028, 2, 29), 0)
SomePhrasings ==
  {<<Phrase(k, n, 0, 0)>> : k \in {"last_d", "last_w", "last_m", "last_q"}, n \in {0, 1, 4}}
  \cup {<<Phrase("last_d", 91, 0, 0)>>, <<February>>, <<LeapDay>>, <<Phrase("named_month", 0, 2028, 2)>>,
        <<February, Phrase("range", 0, Day(2028, 3, 1), Day(2028, 3, 31))>>,
        <<Phrase("named_month", 0, 2028, 2), Phrase("named_month", 0, 2027, 2)>>,
        <<LeapDay, Phrase("date", 0, Day(2028, 3, 1), 0)>>,
        <<LeapDay, Phrase("last_d", 7, 0, 0)>>, <<Word("verb"), Word("yesterday")>>}
  \cup {<<Word(k)>> : k \in {"yesterday", "today", "this_month", "this_week", "this_year", "month"}}
  \cup {<<Word("verb"), Word(u)>> : u \in {"week", "month", "year"}}

\* Analytics: two days of two segments, three steps of a funnel, a null and
\* two rows of another span.
Reading(m, l, s, n, g, v) ==
  [metric |-> m, label |-> l, start |-> s, span |-> n, grain |-> g, null |-> FALSE, value |-> v]
Daily(m, l, s, v) == Reading(m, l, s, 1, "day", v)
SomeRows ==
  {Daily("sessions", "", 1, 10), Daily("sessions", "", 2, 10), Daily("sessions", "", 3, 30),
   Daily("sessions", "web", 1, 9), Daily("sessions", "web", 2, 4),
   Daily("sessions", "app", 1, 1), Daily("sessions", "app", 2, 6),
   Daily("atc", "", 1, 40), Daily("buy", "", 1, 20), Daily("atc", "web", 2, 0),
   [Daily("sessions", "app", 1, 0) EXCEPT !.null = TRUE],
   Reading("sessions", "", 1, 5, "day", 50), Reading("sessions", "", 1, 5, "none", 50)}
ThreeSteps == <<"sessions", "atc", "buy">>

\* Derivations: confounders that thin out a wider window, old rows, a missing value,
\* and the labelled rows of a forecast and of an experiment.
Seen(m, l, d, v) == [metric |-> m, label |-> l, day |-> d, value |-> v, null |-> FALSE]
Over(m, days) == [n \in DOMAIN days |-> Seen(m, "", days[n], 1)]
SomeHistories ==
  {Over("t", <<5, 6, 7>>) \o Over("o", <<5, 6, 7>>) \o Over("c", <<6, 7>>) \o Over("d", <<7>>),
   Over("t", <<1, 2, 7>>) \o Over("c", <<1, 7>>) \o Over("o", <<1, 2, 7>>),
   Over("o", <<6, 7>>) \o <<Seen("t", "", 6, 1), [Seen("t", "", 7, 0) EXCEPT !.null = TRUE]>>,
   Over("t", <<7>>) \o Over("o", <<6, 7>>),
   <<Seen("s", "web", 6, 5), Seen("s", "app", 6, 2), Seen("s", "web", 7, 0)>>,
   <<Seen("s", "web", 6, 0), Seen("s", "app", 7, 3), Seen("u", "kiosk", 7, 4),
     [Seen("s", "app", 7, 0) EXCEPT !.null = TRUE]>>}
SomeModels ==
  <<[target |-> "s", approved |-> FALSE, type |-> "forecast", minimum |-> 1],
    [target |-> "s", approved |-> TRUE, type |-> "ltv", minimum |-> 1],
    [target |-> "s", approved |-> TRUE, type |-> "forecast", minimum |-> 3]>>
ThreeVariants ==
  <<[label |-> "app", control |-> FALSE], [label |-> "web", control |-> TRUE],
    [label |-> "kiosk", control |-> FALSE]>>

\* Evidence: readings that agree or not, that are null, stale or unreadable,
\* and what the other tools store.
Evident(v, d) == [type |-> "evidence", parses |-> TRUE, sourced |-> TRUE, value |-> v,
                  null |-> FALSE, stale |-> FALSE, dims |-> d]
SomeKinds ==
  {Evident(v, d) : v \in {100, 96, 80}, d \in {{}, {"channel"}}}
  \cup {[Evident(0, {}) EXCEPT !.null = TRUE], [Evident(100, {}) EXCEPT !.stale = TRUE],
        [Evident(100, {}) EXCEPT !.parses = FALSE], [type |-> "plan", parses |-> TRUE, sourced |-> TRUE]}
  \cup {[type |-> "finding", parses |-> TRUE, sourced |-> s] : s \in BOOLEAN}
  \cup {[type |-> "causal", parses |-> n # 3, sourced |-> TRUE, supported |-> TRUE,
         passed |-> n] : n \in 0..3}
  \cup {[type |-> "prediction", parses |-> TRUE, sourced |-> TRUE, interval |-> b,
         leakage_checked |-> c] : b, c \in BOOLEAN}
SomeScopes == {{}, {{"channel", "source"}}, {{"channel"}, {"brand"}}}

\* Migrations: a newer release, an older one, and one with an edited script.
ThreeReleases == "r1" :> <<"old", "a", "b">> @@ "r2" :> <<"old", "a">> @@ "r3" :> <<"old", "a2">>

-----------------------------------------------------------------------------
RoutingAtRest == gate = "chain"
EvidenceAtRest == artifacts = <<>> /\ demanded = {}
FetchingAtRest ==
  /\ snapshot = TRUE /\ live = TRUE
  /\ fetched = <<>> /\ stored = <<>> /\ drilled = <<>> /\ written = <<>>
  /\ spent = 0 /\ withdrawn_ = FALSE
  /\ tool = [c \in ToolCalls |-> Unused] /\ evidence = <<>>
TimeAtRest ==
  /\ asked = Day(2028, 1, 1) /\ today = asked /\ phrases = <<LeapDay>>
  /\ window = NoWindow /\ resolved = NoWindow
DerivationsAtRest ==
  /\ history = <<>> /\ derived = <<>> /\ replies = <<>>
  /\ used = [estimates |-> 0, forecasts |-> 0]
AnalyticsAtRest == given = <<>> /\ computed = "none" /\ reported = {}

Parts == {"setup", "agent", "routing", "fetching", "time", "analytics",
          "derivations", "evidence", "actions", "migrations"}

PartsInit ==
  /\ focus \in Parts
  /\ SetupInit /\ AgentInit /\ RoutingInit /\ ActionsInit /\ MigrationsInit
  /\ focus # "routing" => RoutingAtRest
  /\ IF focus = "fetching" THEN FetchingInit ELSE FetchingAtRest
  /\ IF focus = "time" THEN TimeInit ELSE TimeAtRest
  /\ IF focus = "analytics" THEN AnalyticsInit ELSE AnalyticsAtRest
  /\ IF focus = "derivations" THEN DerivationsInit ELSE DerivationsAtRest
  /\ IF focus = "evidence" THEN EvidenceInit ELSE EvidenceAtRest

\* The step of one part leaves the others alone.
Others(part) ==
  /\ focus = part /\ UNCHANGED focus
  /\ part # "setup" => UNCHANGED setupVars
  /\ part # "agent" => UNCHANGED agentVars
  /\ part # "routing" => UNCHANGED routingVars
  /\ part # "fetching" => UNCHANGED fetchVars
  /\ part # "time" => UNCHANGED timeVars
  /\ part # "analytics" => UNCHANGED analyticsVars
  /\ part # "derivations" => UNCHANGED derivationVars
  /\ part # "evidence" => UNCHANGED evidenceVars
  /\ part # "actions" => UNCHANGED actionVars
  /\ part # "migrations" => UNCHANGED migrationVars

PartsNext ==
  \/ Others("setup") /\ SetupNext
  \/ Others("agent") /\ AgentNext
  \/ Others("routing") /\ RoutingNext
  \/ Others("fetching") /\ FetchingNext
  \/ Others("time") /\ TimeNext
  \/ Others("analytics") /\ AnalyticsNext
  \/ Others("derivations") /\ DerivationsNext
  \/ Others("evidence") /\ EvidenceNext
  \/ Others("actions") /\ ActionsNext
  \/ Others("migrations") /\ MigrationsNext

partVars == <<focus, setupVars, agentVars, routingVars, fetchVars, timeVars,
              analyticsVars, derivationVars, evidenceVars, actionVars, migrationVars>>

\* The event loop goes on with the mission (AgentStep); nobody owes it an error.
PartsSpec ==
  /\ PartsInit /\ [][PartsNext]_partVars
  /\ WF_partVars(Others("agent") /\ AgentStep)

\* Whatever the model does, the mission of the agent ends (MissionEnds).
AgentsMissionEnds == focus = "agent" => MissionEnds

\* What an answer rests on: findings of comparable rows, estimates of observed
\* ones, and a verdict that follows the evidence.
FindingsInv ==
  /\ AnalyticsInv
  /\ DerivationsInv
  /\ EvidenceInv
=============================================================================
