---------------------------- MODULE MCDashboard ----------------------------
(***************************************************************************)
(* Scenes for the page: charts and days over small stores, with every      *)
(* query of a family; and the life of the server with a client, a child    *)
(* and the environment.                                                    *)
(***************************************************************************)
EXTENDS Program

NoQuery == [x \in {} |-> 0]
Own == [name |-> "127.0.0.1", bracketed |-> FALSE, port |-> {7878}]
NoBody == [declared |-> {}, sent |-> 0, broken |-> FALSE, content |-> {}]
Carrying(content) == [declared |-> {1}, sent |-> 1, broken |-> FALSE, content |-> content]

Get(path) == [method |-> "GET", path |-> path, query |-> NoQuery, host |-> {Own}, site |-> {},
              origin |-> {}, type |-> {}, body |-> NoBody]
Asking(path, query) == [Get(path) EXCEPT !.query = query]
Post(path, content) ==
    [Get(path) EXCEPT !.method = "POST", !.site = {"same-origin"}, !.type = {"application/json"},
                      !.origin = {[scheme |-> "http", authority |-> Own]}, !.body = Carrying(content)]

-----------------------------------------------------------------------------
(* Stores                                                                  *)

Probe(ts, source, contended, value) ==
    [ts |-> ts, source |-> source, contended |-> contended, battery |-> {FALSE},
     metrics |-> "cpu.single_mops_s" :> value,
     conditions |-> IF value % 2 = 0 THEN "cpu_at" :> value ELSE NoQuery]
Turn(ts, output) == [ts |-> ts, session |-> "s", project |-> "p", output |-> output, first |-> {output},
                     span |-> {output}, cacheRead |-> output, input |-> 1]
Call(ts, ms) == [ts |-> ts, tool |-> "Read", ok |-> ms > 1, ms |-> ms]
Passing(ts) == [ts |-> ts, values |-> "cpu_percent" :> ts]

\* What was sampled, summarised as far as a retention pass came.
Taken == <<0, 1, 3, 4, 6, 7>>
Kept(cut) == Each(Passing, SelectSeq(Taken, LAMBDA t : cut <= t))
Summed(cut) == Each(Passing, SelectSeq(<<0, 2, 4, 6>>, LAMBDA b : b < cut))

ChartStore(cut) ==
    [samples |-> Kept(cut), rollup |-> Summed(cut),
     probes |-> <<Probe(1, "probe", FALSE, 4), Probe(2, "probe", TRUE, 6), Probe(3, "bench", FALSE, 3),
                  Probe(5, "probe", FALSE, 5), Probe(6, "probe", FALSE, 8), Probe(7, "probe", TRUE, 2),
                  Probe(8, "probe", FALSE, 9)>>,
     turns |-> <<Turn(0, 3), Turn(2, 1), Turn(3, 2), Turn(5, 4), Turn(6, 1), Turn(8, 5)>>,
     calls |-> <<Call(2, 1), Call(3, 2), Call(6, 3)>>,
     markers |-> <<[ts |-> 2, ended |-> {4}], [ts |-> 6, ended |-> {}]>>,
     versions |-> <<[ts |-> 1, ended |-> {}], [ts |-> 5, ended |-> {}]>>, events |-> <<1, 2, 3>>]

\* More turns than the budget of a statement.
LongStore == [ChartStore(4) EXCEPT !.turns = [i \in 1..(MaxRows + 3) |-> Turn(i \div 4, i % 5)]]

EmptyStore == [t \in DOMAIN ChartStore(0) |-> <<>>]

\* Three rows a day for days of six hours, the value a function of the day.
Rows(Make(_, _), Value(_), first, last) ==
    FlattenSeq([i \in 1..(last - first + 1) |->
        [k \in 1..3 |-> Make((first + i - 1) * DayHours + k, Value(first + i - 1))]])
DayProbe(ts, value) == [Probe(ts, "probe", FALSE, value) EXCEPT !.battery = {ts % 4 = 0}]
DayStore(Value(_)) ==
    [EmptyStore EXCEPT !.probes = Rows(DayProbe, Value, 1, 7), !.calls = Rows(Call, Value, 1, 7),
                       !.turns = Rows(Turn, Value, 1, 7)]

UTC == [before |-> 0, after |-> 0, at |-> 0]
Zone(ahead, jump, at) == [before |-> ahead, after |-> ahead + jump, at |-> at]
Zones == <<UTC, Zone(0, 1, 24), Zone(0, -1, 24), Zone(0, 1, 26), Zone(0, -1, 25), Zone(-2, 1, 26),
           Zone(-2, -1, 26), Zone(-2, -1, 30), Zone(0, 1, 42), Zone(0, -1, 42)>>

-----------------------------------------------------------------------------
(* Requests                                                                *)

Charted == {Name("", "cpu_percent"), Name("probe", "cpu.single_mops_s"), Name("cond", "cpu_at"),
            Name("", "output_tokens"), Name("", "tool_read_ms"), Name("", "cache_hit_ratio")}
ChartQueries(of) ==
    {[metric |-> s, from |-> f, to |-> t, limit |-> l, contended |-> c, bucket |-> b] :
        s \in of, f \in {0, 3}, t \in {6, 8}, l \in {0, 1, 3, 9}, c \in {"include", "exclude"},
        b \in {0, 3}}
OddQueries ==
    {[metric |-> s] : s \in KnownSeries \cup {Name("", "nothing")}}
    \cup {[from |-> 8, to |-> 0, metric |-> Name("", "cpu_percent")],
          [to |-> 4, metric |-> Name("bench", "cpu.single_mops_s")]}
ChartRequests == [q \in ChartQueries(Charted) \cup OddQueries |-> Asking("series", q)]
TurnRequests == [q \in ChartQueries({Name("", "output_tokens")}) |-> Asking("series", q)]
PassiveRequests == [q \in ChartQueries({Name("", "cpu_percent")}) |-> Asking("series", q)]
OtherReads == <<Asking("annotations", [from |-> 1, to |-> 5]), Asking("annotations", [to |-> MinInstant]),
                Asking("annotations", [from |-> 5, to |-> 1]), Get("annotations"),
                Asking("annotations", [from |-> MinInstant, to |-> MinInstant]), Get("live"), Get("today"),
                Get("status"), Get("options"), Get("nowhere"), [Get("live") EXCEPT !.method = "POST",
                !.type = {"application/json"}], [Get("bench") EXCEPT !.method = "PUT"],
                [Get("live") EXCEPT !.host = {}],
                [Get("live") EXCEPT !.host = {[Own EXCEPT !.port = {Unparseable}]}],
                [Post("bench", {NoQuery}) EXCEPT !.type = {}],
                [Post("bench", {NoQuery}) EXCEPT !.body.declared = {MaxBody + 1}],
                [Post("bench", {NoQuery}) EXCEPT !.body.declared = {}, !.body.sent = MaxBody + 1],
                [Post("bench", {NoQuery}) EXCEPT !.body.broken = TRUE]>>

Report(preset, metrics) ==
    [schema |-> 1, kind |-> "benchmark", preset |-> preset, live |-> FALSE, model |-> {}, runs |-> {},
     environment |-> "os" :> preset, profiles |-> <<[label |-> "case", ms |-> 4], [label |-> "case", ms |-> 7]>>,
     metrics |-> metrics]
Metric(name, value) == [name |-> name, value |-> value, lower |-> Catalogue[name].lowerIsBetter]
Reports == {Report("quick", <<Metric("sqlite.lookup_ms", v), Metric("cpu.single_mops_s", w), Metric("cpu.multi_elapsed_ms", v)>>) :
               v \in {0, 10, 100, 108}, w \in {5, 60}}
           \cup {Report("stress", <<>>), [Report("quick", <<>>) EXCEPT !.schema = 2]}
Comparisons == [pair \in [baseline : Reports, candidate : Reports] |-> Post("compare", {pair})]

Live == [live_llm |-> TRUE, llm_route |-> "both", llm_cost_cap_usd |-> 100, preset |-> "quick"]
BenchRequests == <<Post("bench", {NoQuery}), Post("bench", {Live}),
                   Post("bench", {[llm_model |-> "-m", target_dir |-> "repo", scratch_dir |-> "tmp"]}),
                   Post("bench", {[llm_cost_cap_usd |-> Infinite]}), Post("bench", {}),
                   Post("cancel", {}), Get("run")>>

-----------------------------------------------------------------------------
\* The first instant of the model.
Earliest64 == -4

Scene(store, zone, now, requests, registry, happens) ==
    [store |-> store, zone |-> zone, now |-> now, requests |-> requests, registry |-> registry,
     happens |-> happens, commands |-> {}]
Values(day) == IF day = 3 THEN 90 ELSE 10 + day
Spread(day) == ((day * 7) % 11) + 2

DayScenes == FlattenSeq([i \in DOMAIN Zones |->
    [k \in 1..3 |-> Scene(DayStore(Values), Zones[i], <<40, 44, 46>>[k],
                          <<Get("verdicts"), Get("live"), Get("today")>>, FALSE, {})]])

Lives ==
    <<Scene(ChartStore(4), UTC, 30, ChartRequests, FALSE, {}),
      Scene(ChartStore(0), UTC, 30, PassiveRequests, FALSE, {}),
      Scene(ChartStore(8), UTC, 30, PassiveRequests, FALSE, {}),
      Scene(ChartStore(4), UTC, 30, OtherReads, TRUE, {"no database", "shutdown"}),
      Scene(EmptyStore, UTC, 30, Comparisons, FALSE, {}),
      Scene(EmptyStore, UTC, 30, <<Get("verdicts"), Get("live"), Get("status")>>, FALSE, {}),
      Scene(DayStore(Spread), UTC, 44, <<Get("verdicts")>>, FALSE, {}),
      Scene(LongStore, UTC, 30, TurnRequests, FALSE, {}),
      Scene(EmptyStore, UTC, 30, <<Get("status")>>, FALSE, {"time"}),
      Scene(ChartStore(4), UTC, 30, <<Get("status")>>, FALSE, {"time"}),
      Scene(ChartStore(4), UTC, 10, <<Get("status")>>, FALSE, {"time", "shutdown", "upgrade"}),
      Scene(EmptyStore, UTC, 30, <<Get("/"), Get("/app.js"), Get("/bench.js")>>, FALSE,
            {"upgrade", "shutdown", "accept", "stall"}),
      Scene(EmptyStore, UTC, 30, BenchRequests, TRUE, {"shutdown", "spawn fails", "no thread", "accept"}),
      Scene(EmptyStore, UTC, 30, BenchRequests, FALSE, {"stall"})>>

\* A benchmark started and stopped from the page, and some at a terminal: on one route or two,
\* for a while or for long enough to ask every scenario in either order.
Page(asked, happens) ==
    Scene(EmptyStore, UTC, 30, <<Post("bench", {asked}), Post("cancel", {})>>, TRUE,
          happens \cup {"bench"})
Command(preset, route, cap) ==
    [preset |-> preset, target |-> "repo", scratch |-> {}, offline |-> FALSE, live |-> TRUE,
     route |-> route, model |-> "sonnet", cap |-> cap, port |-> 8787, tui |-> TRUE, marks |-> {DataDir}]
Typed(commands, happens) ==
    [Scene(EmptyStore, UTC, 30, <<>>, FALSE, happens) EXCEPT !.commands = commands]

Benchmarks ==
    <<Page([live_llm |-> TRUE, preset |-> "quick", llm_route |-> "direct", llm_cost_cap_usd |-> 15], {"fails"}),
      Page([live_llm |-> FALSE, offline |-> TRUE], {"work"}),
      Typed({Command("quick", "both", 100)}, {"proxy", "interrupt", "helper", "fails"}),
      Typed({Command("quick", "headroom", 40)}, {"work", "network", "spawn", "proxy", "interrupt", "screen"}),
      Typed({Command("standard", "direct", 90)}, {"helper", "fails"}),
      Typed({Command("standard", "both", 1000)}, {"interrupt"})>>

MCScenes == Lives \o Benchmarks \o DayScenes

=============================================================================
