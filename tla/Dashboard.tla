----------------------------- MODULE Dashboard -----------------------------
(***************************************************************************)
(* The thread that serves the page (watch/serve/mod.rs, and the end of     *)
(* run_with in watch/mod.rs), the handlers it calls (watch/serve/handlers) *)
(* and the child of its benchmark slot with the thread that reads what it  *)
(* says (watch/serve/runs).  BenchRegistry has the slot's own              *)
(* interleavings; here a handler is one step, cut only where it waits.     *)
(*                                                                         *)
(* A scene is what a behaviour is about: a store, a zone and an instant,   *)
(* the requests a client may make, whether this daemon has a registry, and *)
(* which of the environment's doings happen in it (happens).               *)
(*                                                                         *)
(* AcceptLimit is ACCEPT_FAILURE_LIMIT, TailLines STDERR_LINES.  MaxLines, *)
(* MaxAge and MaxBuild bound what the child says, the clock and upgrades.  *)
(***************************************************************************)
EXTENDS Verdicts, Charts, Gates, BenchRequest, Comparison

CONSTANTS Scenes, Port, AcceptLimit, TailLines, MaxLines, MaxBuild, Edited,
          IdleInterval, StaleFloor, MaxAge, WindowDays

ASSUME DashboardAssumption ==
    TailLines \in Nat /\ IdleInterval \in Nat \ {0} /\ StaleFloor \in Nat /\ WindowDays \in Nat

\* No zone on record today moves its clocks back past a midnight, or forward over three hours.
ASSUME ZonesAssumption ==
    \A i \in DOMAIN Scenes : Regular(Scenes[i].zone) /\ Scenes[i].now \in Int

\* A request to compare carries two reports at most, each as this program writes them: a
\* metric once, with a value that is not negative and the direction its name has.
AreReports(a, b) ==
    /\ {a.metrics, b.metrics} \subseteq Seq([name : STRING, value : Nat, lower : BOOLEAN])
    /\ \A report \in {a, b} : \A i, j \in DOMAIN report.metrics :
           report.metrics[i].name = report.metrics[j].name => i = j
    /\ \A x \in Range(a.metrics), y \in Range(b.metrics) : x.name = y.name => x.lower = y.lower

ASSUME ReportsAssumption ==
    \A i \in DOMAIN Scenes : \A k \in DOMAIN Scenes[i].requests :
        LET asked == Scenes[i].requests[k]
        IN  asked.path = "compare" => \A c, d \in asked.body.content :
                                          c = d /\ AreReports(c.baseline, c.candidate)

\* What the parameters of a request for a series parse as.
ASSUME SeriesAssumption ==
    \A i \in DOMAIN Scenes : \A k \in DOMAIN Scenes[i].requests :
        LET asked == Scenes[i].requests[k]
        IN  asked.path = "series" =>
                /\ \A key \in {"from", "to", "bucket"} : Given(asked.query, key, 0) \in Int
                /\ Given(asked.query, "limit", 0) \in Nat

\* A table as a statement that orders it by time finds it.
Chronological(rows) ==
    /\ rows \in Seq(Range(rows)) /\ \A r \in Range(rows) : r.ts \in Int
    /\ \A i, j \in DOMAIN rows : i < j => rows[i].ts <= rows[j].ts

ASSUME StoresAssumption ==
    \A i \in DOMAIN Scenes :
        LET store == Scenes[i].store
        IN  /\ \A table \in {"samples", "rollup", "probes", "turns", "calls"} :
                   table \in DOMAIN store /\ Chronological(store[table])
            /\ \A r \in Range(store.probes) : \A m \in DOMAIN r.metrics : r.metrics[m] \in Int
            /\ \A r \in Range(store.calls) : r.ms \in Int
            /\ \A r \in Range(store.turns) : r.output \in Int
            /\ \A r \in Range(store.rollup) : r.ts < MaxInstant

\* Samples and minutes have their instant for a key.  A probe run takes seconds, and the next
\* one of the machine begins later.
OnePerInstant(rows) == \A i, j \in DOMAIN rows : rows[i].ts = rows[j].ts => i = j

ASSUME KeysAssumption ==
    \A i \in DOMAIN Scenes : \A table \in {"samples", "rollup", "probes"} :
        OnePerInstant(Scenes[i].store[table])

VARIABLES scene,    \* which of Scenes this is
          main,     \* where the main thread is: serving, behind it, or gone
          failures, \* accept failures in a row
          shutdown, \* the flag Ctrl+C and a stopped task set
          hand,     \* the request in hand, {} if none
          stalled,  \* its body has not arrived in full
          answer,   \* the last answer: [to, code, body], to {} if none, body {} if empty
          run,      \* the registry's slot: at most one run
          poisoned, \* a panic left the registry's mutex poisoned
          age,      \* of the newest sample there is, {} if there is none,
          sampled,  \* whether this daemon took one,
          writer,   \* and whether its writer runs
          build,    \* which binary this is
          copies    \* the client's copies of the scripts

vars == <<scene, main, failures, shutdown, hand, stalled, answer, run, poisoned, age, sampled,
          writer, build, copies>>

S == Scenes[scene]
R == S.requests[CHOOSE i \in hand : TRUE]
Happens(what) == what \in S.happens

Newest(rows) == IF rows = <<>> THEN {} ELSE {rows[Len(rows)].ts}
NoAnswer == [to |-> {}, code |-> 0, body |-> {}]

\* A script's content: those in Edited differ from build to build of one release.
Content(path, b) == <<path, IF path \in Edited THEN b ELSE 0>>
\* Mutant: the tag names the release.
EtagOfRelease(path, b) == <<path, 0>>
\* The digest of an asset's bytes.
Etag(path, b) == Content(path, b)

Init == /\ scene \in DOMAIN Scenes
        /\ main = "serving" /\ failures = 0 /\ shutdown = FALSE
        /\ hand = {} /\ stalled = FALSE /\ answer = NoAnswer
        /\ run = {} /\ poisoned = FALSE
        /\ age = {S.now - ts : ts \in Newest(S.store.samples)}
        /\ sampled = FALSE /\ writer = TRUE
        /\ build = 1 /\ copies = [p \in Scripts |-> {}]

serverVars == <<main, failures, shutdown>>
requestVars == <<hand, stalled, answer>>
worldVars == <<age, sampled, writer, build>>

-----------------------------------------------------------------------------
(* Server::serve                                                           *)

Accept == /\ main = "serving" /\ hand = {} /\ ~shutdown
          /\ hand' \in {{i} : i \in DOMAIN S.requests}
          /\ stalled' \in {FALSE, Happens("stall")}
          /\ failures' = 0
          /\ answer' = NoAnswer
          /\ UNCHANGED <<scene, main, shutdown, run, poisoned, worldVars, copies>>

\* recv_timeout passes without a request.
WaitPasses == /\ main = "serving" /\ hand = {} /\ failures > 0
              /\ failures' = 0
              /\ UNCHANGED <<scene, main, shutdown, requestVars, run, poisoned, worldVars, copies>>

AcceptFails == /\ main = "serving" /\ hand = {} /\ ~shutdown /\ Happens("accept")
               /\ failures' = failures + 1
               /\ main' = IF failures' >= AcceptLimit THEN "ending" ELSE main
               /\ UNCHANGED <<scene, shutdown, requestVars, run, poisoned, worldVars, copies>>

\* Mutant: the flag is read only after one more request.
ShutdownAfterRequest == /\ main = "serving" /\ hand = {} /\ shutdown /\ answer.to # {}
                        /\ main' = "ending"
                        /\ UNCHANGED <<scene, failures, shutdown, requestVars, run, poisoned,
                                       worldVars, copies>>
SeesShutdown == /\ main = "serving" /\ hand = {} /\ shutdown
                /\ main' = "ending"
                /\ UNCHANGED <<scene, failures, shutdown, requestVars, run, poisoned, worldVars, copies>>

\* read_body waits for as long as the client takes: it sends the rest, or it goes away.
BodyEnds == /\ hand # {} /\ stalled
            /\ stalled' = FALSE
            /\ UNCHANGED <<scene, serverVars, hand, answer, run, poisoned, worldVars, copies>>

\* respond, and back to the loop.
Answers(code, body) == /\ answer' = [to |-> hand, code |-> code, body |-> body]
                       /\ hand' = {}
                       /\ UNCHANGED <<scene, failures, shutdown, stalled, worldVars>>

\* Mutant: a handler's panic is the thread's.
PanicUnwinds == /\ Answers(500, {}) /\ main' = "unwound"
\* catch_unwind: a panic costs the request.
Panics == /\ Answers(500, {}) /\ UNCHANGED main

Refuse == /\ main = "serving" /\ hand # {} /\ ~stalled
          /\ \E code \in Refusal(R, Port) : Answers(code, {})
          /\ UNCHANGED <<main, run, poisoned, copies>>

\* A request that is let through and finds the database, or does not.
Ready == main = "serving" /\ hand # {} /\ ~stalled /\ Refusal(R, Port) = {}
NoDatabase == /\ Ready /\ Happens("no database")
              /\ Answers(503, {})
              /\ UNCHANGED <<main, run, poisoned, copies>>

-----------------------------------------------------------------------------
(* Handlers that only read                                                 *)

\* What the client sends as If-None-Match: a browser names the copy it has, and never "*".
Held(path) == [any |-> FALSE, tags |-> {c.tag : c \in copies[path]}]
Asset == /\ Ready /\ Route(R) = "asset"
         /\ IF R.path \in Documents THEN Answers(200, {}) /\ UNCHANGED copies
            ELSE /\ Answers(AssetCode(R.path, Held(R.path), Etag(R.path, build)), {})
                 /\ copies' = IF answer'.code = 304 THEN copies
                              ELSE [copies EXCEPT ![R.path] =
                                       {[tag |-> Etag(R.path, build), content |-> Content(R.path, build)]}]
         /\ UNCHANGED <<main, run, poisoned>>

Unrouted == /\ Ready /\ Route(R) \in {"404", "405"}
            /\ IF Route(R) = "404" THEN Answers(404, {}) ELSE Answers(405, {[allow |-> Allowed(R)]})
            /\ UNCHANGED <<main, run, poisoned, copies>>

\* status::build.  Mutant: a fixed threshold.
FixedThreshold(interval) == StaleFloor
StaleAfter(interval) == Larger(2 * interval, StaleFloor)
StatusBody == [age |-> age, writer |-> writer,
               collecting |-> writer /\ (\E a \in age : a < StaleAfter(IdleInterval)),
               health |-> Health(S.store), series |-> KnownSeries,
               events |-> RecentEvents(S.store.events, Smaller(Given(R.query, "events", 50), 500))]

DayStart == (CHOOSE d \in Containing(S.zone, S.now) : TRUE).start
LiveBody == [start |-> DayStart, sample |-> LatestSample(S.store.samples),
             probe |-> LatestRun(S.store.probes)]
TodayBody == [start |-> DayStart, today |-> Today(S.store, DayStart, S.now)]

\* handlers/compare: two documents, each a report, or a refusal.
CompareAnswer == LET found == UNION {Compared(c.baseline, c.candidate) : c \in R.body.content}
                 IN  IF found = {} THEN Refused(400) ELSE [code |-> 200, body |-> found]

\* Registry::options, or why this daemon has none.
OptionsBody == [allowed |-> S.registry, presets |-> Presets, default |-> "standard",
                target |-> IF S.registry THEN {DataDir} ELSE {}, cap |-> MAX_COST_CAP]

ReadAnswer == CASE Route(R) = "live" -> Ok(LiveBody)
                [] Route(R) = "today" -> Ok(TodayBody)
                [] Route(R) = "series" -> SeriesAnswer(R.query, S.store, S.now)
                [] Route(R) = "status" -> Ok(StatusBody)
                [] Route(R) = "verdicts" -> Ok(TodayAgainstBaseline(S.store, S.zone, S.now, WindowDays))
                [] Route(R) = "options" -> Ok(OptionsBody)
                [] Route(R) = "compare" -> CompareAnswer

Reads == {"live", "today", "series", "status", "verdicts", "options", "compare"}
Read == /\ Ready /\ Route(R) \in Reads
        /\ \E a \in {ReadAnswer} : Answers(a.code, a.body)
        /\ UNCHANGED <<main, run, poisoned, copies>>

Annotate == /\ Ready /\ Route(R) = "annotations"
            /\ \E a \in AnnotationsAnswer(R.query, S.store, S.now) :
                  IF a.code = 500 THEN Panics ELSE Answers(a.code, a.body) /\ UNCHANGED main
            /\ UNCHANGED <<run, poisoned, copies>>

-----------------------------------------------------------------------------
(* The benchmark slot.  A run is [asked, summary, options, alive, code,    *)
(* cancelled, said, unread, tail, settled]: options what the child's       *)
(* command line came to, said the lines it wrote to stderr, unread those   *)
(* in the pipe, tail those its reader kept.                                *)

Child == CHOOSE c \in run : TRUE
InFlight == run # {} /\ Child.alive

\* finish waits for the child and joins the reader of its pipe.
\* Mutant: finish waits for the child alone.
Unjoined == run # {} /\ ~Child.alive
Joined == run # {} /\ ~Child.alive /\ Child.unread = <<>>

Spawned(asked, v) == LET args == ToArgs(v, DataDir)
                     IN  [asked |-> asked, summary |-> Summary(v), options |-> Parsed(args),
                          alive |-> TRUE, code |-> {}, cancelled |-> FALSE,
                          said |-> <<>>, unread |-> <<>>, tail |-> <<>>, settled |-> FALSE]

Closed503 == ~S.registry /\ Answers(503, {}) /\ UNCHANGED <<main, run, poisoned>>
\* The lock of a registry that a panic has poisoned.
Locked == S.registry /\ poisoned /\ Panics /\ UNCHANGED <<run, poisoned>>

\* handlers/bench::start: the document and the request are looked at before the slot is.
StartRefused == /\ S.registry
                /\ \A asked \in R.body.content : Validated(asked) = {}
                /\ Answers(400, {}) /\ UNCHANGED <<main, run, poisoned>>
StartBusy == /\ InFlight /\ Answers(409, {}) /\ UNCHANGED <<main, run, poisoned>>
\* What Registry::start does with the slot, a run that is over having been settled first.
Slot == IF run = {} THEN {} ELSE {[Child EXCEPT !.settled = TRUE]}
StartFails == /\ Happens("spawn fails") /\ run' = Slot
              /\ Answers(500, {}) /\ UNCHANGED <<main, poisoned>>
\* thread::spawn panics under the lock: the child is nobody's from here on.
StartPanics == /\ Happens("no thread") /\ run' = Slot
               /\ poisoned' = TRUE /\ Panics
Started(asked) == /\ run' = {Spawned(asked, v) : v \in Validated(asked)}
                  /\ Answers(202, {}) /\ UNCHANGED <<main, poisoned>>
Start == /\ Ready /\ Route(R) = "bench"
         /\ \/ Closed503
            \/ StartRefused
            \/ \E asked \in R.body.content :
                  /\ S.registry /\ Validated(asked) # {}
                  /\ \/ Locked
                     \/ ~poisoned /\ StartBusy
                     \/ ~poisoned /\ (run # {} => Child.settled \/ Joined)
                        /\ (StartFails \/ StartPanics \/ Started(asked))
         /\ UNCHANGED copies

\* Registry::snapshot; no registry is an idle one.
Poll == /\ Ready /\ Route(R) = "run"
        /\ \/ Locked
           \/ /\ ~S.registry \/ (~poisoned /\ (run = {} \/ InFlight))
              /\ Answers(200, {[state |-> IF InFlight THEN "running" ELSE "idle"]})
              /\ UNCHANGED <<main, run, poisoned>>
           \/ /\ S.registry /\ ~poisoned /\ run # {} /\ (Child.settled \/ Joined)
              /\ run' = {[Child EXCEPT !.settled = TRUE]}
              /\ Answers(200, {[state |-> "finished", stderr |-> Child.tail, code |-> Child.code,
                                ok |-> Child.code = {0} /\ ~Child.cancelled]})
              /\ UNCHANGED <<main, poisoned>>
        /\ UNCHANGED copies

\* Registry::cancel and kill: refused once the run is seen to be over.
Cancel == /\ Ready /\ Route(R) = "cancel"
          /\ \/ Closed503
             \/ Locked
             \/ /\ S.registry /\ ~poisoned /\ ~InFlight
                /\ Answers(409, {}) /\ UNCHANGED <<main, run, poisoned>>
             \/ /\ S.registry /\ ~poisoned /\ InFlight
                /\ run' = {[Child EXCEPT !.alive = FALSE, !.cancelled = TRUE]}
                /\ Answers(200, {}) /\ UNCHANGED <<main, poisoned>>
          /\ UNCHANGED copies

-----------------------------------------------------------------------------
(* The child, and the thread that reads it                                 *)

ChildVars == <<scene, serverVars, requestVars, poisoned, worldVars, copies>>
Say == /\ InFlight /\ Len(Child.said) < MaxLines
       /\ run' = {[Child EXCEPT !.said = Append(@, Len(@) + 1), !.unread = Append(@, Len(Child.said) + 1)]}
       /\ UNCHANGED ChildVars
\* A command line that did not parse is explained and ends at once with 2.
Ends(code) == /\ InFlight
              /\ code = 2 <=> Child.options = {}
              /\ code # 0 => Child.said # <<>>
              /\ run' = {[Child EXCEPT !.alive = FALSE, !.code = {code}]}
              /\ UNCHANGED ChildVars
Keep == /\ run # {} /\ Child.unread # <<>>
        /\ run' = {[Child EXCEPT !.unread = Tail(@),
                                 !.tail = LastOf(Append(@, Head(Child.unread)), TailLines)]}
        /\ UNCHANGED ChildVars

-----------------------------------------------------------------------------
(* Behind the server: run_with ends the run in flight and goes on          *)
(* collecting until it is told to stop.                                    *)

\* The lock that a panic has poisoned is taken here by the main thread itself.
RunsShutdown == /\ main = "ending"
                /\ main' = IF S.registry /\ poisoned THEN "unwound" ELSE "collecting"
                /\ run' = IF InFlight /\ ~poisoned
                          THEN {[Child EXCEPT !.alive = FALSE, !.cancelled = TRUE]} ELSE run
                /\ UNCHANGED <<scene, failures, shutdown, requestVars, poisoned, worldVars, copies>>
\* Mutant: the end of serving is the end of the daemon.
StopsWithPage == /\ main = "collecting"
                 /\ main' = "stopped"
                 /\ UNCHANGED <<scene, failures, shutdown, requestVars, run, poisoned, worldVars, copies>>
Stops == /\ main = "collecting" /\ shutdown
         /\ main' = "stopped"
         /\ UNCHANGED <<scene, failures, shutdown, requestVars, run, poisoned, worldVars, copies>>

Signal == /\ Happens("shutdown") /\ ~shutdown /\ main \in {"serving", "collecting"}
          /\ shutdown' = TRUE
          /\ UNCHANGED <<scene, main, failures, requestVars, run, poisoned, worldVars, copies>>

\* A new binary is started in place of the one that stopped.
Upgrade == /\ Happens("upgrade") /\ main = "stopped" /\ build < MaxBuild
           /\ build' = build + 1
           /\ main' = "serving" /\ failures' = 0 /\ shutdown' = FALSE
           /\ hand' = {} /\ stalled' = FALSE /\ answer' = NoAnswer
           /\ run' = {} /\ poisoned' = FALSE
           /\ sampled' = FALSE /\ writer' = TRUE
           /\ UNCHANGED <<scene, age, copies>>

\* The clock.  A sampler at its idle cadence that may miss one sample, while the writer runs;
\* its first may take as long as it likes.  A row from the future stays the newest there is.
Aside == <<scene, serverVars, requestVars, run, poisoned, build, copies>>
Tick == /\ Happens("time")
        /\ \A a \in age : a < MaxAge /\ (writer /\ sampled => a + 1 < 2 * IdleInterval)
        /\ age' = {a + 1 : a \in age}
        /\ UNCHANGED <<sampled, writer, Aside>>
Sample == /\ Happens("time") /\ writer
          /\ age' = IF \E a \in age : a < 0 THEN age ELSE {0}
          /\ sampled' = TRUE
          /\ UNCHANGED <<writer, Aside>>
WriterStops == Happens("time") /\ writer /\ writer' = FALSE /\ UNCHANGED <<age, sampled, Aside>>

Serve == \/ Accept \/ WaitPasses \/ AcceptFails \/ SeesShutdown \/ BodyEnds
         \/ Refuse \/ NoDatabase \/ Asset \/ Unrouted \/ Read \/ Annotate
         \/ Start \/ Poll \/ Cancel
Next == \/ Serve
        \/ Say \/ Ends(0) \/ Ends(1) \/ Ends(2) \/ Keep
        \/ RunsShutdown \/ Stops \/ Signal \/ Upgrade
        \/ Tick \/ Sample \/ WriterStops

Spec == Init /\ [][Next]_vars

\* The main thread goes on, and a reader reads what there is.  Of a client that has begun to
\* send a body nothing is assumed: read_body waits for it without a limit.  Read and Annotate
\* are enabled whenever a request of theirs is ready.
Fairness == /\ WF_vars(SeesShutdown) /\ WF_vars(RunsShutdown) /\ WF_vars(Stops)
            /\ WF_vars(Keep)
            /\ WF_vars(Refuse \/ NoDatabase \/ Asset \/ Unrouted)
            /\ WF_vars(Start \/ Poll \/ Cancel)
            /\ WF_hand(Ready /\ Route(R) \in Reads \cup {"annotations"} /\ hand' = {})

-----------------------------------------------------------------------------
(* Properties                                                              *)

\* What the last answer answers.
Asked == S.requests[CHOOSE i \in answer.to : TRUE]
Told == CHOOSE b \in answer.body : TRUE
Answered(path) == answer.to # {} /\ Asked.path = path /\ answer.code = 200

\* A client that keeps its copy because it was told nothing changed, or replaces it, holds
\* the script this binary serves: an upgrade never leaves a page with a script of another
\* build, not even of the same release (response.rs, Resp::etag and etag).
CacheNeverStale ==
    answer.to # {} /\ Asked.path \in Scripts /\ answer.code \in {200, 304}
    => \E c \in copies[Asked.path] : c.content = Content(Asked.path, build)

\* The rows a chart is about, whatever the budgets: as a set, without the queries.
RowsOf(q, from, to) ==
    LET clean == Given(q, "contended", "include") = "exclude"
        name == q.metric.name
        probes == {r \in Range(S.store.probes) : from <= r.ts /\ r.ts <= to /\ (clean => ~r.contended)}
        passive == Range(S.store.samples) \cup Range(S.store.rollup)
    IN  CASE Family(q.metric) = {"probe"} ->
               {[ts |-> r.ts, value |-> r.metrics[name]] :
                   r \in {x \in probes : x.source = q.metric.prefix /\ name \in DOMAIN x.metrics}}
          [] Family(q.metric) = {"conditions"} ->
               {[ts |-> r.ts, value |-> r.conditions[name]] :
                   r \in {x \in probes : name \in DOMAIN x.conditions}}
          [] OTHER -> {[ts |-> r.ts, value |-> r.values[name]] :
                   r \in {x \in passive : from <= x.ts /\ x.ts <= to /\ name \in DOMAIN x.values}}

\* The minutes lie before the samples, as the hourly pass leaves them while the clock is not
\* set back; a minute behind a sample is in no chart.
MinutesFirst == \A m \in Range(S.store.rollup), r \in Range(S.store.samples) : m.ts < r.ts

\* A chart of stored values is made of rows of the range and of no others, each once and in
\* order; what it leaves out is older than what it shows, and it says that something is
\* missing exactly when something is (queries/mod.rs, Points::keep_recent and truncated; the
\* join of samples and minutes in queries/samples.rs).
ChartsTheRecentEnd ==
    Answered("series") /\ Family(Asked.query.metric) # {"session"}
    /\ (Family(Asked.query.metric) = {"sample"} => MinutesFirst) =>
        LET rows == RowsOf(Asked.query, Told.from, Told.to)
            shown == Range(Told.points)
        IN  /\ shown \subseteq rows
            /\ \A i, j \in DOMAIN Told.points :
                   i < j => Told.points[i].ts < Told.points[j].ts
            /\ \A r \in rows \ shown, p \in shown : r.ts < p.ts
            /\ Told.truncated <=> rows # shown

\* A chart of tokens counts each of the newest MaxRows turns of the range in exactly one
\* bucket, the one it falls in, and no other turn: a bucket it shows is the sum of those in
\* it, and together the buckets are the sum of all of them unless it says that some are
\* missing (sessions/series.rs, session_series).  Of older turns of the range it says nothing.
EveryTurnInOneBucket ==
    Answered("series") /\ Family(Asked.query.metric) = {"session"}
    /\ Asked.query.metric.name = "output_tokens" =>
        LET turns == LastOf(Between(S.store.turns, Told.from, Told.to), MaxRows)
            width == CHOOSE w \in Told.bucket : TRUE
            inside(p) == Where(turns, {t \in Range(turns) : p.ts <= t.ts /\ t.ts < p.ts + width})
        IN  /\ \A p \in Range(Told.points) :
                   p.value = Total(Each(LAMBDA t : t.output, inside(p)))
            /\ ~Told.truncated => Total(Each(LAMBDA p : p.value, Told.points))
                                  = Total(Each(LAMBDA t : t.output, turns))

\* A chart shows the recent end of its rows, nothing twice, and tells what it cut off; one of
\* tokens counts no turn twice and drops none of the newest (the two above).
ChartsAreWhole == ChartsTheRecentEnd /\ EveryTurnInOneBucket

\* The day a verdict judges has begun and holds the present, and the days it is compared
\* with follow one another up to it without gap or overlap, whatever the clocks do: no
\* row is counted for two days or for none (day.rs).
DaysTile ==
    Answered("verdicts") =>
        LET today == CHOOSE d \in Containing(S.zone, S.now) : TRUE
            days == Append(Preceding(S.zone, today, WindowDays), today)
        IN  /\ Told.start = today.start
            /\ InDay(today, S.now)
            /\ Len(days) = WindowDays + 1
            /\ \A i \in 1..WindowDays : days[i].end = days[i + 1].start

Without(rows, from) == Where(rows, {r \in Range(rows) : r.ts < from})
Yesterday == [S.store EXCEPT !.probes = Without(@, Told.start),
                             !.turns = Without(@, Told.start),
                             !.calls = Without(@, Told.start)]

\* The days behind the band of each subject, from a store.
DaysBehind(store, today) ==
    LET window == Preceding(S.zone, today, WindowDays)
    IN  <<>> \o [i \in DOMAIN SUBJECTS |-> Gather(store, SUBJECTS[i], today, window).window]
BandDays(store) == DaysBehind(store, CHOOSE d \in Containing(S.zone, S.now) : TRUE)

BandsAre(days) ==
    \A i \in DOMAIN SUBJECTS : Told.comparisons[i].band = Baseline(days[i])
\* Nothing that happens today moves the band today is judged against: what is normal is the
\* same as if today had not been, on every day of the zone (comparison/mod.rs, preceding).
TodayJudgesNotItself == Answered("verdicts") => BandsAre(BandDays(Yesterday))

Outvoted(days) ==
    \A i \in DOMAIN SUBJECTS : \A b \in Told.comparisons[i].band, k \in DOMAIN days[i] :
        /\ \E j \in DOMAIN days[i] \ {k} : days[i][j].value <= b.median
        /\ \E j \in DOMAIN days[i] \ {k} : days[i][j].value >= b.median
\* One day out of the ordinary does not become the norm: whichever day is set aside, the
\* middle of the band lies among the values of the others (baseline.rs, why the median).
OneDayIsNotTheNorm == Answered("verdicts") => Outvoted(BandDays(S.store))

\* The band is the norm: neither the day it judges nor any one day before it makes it (the
\* two above).
BandIsTheNorm == TodayJudgesNotItself /\ OneDayIsNotTheNorm

\* Once this daemon has taken a sample, and while its writer runs and at most one sample in a
\* row is missed, at whatever cadence is configured, the page is told that collection goes on.
\* It is never told so once the writer has stopped, however fresh the last sample is, nor
\* where there is no sample at all (handlers/status.rs, stale_after_ms and build).
StatusTellsTheTruth ==
    [][hand # {} /\ hand' = {} /\ R.path = "status" /\ answer'.code = 200
       => \A b \in answer'.body : /\ writer /\ sampled => b.collecting
                                  /\ b.collecting => writer /\ age # {}]_vars

\* Exchanging the two reports of a comparison never leaves a metric better both ways or
\* worse both ways, and gives the same cases and differences (compare/mod.rs).
Oriented ==
    Answered("compare") =>
        \A c \in Asked.body.content : \E back \in Compared(c.candidate, c.baseline) :
            /\ back.environment = Told.environment
            /\ DOMAIN back.profiles = DOMAIN Told.profiles
            /\ \A d \in Range(Told.metrics), e \in Range(back.metrics) :
                  d.name = e.name => /\ {d.interpretation, e.interpretation} # {"improvement"}
                                     /\ {d.interpretation, e.interpretation} # {"regression"}

\* The child runs what the page was told it would run, in the database of this daemon, and
\* spends money only if the request asked for it in so many words and within the cap: what
\* a default of the command line says never comes into it (runs/request.rs, to_args).
AskedIsRun ==
    \A c \in run : \A o \in c.options :
        /\ <<o.preset, o.target, o.scratch, o.offline, o.live>>
           = <<c.summary.preset, c.summary.target, c.summary.scratch, c.summary.offline, c.summary.live>>
        /\ o.live => /\ Field(c.asked, "live_llm", FALSE)
                     /\ <<o.route, o.model, o.cap>> \in c.summary.llm
                     /\ o.cap <= MAX_COST_CAP
        /\ ~o.tui /\ o.marks = {DataDir}

\* A run reported as over is reported with the last lines it wrote, although another thread
\* reads them and may be behind the exit (child.rs, finish).
ExplainsFailure ==
    Answered("run") /\ Told.state = "finished" => Told.stderr = LastOf(Child.said, TailLines)

\* The page is not the daemon: a listener that fails, a handler that panics and the end of
\* serving leave it collecting until it is told to stop.  Only a registry poisoned by a
\* thread that could not be made takes it down (mod.rs, serve; watch/mod.rs, run_with).
OutlivesThePage == /\ main = "stopped" => shutdown
                   /\ main = "unwound" => poisoned

\* A daemon told to stop stops, whatever request is in hand and whatever its listener does,
\* unless a client that has begun to send a body never sends the rest and never goes away:
\* nothing in the server bounds that wait (serve/mod.rs, serve and read_body).
ShutdownHonoured == (shutdown ~> main \in {"stopped", "unwound"}) \/ <>[]stalled

=============================================================================
