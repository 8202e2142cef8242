------------------------------- MODULE Bench -------------------------------
(***************************************************************************)
(* One benchmark (bench/mod.rs, run_with_cancel): its phases in order,     *)
(* each of which may fail or find that it is cancelled, and the screen it  *)
(* runs behind at a terminal (ui/task.rs).                                 *)
(*                                                                         *)
(* bench.at is the phase it is in (announced as 1 to 8, "paid" and "live"  *)
(* being the seventh), or how it came out: "report", "error", or "gone"    *)
(* when the process ended with the work still in hand.  trouble is what    *)
(* may go wrong in this one.                                               *)
(***************************************************************************)
EXTENDS LiveCases

VARIABLE bench

benchVars == <<elapsed, cancelled, live, bench>>

DEFAULT_LIVE_MINIMUM == 30
LIVE_PHASE_MARGIN == 10

\* Preset::limits, in seconds.
Limits == [quick |-> [limit |-> 45, minimum |-> 0], standard |-> [limit |-> 240, minimum |-> 180],
           stress |-> [limit |-> 900, minimum |-> 600]]

NoBench == [at |-> "off", options |-> {}, terminal |-> FALSE, trouble |-> {}, warned |-> {}]
Goes == bench.at \notin {"off", "report", "error", "gone"}
May(what) == what \in bench.trouble
Options == CHOOSE o \in bench.options : TRUE

BenchInit == elapsed = 0 /\ cancelled = FALSE /\ live = Off /\ bench = NoBench
Begun(o, terminal, trouble) ==
    [NoBench EXCEPT !.at = "preflight", !.options = {o}, !.terminal = terminal, !.trouble = trouble]
Begins(o, terminal, trouble) ==
    elapsed' = 0 /\ cancelled' = FALSE /\ live' = Off /\ bench' = Begun(o, terminal, trouble)

GoesTo(at) == bench' = [bench EXCEPT !.at = at] /\ UNCHANGED <<elapsed, cancelled, live>>

\* Free space, the sampler and the scratch directory.
Preflight == /\ bench.at = "preflight"
             /\ GoesTo("cpu") \/ (May("work") /\ GoesTo("error"))
\* A phase that fails loses the run, and so does one that finds it is cancelled, in the middle
\* or at its end.
Phase(at, next) == /\ bench.at = at
                   /\ \/ May("work") /\ GoesTo("error")
                      \/ GoesTo(IF cancelled THEN "error" ELSE next)
Cpu == Phase("cpu", "memory")
Memory == Phase("memory", "filesystem")
Filesystem == Phase("filesystem", "sqlite")
Sqlite == Phase("sqlite", "process")
Process == Phase("process", "loopback")
Loopback == Phase("loopback", "https")
\* Its failure is a warning, and so is a cancellation it sees.
Https == /\ bench.at = "https"
         /\ \E skipped \in IF Options.offline THEN {FALSE} ELSE {cancelled, cancelled \/ May("network")} :
               bench' = [bench EXCEPT !.at = "paid", !.warned = @ \cup (IF skipped THEN {"https"} ELSE {})]
         /\ UNCHANGED <<elapsed, cancelled, live>>

LiveMinimum == LET m == Limits[Options.preset].minimum IN IF m = 0 THEN DEFAULT_LIVE_MINIMUM ELSE m
LiveMaximum == Limits[Options.preset].limit - LIVE_PHASE_MARGIN
LiveBegins == /\ bench.at = "paid"
              /\ \/ ~Options.live /\ GoesTo("integrations")
                 \/ Options.live /\ May("work") /\ GoesTo("error")
                 \/ /\ Options.live
                    /\ \E found \in {TRUE, ~May("spawn")}, up \in {TRUE, ~May("proxy")} :
                          live' = IF found THEN Suite(Options, up, LiveMinimum, LiveMaximum)
                                  ELSE [Off EXCEPT !.at = "failed", !.cap = Options.cap]
                    /\ bench' = [bench EXCEPT !.at = "live"]
                    /\ UNCHANGED <<elapsed, cancelled>>
\* An error of the suite is a warning unless it is the cancellation.
LiveEnds ==
    /\ bench.at = "live" /\ live.at \in {"over", "failed"}
    /\ \/ live.at = "failed" /\ cancelled /\ GoesTo("error")
       \/ /\ live.at = "over" \/ ~cancelled
          /\ bench' = [bench EXCEPT !.at = "integrations",
                           !.warned = @ \cup (IF live.at = "over" THEN Warnings ELSE {"live"})]
          /\ UNCHANGED <<elapsed, cancelled, live>>
LiveStep == /\ bench.at = "live"
            /\ \/ Round \/ TakeRoute \/ CaseBegins \/ TimesOut \/ Collected
               \/ May("spawn") /\ CannotBegin
            /\ UNCHANGED bench

Integrations == /\ bench.at = "integrations"
                /\ GoesTo(IF elapsed < Limits[Options.preset].minimum THEN "soak" ELSE "report")
\* Until the benchmark has taken as long as its preset wants it to.
Soak == /\ bench.at = "soak"
        /\ \/ (cancelled \/ May("work")) /\ GoesTo("error")
           \/ /\ elapsed' = Limits[Options.preset].minimum
              /\ bench' = [bench EXCEPT !.at = "report"]
              /\ UNCHANGED <<cancelled, live>>

-----------------------------------------------------------------------------
(* Around it                                                               *)

\* The processes of a case live on their own, and on after the benchmark.
CaseStep == /\ \/ May("helper") /\ (Forks \/ HelperEnds)
               \/ RootEnds("answered")
               \/ May("fails") /\ RootEnds("failed")
            /\ UNCHANGED bench

Passes == /\ Goes \/ live.case # {}
          /\ bench.at \in {"filesystem", "live", "gone"} /\ elapsed + Step <= MaxElapsed
          /\ elapsed' = elapsed + Step
          /\ UNCHANGED <<cancelled, live, bench>>

\* Ctrl+C, or a key at the screen.
Interrupt == /\ Goes /\ May("interrupt") /\ ~cancelled
             /\ cancelled' = TRUE
             /\ UNCHANGED <<elapsed, live, bench>>

\* run_task ends with an error of the screen, and the process with it.
ScreenFails == Goes /\ bench.terminal /\ May("screen") /\ GoesTo("gone")
\* The page stops it.
Killed == IF Goes THEN GoesTo("gone") ELSE UNCHANGED benchVars

BenchStep == \/ Preflight \/ Cpu \/ Memory \/ Filesystem \/ Sqlite \/ Process \/ Loopback \/ Https
             \/ LiveBegins \/ LiveStep \/ LiveEnds \/ Integrations \/ Soak
             \/ CaseStep \/ Passes \/ Interrupt \/ ScreenFails

-----------------------------------------------------------------------------
(* Properties                                                              *)

\* What the cases have cost, whether anybody was told or not.
PaidFor(runs) == LET sum[n \in 0..Len(runs)] == IF n = 0 THEN 0 ELSE sum[n - 1] + runs[n].cost
                 IN  sum[Len(runs)]
InHand == IF live.case = {} THEN 0 ELSE Case.cost
TrueCost == PaidFor(live.runs) + InHand

\* However many cases time out, fail, are killed or outlive the benchmark, what is spent is
\* bounded by the cap, once and again for each of the two failures a route is allowed; and a
\* report whose figure is too low says so (live_llm.rs, run_suite on unaccounted runs).
SpendIsBounded ==
    live.routes # <<>> =>
        /\ TrueCost <= live.cap + MinBudget + 2 * Len(live.routes) * Most(live.cap, MinBudget)
        /\ bench.at = "report" /\ TrueCost > live.total => bench.warned \cap {"unaccounted", "live"} # {}

\* Once a benchmark is told to stop it spends on the case in hand and on no more than the one
\* that was being started (bench/cancel.rs, and check_cancel in live_llm.rs).
CancelStopsSpending ==
    Cardinality({i \in DOMAIN live.runs : live.runs[i].late}) + Cardinality({c \in live.case : c.late}) <= 1

\* The two routes are compared on equal terms: as long as neither is disabled each case has been
\* run on both as often, but for the round in hand, and each of them went first as often, but for
\* one pass over the scenarios (live_llm.rs, route_order).
RoutesOnEqualTerms ==
    live.routes # <<>> /\ (\A route \in Range(live.routes) : ~Disabled(route)) =>
        LET taken == Len(live.runs)
            ran(route, n) == {i \in 1..taken : live.runs[i].route = route /\ live.runs[i].scenario = n}
            led(route, n) == {i \in ran(route, n) : live.runs[i].first}
        IN  \A r, s \in Range(live.routes), n \in DOMAIN Scenarios :
                /\ Cardinality(ran(r, n)) <= Cardinality(ran(s, n)) + 1
                /\ Cardinality(led(r, n)) <= Cardinality(led(s, n)) + 1

=============================================================================
