----------------------------- MODULE LiveCases -----------------------------
(***************************************************************************)
(* The paid phase of a benchmark (live_llm.rs) and the command each of its *)
(* cases is (profile.rs).                                                  *)
(*                                                                         *)
(* live.at is where run_suite is: "round" at the head of its loop, "route" *)
(* at that of a round, "cleared" between its last check and the start of a *)
(* case, "case" behind one, "over", "failed", or "off".  runs are the      *)
(* cases that came back, case the one that is out, whoever still waits for *)
(* it: its root process, a helper the root started that holds the same     *)
(* pipes, what it will have cost, and whether it began too late (late).    *)
(* total, unaccounted and failures are what the suite counts of the runs:  *)
(* what they said they cost, how many did not say, and the failures of     *)
(* each route.                                                             *)
(*                                                                         *)
(* Times are seconds, Step the grain of the model's clock up to MaxElapsed;*)
(* costs are cents, Costs what a case may come to within its budget.       *)
(* Margin is 10 s, CaseLimit 90 s, MinBudget one cent.                     *)
(***************************************************************************)
EXTENDS Integers, Sequences, SequencesExt, FiniteSets

CONSTANTS Margin, CaseLimit, MinBudget, Costs, Step, MaxElapsed

ASSUME LiveAssumption == MinBudget \in Nat /\ Costs \subseteq Nat /\ Margin \in Nat /\ Step \in Nat

VARIABLES elapsed,    \* since the benchmark began
          cancelled,  \* the flag its checks read
          live

Scenarios == <<"latency", "throughput", "file_seek">>
Rounds == 2 * Len(Scenarios)

Most(x, y) == IF x < y THEN y ELSE x
Least(x, y) == IF x < y THEN x ELSE y

RouteNames == {"direct", "headroom"}
\* The routes of an option, by whether the proxy answers; none if it has to and does not.
RoutesFor(route, up) == CASE route = "direct" \/ (route = "auto" /\ ~up) -> <<"direct">>
                          [] route \in {"headroom", "both"} /\ ~up -> <<>>
                          [] route = "headroom" /\ up -> <<"headroom">>
                          [] OTHER -> <<"direct", "headroom">>

Off == [at |-> "off", cap |-> 0, minimum |-> 0, maximum |-> 0, routes |-> <<>>, index |-> 0,
        left |-> <<>>, runs |-> <<>>, case |-> {}, total |-> 0, unaccounted |-> 0,
        failures |-> [route \in RouteNames |-> 0]]
\* run_suite up to its loop, the fixture written.
Suite(o, up, minimum, maximum) ==
    [Off EXCEPT !.at = IF RoutesFor(o.route, up) = <<>> THEN "failed" ELSE "round", !.cap = o.cap,
                !.minimum = minimum, !.maximum = maximum, !.routes = RoutesFor(o.route, up)]

-----------------------------------------------------------------------------
(* What the suite knows                                                    *)

\* Mutant: a route goes on however often it fails.
NeverDisabled(route) == FALSE
Disabled(route) == live.failures[route] >= 2
AllDisabled == \A route \in Range(live.routes) : Disabled(route)
Remaining == Most(live.maximum - elapsed, 0)
Budget == Most(live.cap - live.total, MinBudget)

\* Mutant: every round asks the same route first.
OrderAlways(index) == live.routes
\* Every other round of the scenarios asks the routes in reverse.
Order(index) == IF (index \div Len(Scenarios)) % 2 = 0 THEN live.routes ELSE Reverse(live.routes)

\* What the report is told beside the runs.
Warnings == {w \in {"cap", "disabled", "unaccounted", "routes"} :
                CASE w = "cap" -> live.total >= live.cap
                  [] w = "disabled" -> \E route \in Range(live.routes) : Disabled(route)
                  [] w = "unaccounted" -> live.unaccounted > 0
                  [] w = "routes" -> Len(live.routes) > 1}

-----------------------------------------------------------------------------
(* run_suite                                                               *)

\* The index matters only for the scenario and the order, so it is kept within two rounds of them.
NextRound == [live EXCEPT !.at = "round", !.index = (@ + 1) % Rounds, !.left = <<>>]

Round == /\ live.at = "round"
         /\ live' = IF AllDisabled \/ elapsed >= live.minimum \/ elapsed >= live.maximum
                       \/ live.total >= live.cap THEN [live EXCEPT !.at = "over"]
                    ELSE IF cancelled THEN [live EXCEPT !.at = "failed"]
                    ELSE [live EXCEPT !.at = "route", !.left = Order(live.index)]
         /\ UNCHANGED <<elapsed, cancelled>>

\* Mutant: only the head of a round looks whether it is to stop.
TakeRouteOn ==
    /\ live.at = "route"
    /\ live' = IF live.left = <<>> THEN NextRound
               ELSE IF Disabled(Head(live.left)) THEN [live EXCEPT !.left = Tail(@)]
               ELSE IF Remaining < Margin \/ live.total >= live.cap THEN NextRound
               ELSE [live EXCEPT !.at = "cleared"]
    /\ UNCHANGED <<elapsed, cancelled>>
TakeRoute ==
    /\ live.at = "route"
    /\ live' = IF live.left = <<>> THEN NextRound
               ELSE IF cancelled THEN [live EXCEPT !.at = "failed"]
               ELSE IF Disabled(Head(live.left)) THEN [live EXCEPT !.left = Tail(@)]
               ELSE IF Remaining < Margin \/ live.total >= live.cap THEN NextRound
               ELSE [live EXCEPT !.at = "cleared"]
    /\ UNCHANGED <<elapsed, cancelled>>

\* run_case: the command starts, with what is left of the budget, or it cannot be started.
CaseBegins ==
    /\ live.at = "cleared"
    /\ \E cost \in {c \in Costs : c <= Budget} :
          live' = [live EXCEPT !.at = "case", !.left = Tail(@),
                       !.case = {[route |-> Head(live.left), scenario |-> (live.index % Len(Scenarios)) + 1,
                                  first |-> Len(live.left) = Len(live.routes), late |-> cancelled,
                                  cost |-> cost, began |-> elapsed,
                                  limit |-> Least(Remaining, CaseLimit), root |-> "runs",
                                  helper |-> "none"]}]
    /\ UNCHANGED <<elapsed, cancelled>>
CannotBegin == /\ live.at = "cleared"
               /\ live' = [live EXCEPT !.at = "failed"]
               /\ UNCHANGED <<elapsed, cancelled>>

-----------------------------------------------------------------------------
(* profile_command_capture, and the command it watches                     *)

Case == CHOOSE c \in live.case : TRUE
CaseIs(c) == live' = [live EXCEPT !.case = {c}] /\ UNCHANGED <<elapsed, cancelled>>

Forks == /\ live.case # {} /\ Case.root = "runs" /\ Case.helper = "none"
         /\ CaseIs([Case EXCEPT !.helper = "runs"])
HelperEnds == /\ live.case # {} /\ Case.helper = "runs"
              /\ CaseIs([Case EXCEPT !.helper = "ended"])
\* It answers, or it fails, and either takes time.
RootEnds(how) == /\ live.case # {} /\ Case.root = "runs" /\ elapsed > Case.began
                 /\ CaseIs([Case EXCEPT !.root = how])
\* The tree of the last walk is killed: a helper started since then is not in it.
TimesOut == /\ live.at = "case" /\ Case.root = "runs" /\ elapsed - Case.began >= Case.limit
            /\ \E helper \in {Case.helper, IF Case.helper = "runs" THEN "ended" ELSE Case.helper} :
                  CaseIs([Case EXCEPT !.root = "timed out", !.helper = helper])

\* What is kept of the case, and counted of it.  One that answered says what it cost, one that
\* failed or was killed only if it had come to its result.
Ran(said) == [route |-> Case.route, scenario |-> Case.scenario, first |-> Case.first,
              late |-> Case.late, cost |-> Case.cost, said |-> said, ok |-> Case.root = "answered"]
With(ran) == [live EXCEPT !.at = "route", !.case = {}, !.runs = Append(@, ran),
                         !.total = IF ran.said THEN @ + ran.cost ELSE @,
                         !.unaccounted = IF ran.said THEN @ ELSE @ + 1,
                         !.failures[ran.route] = IF ran.ok THEN @ ELSE @ + 1]
\* Both readers are joined, so that the pipes are closed by all who held them.
Collected == /\ live.at = "case" /\ Case.root # "runs" /\ Case.helper # "runs"
             /\ \E said \in {TRUE, Case.root = "answered"} : live' = With(Ran(said))
             /\ UNCHANGED <<elapsed, cancelled>>

=============================================================================
