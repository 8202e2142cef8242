----------------------------- MODULE Comparison -----------------------------
(***************************************************************************)
(* Comparing two reports (compare/mod.rs, compare/compatibility.rs), for   *)
(* the page and for the command line.                                      *)
(*                                                                         *)
(* A report is [schema, kind, preset, live, model, runs, environment,      *)
(* metrics, profiles]: runs a set of [route, model], environment a partial *)
(* function from the facts of the inventory, metrics a sequence of [name,  *)
(* value, lower], profiles a sequence of [label, ms] with the label cut at *)
(* its "#".  A change is in tenths of a percent.                           *)
(***************************************************************************)
EXTENDS Bands, FiniteSets, Metrics

CONSTANT SCHEMA_VERSION

\* More than 10 %
REGRESSION_THRESHOLD == 100

Supported(report) == report.schema = SCHEMA_VERSION

\* ensure_comparable
AreComparable(a, b) ==
    /\ a.kind = b.kind /\ a.preset = b.preset /\ a.live = b.live /\ a.model = b.model
    /\ {run.route : run \in a.runs} = {run.route : run \in b.runs}
    /\ {run.model : run \in a.runs} = {run.model : run \in b.runs}

\* Rounded towards zero; no change at all from a value of zero.
ChangeFrom(base, value) ==
    IF base = 0 THEN 0
    ELSE (IF value < base THEN -1 ELSE 1) * ((1000 * Abs(value - base)) \div base)

\* Mutant: a change that is large is an improvement, in whichever direction.
ImprovedEitherWay(metric, change) ==
    IF metric.name \in Informational THEN "informational"
    ELSE IF Abs(change) > REGRESSION_THRESHOLD THEN "improvement" ELSE "similar"
Interpretation(metric, change) ==
    LET signed == IF metric.lower THEN -change ELSE change
    IN  IF metric.name \in Informational THEN "informational"
        ELSE CASE signed > REGRESSION_THRESHOLD -> "improvement"
               [] signed < -REGRESSION_THRESHOLD -> "regression"
               [] OTHER -> "similar"

\* What one report measured of a name, the last of several.
Measured(report, name) == Where(report.metrics, {x \in Range(report.metrics) : x.name = name})
MetricDeltas(a, b) ==
    LET both == Where(b.metrics, {x \in Range(b.metrics) : Measured(a, x.name) # <<>>})
        change(x) == ChangeFrom(Measured(a, x.name)[Len(Measured(a, x.name))].value, x.value)
    IN  [i \in 1..Len(both) |-> [name |-> both[i].name, change |-> change(both[i]),
                                 interpretation |-> Interpretation(both[i], change(both[i]))]]

\* The facts that differ, a fact one report lacks among them.
Differences(a, b) ==
    {f \in DOMAIN a.environment \cup DOMAIN b.environment :
        \/ f \notin DOMAIN a.environment \cap DOMAIN b.environment
        \/ a.environment[f] # b.environment[f]}

\* The mean of a case's repetitions, for the cases both have.
Labels(report) == {report.profiles[i].label : i \in DOMAIN report.profiles}
MeanMs(report, label) ==
    LET of == Where(report.profiles, {p \in Range(report.profiles) : p.label = label})
    IN  Total(Each(LAMBDA p : p.ms, of)) \div Len(of)
ProfileDeltas(a, b) ==
    [label \in Labels(a) \cap Labels(b) |-> [baseline |-> MeanMs(a, label), candidate |-> MeanMs(b, label)]]

\* handlers/compare and compare: the refusals of a pair, or what differs between its two.
Compared(a, b) ==
    IF Supported(a) /\ Supported(b) /\ AreComparable(a, b)
    THEN {[environment |-> Differences(a, b), metrics |-> MetricDeltas(a, b),
           profiles |-> ProfileDeltas(a, b)]}
    ELSE {}

=============================================================================
