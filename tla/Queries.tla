------------------------------ MODULE Queries ------------------------------
(***************************************************************************)
(* What the dashboard reads (watch/store/queries, watch/contention.rs): a  *)
(* query is an operator of the rows of a table, a sequence in order of     *)
(* time, as its statement finds them.  Rows of other machines are not      *)
(* there.  What may be missing is a set of at most one element.            *)
(*                                                                         *)
(* MaxRows is the row budget of a statement (50 000 probe runs, 200 000    *)
(* turns or calls), MaxAnnotations that of the annotations (500).          *)
(***************************************************************************)
EXTENDS Bands

CONSTANTS MaxRows, MaxAnnotations

ASSUME QueriesAssumption == MaxRows \in Nat /\ MaxAnnotations \in Nat

Between(rows, from, to) == Where(rows, {r \in Range(rows) : from <= r.ts /\ r.ts <= to})
FirstOf(s, n) == SubSeq(s, 1, IF n < Len(s) THEN n ELSE Len(s))
LastOf(s, n) == SubSeq(s, IF n < Len(s) THEN Len(s) - n + 1 ELSE 1, Len(s))

\* Points::keep_recent
KeepRecent(points, limit) == [points |-> LastOf(points, limit), truncated |-> Len(points) > limit]

-----------------------------------------------------------------------------
(* Probe runs and their conditions                                         *)

Smaller(x, y) == IF x < y THEN x ELSE y

\* Mutants: the oldest points are kept; no row is asked for beyond the budget.
OldestWithin(found, limit) ==
    LET budget == Smaller(limit, MaxRows)
    IN  [points |-> FirstOf(found, budget), truncated |-> Len(found) > budget]
ExactlyWithin(found, limit) == LET budget == Smaller(limit, MaxRows)
                               IN  KeepRecent(LastOf(found, budget), budget)
\* The newest rows are selected, one more than will be sent, and put in order of time.
Within(found, limit) == LET budget == Smaller(limit, MaxRows)
                        IN  KeepRecent(LastOf(found, budget + 1), budget)

Comparable(rows, cleanOnly) == Where(rows, {r \in Range(rows) : cleanOnly => ~r.contended})

\* A probe series has a point for each run of its source that carries the metric.
ProbeMatches(rows, metric, source, from, to, cleanOnly) ==
    Each(LAMBDA r : [ts |-> r.ts, value |-> r.metrics[metric]],
         Where(Comparable(Between(rows, from, to), cleanOnly),
               {r \in Range(rows) : r.source = source /\ metric \in DOMAIN r.metrics}))
ProbeSeries(rows, metric, source, from, to, cleanOnly, limit) ==
    Within(ProbeMatches(rows, metric, source, from, to, cleanOnly), limit)

\* A conditions series has one for each run of any source whose platform reported it.
CondMatches(rows, condition, from, to, cleanOnly) ==
    Each(LAMBDA r : [ts |-> r.ts, value |-> r.conditions[condition]],
         Where(Comparable(Between(rows, from, to), cleanOnly),
               {r \in Range(rows) : condition \in DOMAIN r.conditions}))
CondSeries(rows, condition, from, to, cleanOnly, limit) ==
    Within(CondMatches(rows, condition, from, to, cleanOnly), limit)

\* comparable_values: what a verdict may draw on, the oldest rows if there are too many.
ComparableValues(rows, metric, from, to) ==
    FirstOf(Where(Comparable(Between(rows, from, to), TRUE),
                  {r \in Range(rows) : r.source = "probe" /\ metric \in DOMAIN r.metrics}), MaxRows)

\* contention::cause: the first covariate above its threshold, the most specific one first.
AGENT_WORKING_CORE_PERCENT == 20
BUSY_SCANNER_CORE_PERCENT == 10
BUSY_DISK_MIB_S == 20
BUSY_MACHINE_PERCENT == 40
Cause(conditions) ==
    LET above(c, threshold) == c \in DOMAIN conditions /\ conditions[c] > threshold
    IN  CASE above("agent_at", AGENT_WORKING_CORE_PERCENT) -> {"agent"}
          [] above("scanner_at", BUSY_SCANNER_CORE_PERCENT) -> {"scanner"}
          [] above("disk_write_bytes_s", BUSY_DISK_MIB_S) -> {"disk"}
          [] above("cpu_at", BUSY_MACHINE_PERCENT) -> {"machine"}
          [] OTHER -> {}

\* latest_run: a cause is asked for of a tagged run only, and a tagged run has one.
LatestRun(rows) ==
    LET r == rows[Len(rows)]
        found == Cause(r.conditions)
    IN  IF rows = <<>> THEN {}
        ELSE {[ts |-> r.ts, contended |-> r.contended, metrics |-> Cardinality(DOMAIN r.metrics),
               cause |-> IF ~r.contended THEN {} ELSE IF found = {} THEN {"machine"} ELSE found]}

-----------------------------------------------------------------------------
(* What else the page asks for                                             *)

\* annotations::runs: a run that overlaps the range, one that never ended up to its end.
RunsIn(markers, from, to) ==
    Where(markers, {m \in Range(markers) : m.ts <= to /\ (m.ended = {} \/ \E e \in m.ended : from <= e)})

\* in_range: changes of version and runs in order of time, the oldest if there are too many.
AnnotationsIn(versions, markers, from, to) ==
    FirstOf(SortSeq(Between(versions, from, to) \o RunsIn(markers, from, to),
                  LAMBDA a, b : a.ts < b.ts), MaxAnnotations)

\* samples::latest and what health says of the tables, the clean runs beside all of them.
LatestSample(samples) == {r \in Range(samples) : \A s \in Range(samples) : s.ts <= r.ts}
Health(store) ==
    [samples |-> Len(store.samples), probes |-> Len(store.probes),
     clean |-> Len(Comparable(store.probes, TRUE)), markers |-> Len(store.markers),
     turns |-> Len(store.turns), calls |-> Len(store.calls)]

RecentEvents(events, limit) == Reverse(LastOf(events, limit))

=============================================================================
