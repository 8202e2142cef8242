------------------------------- MODULE Charts -------------------------------
(***************************************************************************)
(* GET /api/series and GET /api/annotations (watch/serve/handlers): which  *)
(* series there are, and the answer to a request for one of them.          *)
(*                                                                         *)
(* A query is a function whose domain is the parameters it carries; one    *)
(* that does not parse as the number it should be is not in it.  Instants  *)
(* are bounded by MinInstant and MaxInstant, the ends of an i64 (a         *)
(* difference saturates at them); the MaxPoints of an answer are 20 000,   *)
(* DefaultWindow 48 hours, MinBucket a minute and TargetBuckets 120.       *)
(***************************************************************************)
EXTENDS Sessions, Metrics

CONSTANTS MinInstant, MaxInstant, MaxPoints, DefaultWindow, MinBucket, TargetBuckets, RollupBucket

ASSUME ChartsAssumption ==
    /\ {MinInstant, MaxInstant} \subseteq Int
    /\ {MaxPoints, DefaultWindow} \subseteq Nat /\ {MinBucket, TargetBuckets} \subseteq Nat \ {0}

GAP_FACTOR == 3

-----------------------------------------------------------------------------
(* The series that can be asked for                                        *)

\* SampleSeries: the passive series, each with its unit and what a minute of it became.
Passive(unit, reducer) == [unit |-> unit, reducer |-> reducer]
PassiveSeries ==
    [cpu_percent |-> Passive("%", "mean"), used_memory |-> Passive("B", "mean"),
     process_count |-> Passive("", "mean"), used_swap |-> Passive("B", "max"),
     scanner_cpu |-> Passive("%", "max"), agent_cpu |-> Passive("%", "max"),
     agent_rss |-> Passive("B", "max"), agent_write_bytes_s |-> Passive("B/s", "max"),
     scanner_write_bytes_s |-> Passive("B/s", "max")]

\* CondSeries: the covariates, which have a unit and no direction.
ConditionUnit == [clock_percent |-> "%", cpu_at |-> "%", scanner_at |-> "%", agent_at |-> "%",
                  disk_write_bytes_s |-> "B/s", scratch_free_bytes |-> "B"]

\* A name on the wire is a prefix, "" for the families without one, and a name.
Name(prefix, base) == [prefix |-> prefix, name |-> base]

\* Requested::parse: the family a name belongs to; none if nobody has it.
Family(n) == CASE n.prefix = "" /\ n.name \in DOMAIN PassiveSeries -> {"sample"}
               [] n.prefix = "" /\ n.name \in DOMAIN SessionUnit -> {"session"}
               [] n.prefix \in {"probe", "bench"} /\ n.name \in DOMAIN Catalogue -> {"probe"}
               [] n.prefix = "cond" /\ n.name \in DOMAIN ConditionUnit -> {"conditions"}
               [] OTHER -> {}

\* known_series: what the status of the daemon advertises.
KnownSeries == {Name("", s) : s \in DOMAIN PassiveSeries \cup DOMAIN SessionUnit}
               \cup {Name(p, c) : p \in {"probe", "bench"}, c \in DOMAIN Catalogue}
               \cup {Name("cond", c) : c \in DOMAIN ConditionUnit}

-----------------------------------------------------------------------------
(* The passive series, over the join of raw samples and rolled-up minutes  *)

PointsOf(rows, series, from, to) ==
    Each(LAMBDA r : [ts |-> r.ts, value |-> r.values[series]],
         Where(Between(rows, from, to), {r \in Range(rows) : series \in DOMAIN r.values}))

\* How many of the rows that were kept are minutes, and what that says of the series.
Resolved(kept, minutes, series) ==
    Extended(kept, [reducer |-> IF minutes > 0 THEN {PassiveSeries[series].reducer} ELSE {},
                    resolution |-> IF minutes = 0 THEN "raw"
                                   ELSE IF minutes = Len(kept.points) THEN "rollup" ELSE "mixed"])
SaidOf(kept, raw, series) ==
    Resolved(kept, Len(kept.points) - Smaller(Len(raw), Len(kept.points)), series)
\* Raw samples first, from rawStart, and before it minutes for what is left of the budget.
WithRaw(store, series, from, to, limit, rawStart, raw) ==
    SaidOf(KeepRecent((IF from >= rawStart THEN <<>>
                        ELSE LastOf(PointsOf(store.rollup, series, from, Smaller(to, rawStart - 1)),
                                    limit + 1 - Len(raw))) \o raw, limit), raw, series)
PassiveFrom(store, series, from, to, limit, rawStart) ==
    WithRaw(store, series, from, to, limit, rawStart,
            LastOf(PointsOf(store.samples, series, Larger(from, rawStart), to), limit + 1))
PassiveRows(store, series, from, to, limit) ==
    PassiveFrom(store, series, from, to, limit,
                IF store.samples = <<>> THEN MaxInstant ELSE store.samples[1].ts)

-----------------------------------------------------------------------------
(* The answer                                                              *)

Given(query, key, other) == IF key \in DOMAIN query THEN query[key] ELSE other
Saturated(x) == Larger(MinInstant, Smaller(MaxInstant, x))

\* gap_threshold_ms: three times the median spacing, beyond which a chart breaks its line.
GapThreshold(points) ==
    LET deltas == [i \in 1..(Len(points) - 1) |-> points[i + 1].ts - points[i].ts]
    IN  IF Len(points) < 3 THEN DefaultWindow
        ELSE GAP_FACTOR * Larger(Ranked(deltas, Len(deltas) \div 2), 1)

BucketMs(from, to) == Larger(Saturated(to - from) \div TargetBuckets, MinBucket)

Refused(code) == [code |-> code, body |-> {}]
Ok(body) == [code |-> 200, body |-> {body}]

\* What is said of a series beside its points.
Described(query, from, to, rows, gap, unit) ==
    Extended(rows, [metric |-> query.metric, from |-> from, to |-> to, gap |-> gap, unit |-> unit])

SampleAnswer(query, from, to, rows) ==
    Ok(Extended(Described(query, from, to, rows, GapThreshold(rows.points),
                          PassiveSeries[query.metric.name].unit),
                [bucket |-> IF rows.resolution = "raw" THEN {} ELSE {RollupBucket}]))
ProbeAnswer(query, from, to, rows) ==
    Ok(Extended(Described(query, from, to, rows, GapThreshold(rows.points),
                          Catalogue[query.metric.name].unit),
                [bucket |-> {}, lowerIsBetter |-> Catalogue[query.metric.name].lowerIsBetter]))
ConditionAnswer(query, from, to, rows) ==
    Ok(Extended(Described(query, from, to, rows, GapThreshold(rows.points),
                          ConditionUnit[query.metric.name]),
                [bucket |-> {}]))
SessionAnswer(query, from, to, width, rows) ==
    Ok(Extended(Described(query, from, to, rows, Saturated(width * GAP_FACTOR),
                          SessionUnit[query.metric.name]),
                [bucket |-> {width}]))

FamilyAnswer(family, query, store, from, to, limit, width) ==
    LET name == query.metric.name
        clean == Given(query, "contended", "include") = "exclude"
    IN  CASE family = {"sample"} ->
               SampleAnswer(query, from, to, PassiveRows(store, name, from, to, limit))
          [] family = {"probe"} ->
               ProbeAnswer(query, from, to, ProbeSeries(store.probes, name, query.metric.prefix,
                                                        from, to, clean, limit))
          [] family = {"conditions"} ->
               ConditionAnswer(query, from, to, CondSeries(store.probes, name, from, to, clean, limit))
          [] family = {"session"} ->
               SessionAnswer(query, from, to, width, SessionSeries(store, name, from, to, width, limit))
          [] OTHER -> Refused(400)

SeriesAnswer(query, store, now) ==
    LET to == Given(query, "to", now)
        from == Given(query, "from", Saturated(to - DefaultWindow))
    IN  IF "metric" \notin DOMAIN query \/ from > to THEN Refused(400)
        ELSE FamilyAnswer(Family(query.metric), query, store, from, to,
                          Smaller(Given(query, "limit", MaxPoints), MaxPoints),
                          IF Given(query, "bucket", 0) > 0 THEN query.bucket ELSE BucketMs(from, to))

\* Not saturating, and computed whether or not the request names its beginning: in a build that
\* checks for overflow the subtraction panics, in one that does not it wraps, and the default
\* beginning wraps to after the end.
AnnotationsAnswer(query, store, now) ==
    LET to == Given(query, "to", now)
        wraps == to - DefaultWindow < MinInstant
        from == Given(query, "from", IF wraps THEN MaxInstant ELSE to - DefaultWindow)
    IN  (IF wraps THEN {Refused(500)} ELSE {})
        \cup {IF from > to THEN Refused(400)
              ELSE Ok([from |-> from, to |-> to,
                       annotations |-> AnnotationsIn(store.versions, store.markers, from, to)])}

=============================================================================
