------------------------------ MODULE Verdicts ------------------------------
(***************************************************************************)
(* Today against the days before it (watch/analysis/comparison): which     *)
(* rows make a day's value, what today's value means beside the others,    *)
(* and what is said about it.  A store is a record of tables, see Queries. *)
(***************************************************************************)
EXTENDS Sessions, Days

MIN_OBSERVATIONS_PER_DAY == 3

\* CondSeries::EXPLANATORY: the covariates that may explain a verdict.
EXPLANATORY == <<"clock_percent", "disk_write_bytes_s", "scratch_free_bytes", "cpu_at">>

\* The curated set, in reading order.
Subject(metric, isProbe, lower) == [metric |-> metric, probe |-> isProbe, lowerIsBetter |-> lower]
SUBJECTS == <<Subject("filesystem.small_file_ops_s", TRUE, FALSE),
              Subject("filesystem.sequential_write_mib_s", TRUE, FALSE),
              Subject("sqlite.lookup_ms", TRUE, TRUE),
              Subject("cpu.single_mops_s", TRUE, FALSE),
              Subject("tool_read_ms", FALSE, TRUE)>>

-----------------------------------------------------------------------------
(* Evidence: one value for each day that has enough to say                 *)

WithinDay(rows, day) == Where(rows, {r \in Range(rows) : InDay(day, r.ts)})

\* reduce: the median of a day's values, with their number.
ReduceDay(values) == IF Len(values) < MIN_OBSERVATIONS_PER_DAY THEN {}
                     ELSE {[value |-> Median(values), n |-> Len(values)]}

\* The days for which ValueOf has a value, in the order of the window.
DayValues(window, ValueOf(_)) ==
    FlattenSeq([i \in 1..Len(window) |-> SetToSeq(ValueOf(window[i]))])

OnBattery(rows) == Len(Where(rows, {r \in Range(rows) : r.battery = {TRUE}}))

ProbeEvidence(store, metric, today, window) ==
    LET from == IF window = <<>> THEN today.start ELSE window[1].start
        values == ComparableValues(store.probes, metric, from, today.end - 1)
        measured(day) == ReduceDay(Each(LAMBDA r : r.metrics[metric], WithinDay(values, day)))
        reported(day, c) == ReduceDay(Each(LAMBDA r : r.conditions[c],
                                Where(WithinDay(values, day), {r \in Range(values) : c \in DOMAIN r.conditions})))
        before == FlattenSeq([i \in 1..Len(window) |-> WithinDay(values, window[i])])
    IN  [today |-> measured(today),
         window |-> DayValues(window, measured),
         power |-> {[todayOn |-> OnBattery(WithinDay(values, today)),
                     todayRuns |-> Len(WithinDay(values, today)),
                     baseOn |-> OnBattery(before), baseRuns |-> Len(before)]},
         covariates |-> [i \in 1..Len(EXPLANATORY) |->
             [series |-> EXPLANATORY[i], today |-> reported(today, EXPLANATORY[i]),
              window |-> DayValues(window, LAMBDA day : reported(day, EXPLANATORY[i]))]]]

DayOf(buckets) == LET total == Total(Each(LAMBDA b : b.n, buckets))
                  IN  IF total < MIN_OBSERVATIONS_PER_DAY THEN {}
                      ELSE {[value |-> Median(Each(LAMBDA b : b.value, buckets)), n |-> total]}
\* from_sessions: the median of the day's buckets, each as wide as the day.
SessionEvidence(store, series, today, window) ==
    LET measured(day) == DayOf(SessionBuckets(store, series, day.start, day.end - 1, LengthOf(day)))
    IN  [today |-> measured(today), window |-> DayValues(window, measured),
         power |-> {}, covariates |-> <<>>]

Gather(store, subject, today, window) ==
    IF subject.probe THEN ProbeEvidence(store, subject.metric, today, window)
                     ELSE SessionEvidence(store, subject.metric, today, window)

-----------------------------------------------------------------------------
(* Judgement                                                               *)

\* conditions::describe: the covariates outside their own band, from their own days.
Conditions(covariates) ==
    UNION {{[metric |-> covariates[i].series, today |-> p[1].value, baseline |-> p[2].median,
             days |-> p[2].days] :
               p \in {q \in covariates[i].today \X Baseline(covariates[i].window) :
                         ~Inside(q[2], q[1].value)}} : i \in DOMAIN covariates}

Majority(part, whole) == whole > 0 /\ part * 2 > whole
Disagrees(mix) == Majority(mix.todayOn, mix.todayRuns) # Majority(mix.baseOn, mix.baseRuns)

\* Less than half of what the days of the band rest on, a day.
Thin(today, band) == today.n * band.days * 2 < band.observations

\* note: what qualifies a verdict, or stands in for one; the first reason that applies.
Note(verdict, today, band, power) ==
    CASE verdict = "insufficient" -> IF today = {} THEN "little today" ELSE "few days"
      [] \E mix \in power : Disagrees(mix) -> "power"
      [] \E t \in today, b \in band : Thin(t, b) -> "thin"
      [] \E b \in band : b.widthIsFloor -> "floor"
      [] OTHER -> "none"

VerdictOn(today, band, lowerIsBetter) ==
    IF today = {} \/ band = {} THEN "insufficient"
    ELSE Compare((CHOOSE t \in today : TRUE).value, CHOOSE b \in band : TRUE, lowerIsBetter)
Judgement(evidence, band, verdict) ==
    [verdict |-> verdict, today |-> evidence.today, band |-> band,
     delta |-> UNION {DeltaPercent(t.value, b.median) : t \in evidence.today, b \in band},
     power |-> evidence.power,
     note |-> Note(verdict, evidence.today, band, evidence.power),
     conditions |-> IF Notable(verdict) THEN Conditions(evidence.covariates) ELSE {}]
Against(evidence, band, lowerIsBetter) ==
    Judgement(evidence, band, VerdictOn(evidence.today, band, lowerIsBetter))
Judge(evidence, lowerIsBetter) == Against(evidence, Baseline(evidence.window), lowerIsBetter)

\* today_against_baseline, for each subject in its place.
Judged(store, today, window) ==
    [start |-> today.start,
     comparisons |-> [i \in DOMAIN SUBJECTS |->
                         Judge(Gather(store, SUBJECTS[i], today, window), SUBJECTS[i].lowerIsBetter)]]
DayAgainstBaseline(store, zone, today, windowDays) ==
    Judged(store, today, Preceding(zone, today, windowDays))
TodayAgainstBaseline(store, zone, now, windowDays) ==
    DayAgainstBaseline(store, zone, CHOOSE d \in Containing(zone, now) : TRUE, windowDays)

=============================================================================
