------------------------------ MODULE Sessions ------------------------------
(***************************************************************************)
(* Reading the session stream (watch/store/queries/sessions): the derived  *)
(* series, reduced to buckets aligned to the epoch, and the day so far.    *)
(*                                                                         *)
(* A turn is [ts, session, project, output, first, span, cacheRead, input],*)
(* first and span sets of at most one interval in ms; a call is            *)
(* [ts, tool, ok, ms].  Ratios are in percent, rates in tokens per second. *)
(***************************************************************************)
EXTENDS Queries

Tools == [tool_read_ms |-> {"Read"}, tool_edit_ms |-> {"Edit", "Write"},
          tool_search_ms |-> {"Grep", "Glob"}, tool_bash_ms |-> {"Bash"}]

SessionUnit == Extended([s \in DOMAIN Tools \cup {"first_response_ms"} |-> "ms"],
                        [output_tokens |-> "tokens", output_tokens_per_s |-> "tokens/s",
                         cache_hit_ratio |-> "ratio"])

Aggregation(series) ==
    CASE SessionUnit[series] = "ms" -> "median"
      [] series = "output_tokens" -> "sum"
      [] OTHER -> "ratio"

Weighed(r, value, weight) == [ts |-> r.ts, value |-> value, weight |-> weight]

\* SessionSeries::sql: the rows of a series.  A call that failed, was refused or interrupted
\* says nothing of the machine, nor does a request without a span to measure.
SessionRows(store, series) ==
    CASE series \in DOMAIN Tools ->
           Each(LAMBDA r : Weighed(r, r.ms, 1),
                Where(store.calls, {r \in Range(store.calls) : r.ok /\ r.tool \in Tools[series]}))
      [] series = "first_response_ms" ->
           Each(LAMBDA r : Weighed(r, CHOOSE v \in r.first : TRUE, 1),
                Where(store.turns, {r \in Range(store.turns) : r.first # {}}))
      [] series = "output_tokens" -> Each(LAMBDA r : Weighed(r, r.output, 1), store.turns)
      [] series = "output_tokens_per_s" ->
           Each(LAMBDA r : Weighed(r, r.output * 1000, CHOOSE v \in r.span : TRUE),
                Where(store.turns, {r \in Range(store.turns) : \E v \in r.span : v > 0}))
      [] series = "cache_hit_ratio" ->
           Each(LAMBDA r : Weighed(r, r.cacheRead * 100, r.cacheRead + r.input),
                Where(store.turns, {r \in Range(store.turns) : r.cacheRead + r.input > 0}))

-----------------------------------------------------------------------------
(* Buckets                                                                 *)

Ratio(total, weight) == IF weight = 0 THEN 0 ELSE total \div weight
Reduced(values, rows, kind) ==
    CASE kind = "median" -> Median(values)
      [] kind = "sum" -> Total(values)
      [] kind = "ratio" -> Ratio(Total(values), Total(Each(LAMBDA r : r.weight, rows)))
Reduce(bucket, rows, kind) == [ts |-> bucket, n |-> Len(rows),
                               value |-> Reduced(Each(LAMBDA r : r.value, rows), rows, kind)]

\* The bucket in hand, if there is one, reduced after those already finished.
Closed(acc, kind) == IF acc.rows = <<>> THEN acc.points
                     ELSE Append(acc.points, Reduce(acc.bucket, acc.rows, kind))

\* Mutant: the rows of a bucket are not forgotten when the next one starts.
NextBucketKeeps(acc, row, width, kind) ==
    LET start == (row.ts \div width) * width
    IN  IF acc.bucket = start THEN [acc EXCEPT !.rows = Append(@, row)]
        ELSE [points |-> Closed(acc, kind), bucket |-> start, rows |-> Append(acc.rows, row)]
\* One row of the stream: the bucket in hand is finished by the first row of a later one.
NextBucket(acc, row, width, kind) ==
    LET start == (row.ts \div width) * width
    IN  IF acc.bucket = start THEN [acc EXCEPT !.rows = Append(@, row)]
        ELSE [points |-> Closed(acc, kind), bucket |-> start, rows |-> <<row>>]

Buckets(rows, width, kind) ==
    LET acc[i \in 0..Len(rows)] == IF i = 0 THEN [points |-> <<>>, bucket |-> -width, rows |-> <<>>]
                                    ELSE NextBucket(acc[i - 1], rows[i], width, kind)
    IN  Closed(acc[Len(rows)], kind)
SessionBuckets(store, series, from, to, width) ==
    Buckets(LastOf(Between(SessionRows(store, series), from, to), MaxRows),
            Larger(width, 1), Aggregation(series))

SessionSeries(store, series, from, to, width, limit) ==
    KeepRecent(Each(LAMBDA b : [ts |-> b.ts, value |-> b.value],
                    SessionBuckets(store, series, from, to, width)), limit)

-----------------------------------------------------------------------------
(* The day so far                                                          *)

\* The first bucket, of a width that spans the day up to now.
Leading(points) == IF points = <<>> THEN {} ELSE {points[1].value}
Tile(store, series, since, now) ==
    Leading(SessionBuckets(store, series, since, now, Larger(now - since, 1) + 1))

Counted(done, called) ==
    [turns |-> Len(done), calls |-> Len(called), output |-> Total(Each(LAMBDA r : r.output, done)),
     sessions |-> Cardinality({r.session : r \in Range(done)}),
     projects |-> Cardinality({r.project : r \in Range(done)}),
     last |-> {r.ts : r \in {x \in Range(done) \cup Range(called) :
                              \A y \in Range(done) \cup Range(called) : y.ts <= x.ts}}]
Today(store, since, now) ==
    Extended(Counted(Where(store.turns, {r \in Range(store.turns) : since <= r.ts}),
                     Where(store.calls, {r \in Range(store.calls) : since <= r.ts})),
             [tiles |-> [s \in {"cache_hit_ratio", "tool_read_ms"} |-> Tile(store, s, since, now)]])

=============================================================================
