-------------------------------- MODULE Bands --------------------------------
(***************************************************************************)
(* The band today is compared with, and the word for where today falls     *)
(* (watch/analysis/baseline.rs, verdict.rs; model.rs for the percentile).  *)
(*                                                                         *)
(* Values are integers.  Widths are in ten-thousandths of a value, so that *)
(* the multiplier of the MAD, 3 * 1.4826, and the floor of 5 % are exact.  *)
(* A day's value is [value, n], n the measurements behind it.  What may be *)
(* missing is a set of at most one element.                                *)
(***************************************************************************)
EXTENDS Integers, Sequences, SequencesExt, Functions

MIN_DAYS == 4
Unit == 10000
MadWidth == 44478
FloorWidth == 500

Abs(x) == IF x < 0 THEN -x ELSE x
Larger(x, y) == IF x < y THEN y ELSE x
\* A record, with what another has beside it.
Extended(f, g) == [x \in DOMAIN f \cup DOMAIN g |-> IF x \in DOMAIN f THEN f[x] ELSE g[x]]
\* The elements that are in a set, in their order.  A set where SelectSeq takes a test: what
\* is proved of an operator cannot take one.
Where(s, chosen) ==
    LET kept[i \in 0..Len(s)] == IF i = 0 THEN <<>>
                                 ELSE IF s[i] \in chosen THEN Append(kept[i - 1], s[i])
                                 ELSE kept[i - 1]
    IN  kept[Len(s)]
Total(numbers) ==
    LET sum[i \in 0..Len(numbers)] == IF i = 0 THEN 0 ELSE sum[i - 1] + numbers[i]
    IN  sum[Len(numbers)]
\* The empty sequence makes TLC evaluate each element once.
Each(Op(_), s) == <<>> \o [i \in 1..Len(s) |-> Op(s[i])]

\* What comes at a place, from 0, once the values are sorted: at most so many are smaller,
\* and more than so many are no larger.
Ranked(values, at) ==
    CHOOSE v \in Range(values) : /\ Cardinality({i \in DOMAIN values : values[i] < v}) <= at
                                 /\ Cardinality({i \in DOMAIN values : values[i] <= v}) > at

\* percentile_of_sorted: the index round((n - 1) * p), for p = percent / 100.
Percentile(values, percent) ==
    LET at == (2 * (Len(values) - 1) * percent + 100) \div 200
    IN  IF values = <<>> THEN {} ELSE {Ranked(values, at)}

\* Mutant: the mean, which one bad day moves.
MeanOf(values) == IF values = <<>> THEN 0 ELSE Total(values) \div Len(values)
Median(values) == IF values = <<>> THEN 0 ELSE CHOOSE x \in Percentile(values, 50) : TRUE

\* Baseline::from_days: the band of the days that contributed a value, if there are enough.
BandOf(median, mad) == [median |-> median, mad |-> mad,
                       width |-> Larger(MadWidth * mad, FloorWidth * Abs(median)),
                       widthIsFloor |-> FloorWidth * Abs(median) >= MadWidth * mad]
Around(values, median) == BandOf(median, Median(Each(LAMBDA v : Abs(v - median), values)))
BandAround(values) == Around(values, Median(values))
Baseline(days) ==
    IF Len(days) < MIN_DAYS THEN {}
    ELSE {Extended(BandAround(Each(LAMBDA d : d.value, days)),
                   [days |-> Len(days), observations |-> Total(Each(LAMBDA d : d.n, days))])}

Inside(band, v) == Abs(v - band.median) * Unit <= band.width

Notable(verdict) == verdict \in {"better", "worse"}

\* verdict::compare
Compare(v, band, lowerIsBetter) ==
    CASE Inside(band, v) -> "normal"
      [] (v > band.median) = lowerIsBetter -> "worse"
      [] OTHER -> "better"

\* delta_percent, rounded towards zero; none beside a median of zero.
DeltaPercent(v, median) ==
    IF median = 0 THEN {}
    ELSE {(IF v < median THEN -1 ELSE 1) * ((100 * Abs(v - median)) \div Abs(median))}

=============================================================================
