-------------------------------- MODULE Days --------------------------------
(***************************************************************************)
(* Local calendar days as ranges of instants (watch/analysis/day.rs).      *)
(*                                                                         *)
(* An instant is a whole hour of UTC.  A zone says how far its clocks are  *)
(* ahead of UTC before and after the one jump it makes, [before, after,    *)
(* at].  DayHours is the length of a day without a jump, 24 in the code.   *)
(***************************************************************************)
EXTENDS Integers, Sequences, SequencesExt

CONSTANT DayHours

ASSUME DaysAssumption == DayHours \in Nat /\ DayHours > 3

Earliest(S) == CHOOSE x \in S : \A y \in S : x <= y

Local(zone, t) == t + (IF t < zone.at THEN zone.before ELSE zone.after)
DateOf(zone, t) == Local(zone, t) \div DayHours

\* A zone that never goes back to a date it has left, nor jumps over more than a date's first
\* hours.
Regular(zone) == /\ {zone.before, zone.after, zone.at} \subseteq Int
                 /\ zone.after - zone.before <= 3
                 /\ DateOf(zone, zone.at - 1) <= DateOf(zone, zone.at)

\* The instants at which the clocks show this hour of this date: none if they jump over
\* it, two if they go back.
Showing(zone, date, hour) ==
    LET shown == date * DayHours + hour
    IN  {t \in {shown - zone.before, shown - zone.after} : Local(zone, t) = shown}

\* Mutant: only midnight is tried, and a date without one is no day.
MidnightOf(zone, date) == LET found == Showing(zone, date, 0)
                          IN  IF found = {} THEN {} ELSE {Earliest(found)}

\* The first instant of a date, from the first of its hours that exists; {} if none does.
StartOf(zone, date) ==
    LET hours == {h \in 0..3 : Showing(zone, date, h) # {}}
    IN  IF hours = {} THEN {} ELSE {Earliest(Showing(zone, date, Earliest(hours)))}

\* Mutant: a day ends a day's length after it began.
DayByLength(zone, date) == {[start |-> s, end |-> s + DayHours] : s \in StartOf(zone, date)}
\* A day ends where the next one begins.
FromDate(zone, date) == {[start |-> s, end |-> e] : s \in StartOf(zone, date),
                                                    e \in StartOf(zone, date + 1)}

InDay(day, t) == day.start <= t /\ t < day.end
LengthOf(day) == day.end - day.start

\* The days of the dates from first to last that have one, oldest first.
DaysOf(zone, first, last) ==
    FlattenSeq([i \in 1..(last - first + 1) |-> SetToSeq(FromDate(zone, first + i - 1))])

Containing(zone, t) == FromDate(zone, DateOf(zone, t))

\* Mutant: today is one of the days it is compared with.
PrecedingAndToday(zone, day, count) ==
    LET date == DateOf(zone, day.start) IN DaysOf(zone, date - count + 1, date)
Preceding(zone, day, count) ==
    LET date == DateOf(zone, day.start) IN DaysOf(zone, date - count, date - 1)

=============================================================================
