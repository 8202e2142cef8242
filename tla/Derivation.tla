------------------------------ MODULE Derivation ------------------------------
(***************************************************************************)
(* The deriver set against what a transcript measures: a file grows row by *)
(* row, and in each of its states one pass over the whole of it, and two   *)
(* passes with the cut anywhere, must measure what Transcript says.        *)
(***************************************************************************)
EXTENDS Transcript

VARIABLE rows

Empty == rows = <<>>

Write ==
  /\ Len(rows) < MaxRows
  /\ \E row \in NextRows(rows) : rows' = Append(rows, row)

Full == Len(rows) = MaxRows /\ UNCHANGED rows

Grow == Write \/ Full

Growing == Empty /\ [][Grow]_rows

-----------------------------------------------------------------------------
Kept(records, what) == {r \in records : r.what = what}
WithoutFirst(turns) == {[t EXCEPT !.first = Absent] : t \in turns}

\* What the database keeps of records arriving in this order: the first turn of
\* a request, the first call of a result.
Repeats(later, earlier) ==
  /\ later.what = earlier.what
  /\ IF later.what = "turn" THEN later.req = earlier.req
     ELSE later.what = "tool" /\ later.uuid = earlier.uuid

Distinct(records) ==
  {records[i] : i \in {i \in DOMAIN records :
                         \A j \in 1..(i - 1) : ~ Repeats(records[i], records[j])}}

Whole == Range(Import(rows, FALSE, 0, TRUE).records)

\* A pass that ends after row k of a live transcript, and one that starts where
\* it said and finds the rest, settled.
Before(k) == Import(SubSeq(rows, 1, k), FALSE, 0, FALSE)
Resumed(first) == Distinct(first.records \o Import(rows, FALSE, first.offset, TRUE).records)
Cut(k) == Resumed(Before(k))

SameMeasures(some, all) ==
  /\ WithoutFirst(Kept(some, "turn")) = WithoutFirst(Kept(all, "turn"))
  /\ Kept(some, "tool") = Kept(all, "tool")
  /\ \A t \in Kept(some, "turn") : t.first \in {Absent, TrueFirst(rows, t.req)}

\* No more calls than the deriver has room to remember.
Calm(h) == Cardinality(ToolsIn(h)) <= MaxPendingTools
\* Nor more lines than the re-read budget.
Roomy(h) == Calm(h) /\ End(h) <= MaxReread

\* Reading a finished transcript yields each request once, with the span of its
\* rows and the wait behind it, and each answered call with the time it took:
\* parallel calls, answers without a tool-use id, attachments between a prompt
\* and its answer, error responses and rows of no interest included.
MeasuresTruth ==
  Calm(rows) => /\ Kept(Whole, "turn") = Turns(rows)
                /\ Kept(Whole, "tool") = TimedCalls(rows)

\* "Exact rather than approximate": wherever the pass before happened to stop,
\* reading on from its resume offset yields the same requests, the same spans
\* and the same calls as reading the file at once.
ResumesExactly ==
  LET whole == Whole IN
    Roomy(rows) => \A k \in 1..(Len(rows) - 1) : SameMeasures(Cut(k), whole)

\* The same code with next to no room: one pending call, and a re-read budget that
\* ends inside a line.
TightReread == 3
Tight == INSTANCE Deriver WITH MaxPendingTools <- 1, MaxReread <- TightReread

\* The resume offset is where a line begins, and never before the re-read budget,
\* also when the budget runs out in the middle of a line.
ResumesOnALine ==
  \A k \in 1..Len(rows) :
    LET offset == Tight!Import(SubSeq(rows, 1, k), FALSE, 0, FALSE).offset
    IN  offset \in {Start(i) : i \in 1..(k + 1)} /\ offset >= 2 * k - TightReread

\* A pass may stop anywhere: the next one begins at a line and measures as if it had not (the
\* two above; derive.rs, resume_offset, and import.rs, its clamp).
ResumesAnywhere == ResumesExactly /\ ResumesOnALine

\* The comment on resume_offset, for the wait before the first answer as well.
ResumesExactlyToo ==
  Roomy(rows) => \A k \in 1..(Len(rows) - 1) : Kept(Cut(k), "turn") = Kept(Whole, "turn")

=============================================================================
