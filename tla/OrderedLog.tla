----------------------------- MODULE OrderedLog -----------------------------
(***************************************************************************)
(* What the daemon's write path promises a collector, with no threads, no  *)
(* channel and no batches: records are accepted into one order, settled in *)
(* that order, and a settled record is either kept or not.  When the path  *)
(* fails, everything accepted and not yet settled is given up at once, so  *)
(* what the database holds is always a prefix of what was accepted, minus  *)
(* the rows it refused one by one.  RecordPipeline implements this.        *)
(***************************************************************************)
EXTENDS Naturals, Sequences

CONSTANT Record

VARIABLES
  log,      \* every record whose send reported success, in order
  settled,  \* how many of them the writer has decided about
  kept,     \* positions of log whose row is in the database
  open      \* FALSE once nothing more is accepted or settled

vars == <<log, settled, kept, open>>

TypeOK ==
  /\ log \in Seq(Record)
  /\ settled \in 0..Len(log)
  /\ kept \subseteq 1..settled
  /\ open \in BOOLEAN

Init ==
  /\ log = <<>>
  /\ settled = 0
  /\ kept = {}
  /\ open = TRUE

Accept ==
  /\ open
  /\ log' \in Seq(Record)
  /\ Len(log') = Len(log) + 1
  /\ log' = Append(log, log'[Len(log')])
  /\ UNCHANGED <<settled, kept, open>>

Settle ==
  /\ open
  /\ \E n \in settled..Len(log) :
       /\ settled' = n
       /\ \E K \in SUBSET (settled + 1 .. n) : kept' = kept \cup K
  /\ UNCHANGED <<log, open>>

\* Giving up keeps nothing that was still outstanding.
Close ==
  /\ open
  /\ open' = FALSE
  /\ settled' = Len(log)
  /\ UNCHANGED <<log, kept>>

Next == Accept \/ Settle \/ Close

Spec == Init /\ [][Next]_vars

=============================================================================
