-------------------------- MODULE MCRecordPipeline --------------------------
(* RecordPipeline for TLC: a collector that sends samples and chores,      *)
(* beside a main thread that sends events, over a channel of one record.   *)
EXTENDS RecordPipeline, TLC

CONSTANT collector

MCWorkers == {collector}
MCEmits == collector :> {"sample", "chore"}

\* Bound: whoever submits more than two records submits samples, and the database takes
\* every row.  The burst is what a longer run is for.
Steady ==
  \/ sent[collector] <= 2
  \/ /\ \A i \in DOMAIN accepted : accepted[i].kind # "chore"
     /\ \A i \in DOMAIN out[collector] : out[collector][i].kind # "chore"
     /\ DOMAIN done = written \cup lost
=============================================================================
