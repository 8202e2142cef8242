----------------------------- MODULE Retention -----------------------------
(***************************************************************************)
(* What becomes of a passive sample: taken by the sampler, committed by    *)
(* the writer, summarised into a one-minute bucket and pruned by a         *)
(* retention pass on that same thread (watch/collect/sampler.rs,           *)
(* watch/maintenance.rs, watch/store/writer/maintenance.rs).  Charts has   *)
(* how the dashboard reads it back out of the two tables.                  *)
(*                                                                         *)
(* Time is counted in ticks of a wall clock that may be set back; a minute *)
(* is Minute ticks.  A bucket is the set of samples it was computed from,  *)
(* {} before it exists: its averages and maxima say nothing more here.     *)
(* MaxTime, MaxSamples, MaxBack and MaxFaults bound the runs.  MaxDelay    *)
(* bounds the time from a sample's timestamp to its commit.                *)
(***************************************************************************)
EXTENDS Integers, Sequences, FiniteSets

CONSTANTS Machines, Own,     \* every machine in the file, and the one this daemon is
          Minute, ChunkSpan, \* BUCKET_MS and CHUNK_MS
          Keep,              \* samples_raw_days
          Capacity,          \* CHANNEL_CAPACITY
          Start, Left,       \* when the daemon starts, and the samples earlier ones may have left
          MaxTime, MaxSamples, MaxDelay, MaxBack, MaxFaults

Times == 0..MaxTime
Samples == Machines \X Times
NoTime == -1                                    \* no sample in hand, no pass

ASSUME RetentionAssumption ==
    /\ Own \in Machines
    /\ Minute \in Nat \ {0} /\ ChunkSpan \in Nat \ {0} /\ ChunkSpan % Minute = 0
    /\ Keep \in Nat /\ Capacity \in Nat \ {0}
    /\ MaxTime \in Nat /\ Start \in Times /\ Left \subseteq Machines \X (0..Start)
    /\ MaxSamples \in Nat /\ MaxDelay \in Nat /\ MaxBack \in Nat /\ MaxFaults \in Nat

\* div_euclid(BUCKET_MS) * BUCKET_MS
Align(t) == (t \div Minute) * Minute
Buckets == {Align(t) : t \in Times}
BucketOf(s) == <<s[1], Align(s[2])>>            \* machine_id, ts / BUCKET_MS * BUCKET_MS

\* Mutant: the cutoff is not aligned to a minute.
CutoffAsAsked(before) == before
\* "Align down, so the newest bucket touched is one that has already finished."
Cutoff(before) == Align(before)

VARIABLES now, taken, hand,     \* the clock; samples taken so far, and the one in hand
          channel,              \* samples and instructions on their way to the writer
          raw, rollup,          \* the tables samples and samples_1m
          pass,                 \* the cutoff of the pass in progress
          seen,                 \* every sample ever committed (history)
          late,                 \* those committed behind their minute's summary (history)
          backs, faults

vars == <<now, taken, hand, channel, raw, rollup, pass, seen, late, backs, faults>>

\* A database of an earlier build, which sampled and never pruned, from any machine.
Init == /\ now = Start /\ taken = 0 /\ hand = NoTime /\ channel = <<>>
        /\ raw \in SUBSET Left
        /\ rollup = [b \in Machines \X Buckets |-> {}]
        /\ pass = NoTime /\ seen = raw /\ late = {}
        /\ backs = 0 /\ faults = 0

-----------------------------------------------------------------------------
(* The clock                                                               *)

Pending == {t \in Times : \/ hand = t
                          \/ \E i \in 1..Len(channel) : channel[i] = [sample |-> t]}

Tick == /\ now < MaxTime
        /\ \A t \in Pending : now - t < MaxDelay
        /\ now' = now + 1
        /\ UNCHANGED <<taken, hand, channel, raw, rollup, pass, seen, late, backs, faults>>

StepBack == /\ backs < MaxBack
            /\ now' \in {t \in Times : t < now}
            /\ backs' = backs + 1
            /\ UNCHANGED <<taken, hand, channel, raw, rollup, pass, seen, late, faults>>

-----------------------------------------------------------------------------
(* The threads that send                                                   *)

\* tick stamps the sample, then reads the process table.
Take == /\ hand = NoTime /\ taken < MaxSamples
        /\ hand' = now /\ taken' = taken + 1
        /\ UNCHANGED <<now, channel, raw, rollup, pass, seen, late, backs, faults>>

\* A sample is dropped rather than wait for a writer that is behind.
Send == /\ hand # NoTime
        /\ hand' = NoTime
        /\ channel' = IF Len(channel) < Capacity
                      THEN Append(channel, [sample |-> hand]) ELSE channel
        /\ UNCHANGED <<now, taken, raw, rollup, pass, seen, late, backs, faults>>

\* The hourly instruction, waiting for room.  (One that had to wait names an older cutoff,
\* like one that waits in the channel.)
Ask == /\ Len(channel) < Capacity
       /\ channel' = Append(channel, [before |-> now - Keep])
       /\ UNCHANGED <<now, taken, hand, raw, rollup, pass, seen, late, backs, faults>>

-----------------------------------------------------------------------------
(* The writer: a batch, then the newest instruction in it, a chunk at a    *)
(* time, each in a transaction of its own.                                 *)

Rows(batch) == {<<Own, t>> : t \in {u \in Times : \E i \in 1..Len(batch) :
                                                    batch[i] = [sample |-> u]}}
Cutoffs(batch) == {batch[i].before : i \in {j \in 1..Len(batch) : "before" \in DOMAIN batch[j]}}
Newest(S) == CHOOSE x \in S : \A y \in S : y <= x
Oldest(S) == CHOOSE x \in S : \A y \in S : x <= y

\* A cutoff before time began has nothing before it.
PassFor(batch) == LET asked == Cutoffs(batch)
                  IN  IF asked = {} \/ \A c \in asked : c < 0 THEN NoTime
                      ELSE Cutoff(Newest(asked))

Flush == /\ pass = NoTime
         /\ \E n \in 1..Len(channel) :
              LET batch == SubSeq(channel, 1, n)
              IN  /\ raw' = raw \cup Rows(batch)
                  /\ seen' = seen \cup Rows(batch)
                  /\ late' = late \cup {s \in Rows(batch) : rollup[BucketOf(s)] # {}}
                  /\ pass' = PassFor(batch)
                  /\ channel' = SubSeq(channel, n + 1, Len(channel))
         /\ UNCHANGED <<now, taken, hand, rollup, backs, faults>>

\* Mutant: only this machine's samples are looked for.
OwnBefore(cutoff) == {t \in Times : t < cutoff /\ <<Own, t>> \in raw}
\* oldest_sample_before, over every machine in the file
Before(cutoff) == {t \in Times : t < cutoff /\ \E m \in Machines : <<m, t>> \in raw}

Prune(from, to) == {s \in raw : from <= s[2] /\ s[2] < to}

\* INSERT ... ON CONFLICT DO NOTHING
Summarise(from, to) ==
    [b \in Machines \X Buckets |->
       IF rollup[b] # {} THEN rollup[b]
       ELSE {t \in from..(to - 1) : Align(t) = b[2] /\ <<b[1], t>> \in raw}]

\* Mutant: a chunk starts at its oldest sample, and ends where a minute may be half way.
ChunkFromOldest == Oldest(Before(pass))
\* "A chunk starts on a bucket boundary"
ChunkStart == Align(Oldest(Before(pass)))
ChunkEnd == IF ChunkStart + ChunkSpan < pass THEN ChunkStart + ChunkSpan ELSE pass

Chunk == /\ pass # NoTime /\ Before(pass) # {}
         /\ rollup' = Summarise(ChunkStart, ChunkEnd)
         /\ raw' = raw \ Prune(ChunkStart, ChunkEnd)
         /\ pass' = IF Prune(ChunkStart, ChunkEnd) = {} THEN NoTime ELSE pass
         /\ UNCHANGED <<now, taken, hand, channel, seen, late, backs, faults>>

PassDone == /\ pass # NoTime /\ Before(pass) = {}
            /\ pass' = NoTime
            /\ UNCHANGED <<now, taken, hand, channel, raw, rollup, seen, late, backs, faults>>

\* A chunk fails: what the ones before it pruned stays pruned.
PassFails == /\ pass # NoTime /\ faults < MaxFaults
             /\ pass' = NoTime /\ faults' = faults + 1
             /\ UNCHANGED <<now, taken, hand, channel, raw, rollup, seen, late, backs>>

\* The process dies, and another takes its place.
Crash == /\ faults < MaxFaults
         /\ hand' = NoTime /\ channel' = <<>> /\ pass' = NoTime
         /\ faults' = faults + 1
         /\ UNCHANGED <<now, taken, raw, rollup, seen, late, backs>>

Next == \/ Tick \/ StepBack \/ Take \/ Send \/ Ask
        \/ Flush \/ Chunk \/ PassDone \/ PassFails \/ Crash

Spec == Init /\ [][Next]_vars

\* The clock runs, and the sampler, the retention thread and the writer keep being scheduled.
FairSpec == /\ Spec
            /\ WF_vars(Tick) /\ WF_vars(Send) /\ WF_vars(Ask)
            /\ WF_vars(Flush) /\ WF_vars(Chunk) /\ WF_vars(PassDone)

-----------------------------------------------------------------------------
Messages == [sample : Times] \cup [before : (0 - Keep)..MaxTime]

\* "Nothing is pruned that has not been summarised first", and "a minute is never split
\* across two transactions", whatever the clock did and wherever a pass stopped: until its
\* minute is summarised every sample ever committed is a row, and from then on the summary
\* was computed from it, unless it was committed behind that summary ("the cost is one
\* sample rather than a corrupted summary").
Accounted == \A s \in seen : IF rollup[BucketOf(s)] = {} THEN s \in raw
                             ELSE s[2] \in rollup[BucketOf(s)] \/ s \in late

\* "A summarised bucket is always a whole minute", and what is late "needs a clock that went
\* backwards": as long as it was not set back, a bucket that exists was computed from every
\* sample of its minute, none is left in the other table, and none is on its way.
WholeMinutes ==
    backs = 0 =>
       /\ \A s \in seen : rollup[BucketOf(s)] # {}
                           => s[2] \in rollup[BucketOf(s)] /\ s \notin raw
       /\ \A t \in Pending : rollup[<<Own, Align(t)>>] = {}

\* "A bucket already written is left exactly as it was found", by any later pass.
FirstSummaryStands == [][\A b \in DOMAIN rollup : rollup[b] # {} => rollup'[b] = rollup[b]]_vars

\* A pass that nothing interrupted leaves no sample older than its cutoff: every chunk
\* removes the one it was started for, so a backlog is never given up half way.
PassFinishes == [][pass # NoTime /\ pass' = NoTime /\ faults' = faults
                   => Before(pass) = {}]_vars

\* Every sample old enough is summarised in the end, whichever machine took it, and despite
\* a pass that failed or a crash.
Summarised == []<>(\A s \in raw : Align(MaxTime - Keep) <= s[2])

=============================================================================
