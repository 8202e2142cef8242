-------------------------- MODULE RetentionProofs --------------------------
(***************************************************************************)
(* Retention, for every set of machines, any chunk of whole minutes, any   *)
(* channel and any clock: a sample is a row until its minute is summarised *)
(* and within the summary from then on, unless it was committed behind it, *)
(* and a pass leaves nothing half done; as long as the clock was not set   *)
(* back and a sample is committed before it is old enough to prune, none   *)
(* is committed behind a summary, and every bucket is of a whole minute.   *)
(***************************************************************************)
EXTENDS Retention, WellFoundedInduction, SequenceTheorems, TLAPS

-----------------------------------------------------------------------------
(* Minutes                                                                 *)

LEMMA AlignFacts ==
  ASSUME NEW t \in Int
  PROVE  /\ Align(t) \in Int
         /\ Align(t) <= t /\ t < Align(t) + Minute
         /\ \E k \in Int : Align(t) = k * Minute
<1>1. Minute \in Nat \ {0} BY RetentionAssumption
<1>2. t = Minute * (t \div Minute) + (t % Minute) /\ t % Minute \in 0..(Minute - 1) BY <1>1
<1>3. t \div Minute \in Int BY <1>1
<1> QED BY <1>1, <1>2, <1>3 DEF Align

LEMMA Multiples ==
  ASSUME NEW j \in Int, NEW k \in Int, j * Minute < k * Minute
  PROVE  j * Minute + Minute <= k * Minute
<1>1. Minute \in Nat /\ Minute > 0 BY RetentionAssumption
<1>2. j < k BY <1>1
<1>3. (k - j - 1) * Minute >= 0 BY <1>1, <1>2
<1>4. (k - j - 1) * Minute = k * Minute - j * Minute - Minute BY <1>1
<1> QED BY <1>1, <1>3, <1>4

\* Whole minutes: a boundary has all of a minute before it, or none of it.
Boundary(c) == \E k \in Int : c = k * Minute

LEMMA Sides ==
  ASSUME NEW c \in Int, Boundary(c), NEW t \in Int
  PROVE  /\ t < c => Align(t) + Minute <= c
         /\ c <= t => c <= Align(t)
<1>1. PICK k \in Int : c = k * Minute BY DEF Boundary
<1>2. PICK j \in Int : Align(t) = j * Minute BY AlignFacts
<1>3. Minute \in Nat /\ j * Minute \in Int /\ k * Minute \in Int
  BY RetentionAssumption
<1>4. j * Minute <= t /\ t < j * Minute + Minute BY <1>2, AlignFacts
<1>5. ASSUME t < c PROVE Align(t) + Minute <= c
  <2>1. j * Minute < k * Minute BY <1>1, <1>3, <1>4, <1>5
  <2> QED BY <2>1, <1>1, <1>2, Multiples
<1>6. ASSUME c <= t PROVE c <= Align(t)
  <2>1. SUFFICES ASSUME j * Minute < k * Minute PROVE FALSE BY <1>1, <1>2, <1>3
  <2>2. j * Minute + Minute <= k * Minute BY <2>1, Multiples
  <2> QED BY <2>2, <1>1, <1>3, <1>4, <1>6
<1> QED BY <1>5, <1>6

-----------------------------------------------------------------------------
(* Extremes                                                                *)

LEMMA Smallest ==
  ASSUME NEW S, S \subseteq Nat, S # {}
  PROVE  \E x \in S : \A y \in S : x <= y
<1>1. PICK x \in S : \A y \in S : <<y, x>> \notin OpToRel(<, Nat)
  BY NatLessThanWellFounded, WFMin, Zenon
<1>2. ASSUME NEW y \in S, y < x PROVE FALSE
  <2>1. <<y, x>> \in OpToRel(<, Nat)
    <3>1. y \in Nat /\ x \in Nat OBVIOUS
    <3> QED BY <1>2, <3>1, Zenon DEF OpToRel
  <2> QED BY <1>1, <2>1, Zenon
<1> QED BY <1>2

LEMMA OldestIs ==
  ASSUME NEW S, S \subseteq Nat, S # {}
  PROVE  Oldest(S) \in S /\ \A y \in S : Oldest(S) <= y
  BY Smallest DEF Oldest

LEMMA NewestIs ==
  ASSUME NEW S, NEW top \in Int, \A x \in S : x \in Int /\ x <= top, S # {}
  PROVE  Newest(S) \in S /\ \A y \in S : y <= Newest(S)
<1> DEFINE T == {top - x : x \in S}
<1>1. T \subseteq Nat /\ T # {} OBVIOUS
<1> HIDE DEF T
<1>2. PICK d \in T : \A e \in T : d <= e BY <1>1, Smallest
<1>3. PICK x \in S : d = top - x BY DEF T
<1>4. ASSUME NEW y \in S PROVE y <= x
  <2>1. top - y \in T BY DEF T
  <2> QED BY <2>1, <1>2, <1>3
<1> QED BY <1>4 DEF Newest
-----------------------------------------------------------------------------
(* What is true whatever the clock does.                                   *)

Types == /\ now \in Times /\ hand \in Times \cup {NoTime}
         /\ channel \in Seq(Messages)
         /\ raw \subseteq Samples /\ seen \subseteq Samples
         /\ rollup \in [Machines \X Buckets -> SUBSET Times]
         /\ pass \in Int /\ faults \in Nat

\* A pass runs to a minute's start, whatever the clock did meanwhile.
Aligned == pass # NoTime => Boundary(pass)

AInv == Types /\ Accounted /\ Aligned

LEMMA Keys ==
  ASSUME NEW s \in Samples
  PROVE  /\ s[1] \in Machines /\ s[2] \in Times /\ s[2] \in Int
         /\ BucketOf(s) = <<s[1], Align(s[2])>> /\ BucketOf(s) \in Machines \X Buckets
         /\ BucketOf(s)[1] = s[1] /\ BucketOf(s)[2] = Align(s[2])
         /\ s = <<s[1], s[2]>>
  BY DEF Samples, Buckets, Times, BucketOf

LEMMA BatchRows ==
  ASSUME NEW batch
  PROVE  /\ Rows(batch) \subseteq Samples
         /\ \A s \in Rows(batch) : /\ s[1] = Own
                                    /\ \E i \in 1..Len(batch) : batch[i] = [sample |-> s[2]]
<1>1. ASSUME NEW s \in Rows(batch)
      PROVE  s \in Samples /\ s[1] = Own /\ \E i \in 1..Len(batch) : batch[i] = [sample |-> s[2]]
  <2>1. PICK t \in Times : s = <<Own, t>> /\ \E i \in 1..Len(batch) : batch[i] = [sample |-> t]
    BY DEF Rows
  <2> QED BY <2>1, RetentionAssumption DEF Samples
<1> QED BY <1>1

\* A chunk: from a minute's start to a minute's start, with the oldest sample in it.
LEMMA ChunkBounds ==
  ASSUME Types, Before(pass) # {}
  PROVE  /\ ChunkStart \in Int /\ ChunkEnd \in Int /\ ChunkEnd <= pass
         /\ Boundary(ChunkStart)
         /\ Boundary(pass) => Boundary(ChunkEnd)
         /\ Prune(ChunkStart, ChunkEnd) # {}
<1> DEFINE old == Oldest(Before(pass))
<1>1. old \in Times /\ old < pass /\ \E m \in Machines : <<m, old>> \in raw
  <2>1. Before(pass) \subseteq Nat BY DEF Before, Times
  <2>2. old \in Before(pass) BY <2>1, OldestIs
  <2> QED BY <2>2 DEF Before
<1> HIDE DEF old
<1>2. old \in Int /\ ChunkStart = Align(old) BY <1>1 DEF old, Times, ChunkStart
<1>3. PICK k \in Int : ChunkStart = k * Minute BY <1>2, AlignFacts
<1>4. ChunkStart \in Int /\ ChunkStart <= old /\ old < ChunkStart + Minute
  BY <1>2, AlignFacts
<1>5. PICK j \in Int : ChunkSpan = j * Minute
  <2>1. Minute \in Nat \ {0} /\ ChunkSpan \in Nat /\ ChunkSpan % Minute = 0
    BY RetentionAssumption
  <2>2. ChunkSpan \div Minute \in Int /\ ChunkSpan = (ChunkSpan \div Minute) * Minute BY <2>1
  <2> QED BY <2>2
<1>6. Minute \in Nat /\ ChunkSpan \in Nat /\ Minute <= ChunkSpan
  <2>1. Minute \in Nat \ {0} /\ ChunkSpan \in Nat \ {0} BY RetentionAssumption
  <2>2. 0 * Minute < j * Minute BY <2>1, <1>5
  <2>3. 0 * Minute + Minute <= j * Minute BY <2>2, Multiples
  <2> QED BY <2>1, <2>3, <1>5
<1>7. Boundary(ChunkStart + ChunkSpan)
  <2>1. ChunkStart + ChunkSpan = (k + j) * Minute BY <1>3, <1>5, <1>6
  <2> QED BY <2>1 DEF Boundary
<1>8. ChunkEnd \in {ChunkStart + ChunkSpan, pass} /\ ChunkEnd <= pass /\ old < ChunkEnd
  BY <1>1, <1>2, <1>4, <1>6 DEF ChunkEnd, Types
<1>9. Prune(ChunkStart, ChunkEnd) # {}
  <2>1. PICK m \in Machines : <<m, old>> \in raw BY <1>1
  <2>2. <<m, old>> \in Prune(ChunkStart, ChunkEnd) BY <2>1, <1>4, <1>8 DEF Prune
  <2> QED BY <2>2
<1>10. Boundary(ChunkStart) BY <1>3 DEF Boundary
<1>11. ChunkEnd \in Int BY <1>4, <1>6, <1>8 DEF Types
<1>12. Boundary(pass) => Boundary(ChunkEnd) BY <1>7, <1>8
<1> QED BY <1>4, <1>8, <1>9, <1>10, <1>11, <1>12

\* What a chunk makes of the buckets.
LEMMA ChunkBuckets ==
  ASSUME Types, NEW from \in Int, NEW to \in Int
  PROVE  /\ Summarise(from, to) \in [Machines \X Buckets -> SUBSET Times]
         /\ \A b \in Machines \X Buckets :
              /\ rollup[b] # {} => Summarise(from, to)[b] = rollup[b]
              /\ rollup[b] = {} =>
                   \A t : t \in Summarise(from, to)[b] <=>
                            t \in from..(to - 1) /\ Align(t) = b[2] /\ <<b[1], t>> \in raw
<1>1. \A b \in Machines \X Buckets :
        {t \in from..(to - 1) : Align(t) = b[2] /\ <<b[1], t>> \in raw} \in SUBSET Times
  BY DEF Types, Samples
<1> QED BY <1>1 DEF Types, Summarise

LEMMA MessageTypes ==
  /\ \A t \in Times : [sample |-> t] \in Messages
  /\ \A t \in Times : [before |-> t - Keep] \in Messages
<1>1. ASSUME NEW t \in Times PROVE t - Keep \in (0 - Keep)..MaxTime
  BY RetentionAssumption DEF Times
<1> QED BY <1>1 DEF Messages

\* The cutoffs asked for in a batch, and the one a pass is given.
LEMMA PassIs ==
  ASSUME Types, NEW n \in 1..Len(channel)
  PROVE  LET batch == SubSeq(channel, 1, n)
         IN  /\ PassFor(batch) \in Int
             /\ PassFor(batch) = NoTime \/ (\E i \in 1..Len(channel) :
                  /\ "before" \in DOMAIN channel[i]
                  /\ channel[i].before \in Int
                  /\ PassFor(batch) = Align(channel[i].before))
<1> DEFINE batch == SubSeq(channel, 1, n)
           asked == Cutoffs(batch)
<1>1. \A i \in 1..Len(channel) :
        "before" \in DOMAIN channel[i]
          => channel[i].before \in Int /\ channel[i].before <= MaxTime
  <2> SUFFICES ASSUME NEW i \in 1..Len(channel), "before" \in DOMAIN channel[i]
               PROVE  channel[i].before \in (0 - Keep)..MaxTime
    BY RetentionAssumption
  <2>1. channel[i] \in Messages BY DEF Types
  <2> QED BY <2>1 DEF Messages
<1>2. Len(batch) = n /\ \A i \in 1..n : batch[i] = channel[i] BY DEF Types
<1>3. \A c \in asked : \E i \in 1..Len(channel) :
        "before" \in DOMAIN channel[i] /\ c = channel[i].before
  BY <1>2 DEF Cutoffs, Types
<1> HIDE DEF asked
<1>4. \A c \in asked : c \in Int /\ c <= MaxTime BY <1>1, <1>3
<1>5. CASE asked = {} \/ \A c \in asked : c < 0
  BY <1>5 DEF PassFor, asked, NoTime
<1>6. CASE ~(asked = {} \/ \A c \in asked : c < 0)
  <2>1. Newest(asked) \in asked BY <1>4, <1>6, NewestIs, RetentionAssumption
  <2>2. PassFor(batch) = Align(Newest(asked)) BY <1>6 DEF PassFor, asked, Cutoff
  <2>3. PICK i \in 1..Len(channel) :
          "before" \in DOMAIN channel[i] /\ Newest(asked) = channel[i].before
    BY <2>1, <1>3
  <2> QED BY <2>2, <2>3, <1>1, AlignFacts
<1> QED BY <1>5, <1>6

\* A chunk takes a minute in as a whole or leaves it alone: what it summarises, it
\* summarises from every sample of the minute, and what it prunes, it has summarised.
LEMMA WholeChunk ==
  ASSUME Types, NEW from \in Int, NEW to \in Int, Boundary(from), Boundary(to),
         NEW s \in raw, rollup[BucketOf(s)] = {}
  PROVE  /\ Summarise(from, to)[BucketOf(s)] = {} => s \notin Prune(from, to)
         /\ Summarise(from, to)[BucketOf(s)] # {}
              => s[2] \in Summarise(from, to)[BucketOf(s)] /\ s \in Prune(from, to)
<1> DEFINE b == BucketOf(s)
<1>1. /\ s \in Samples /\ b \in Machines \X Buckets /\ s = <<s[1], s[2]>> /\ s[2] \in Int
      /\ b[1] = s[1] /\ b[2] = Align(s[2]) /\ Minute \in Nat
  BY Keys, RetentionAssumption DEF Types
<1> HIDE DEF b
<1>2. <<b[1], s[2]>> \in raw /\ Align(s[2]) = b[2] BY <1>1
<1>3. rollup[b] = {} BY DEF b
<1>4. \A t : t \in Summarise(from, to)[b] <=>
            t \in from..(to - 1) /\ Align(t) = b[2] /\ <<b[1], t>> \in raw
  BY <1>1, <1>3, ChunkBuckets
<1>5. s \in Prune(from, to) <=> s[2] \in from..(to - 1) BY <1>1 DEF Prune
<1>6. ASSUME Summarise(from, to)[b] # {} PROVE s[2] \in from..(to - 1)
  <2>1. PICK u : u \in Summarise(from, to)[b] BY <1>6
  <2>2. u \in from..(to - 1) /\ Align(u) = b[2] BY <2>1, <1>4
  <2>3. from <= Align(u) /\ Align(u) + Minute <= to BY <2>2, Sides
  <2>4. Align(s[2]) \in Int /\ Align(s[2]) <= s[2] /\ s[2] < Align(s[2]) + Minute
    BY <1>1, AlignFacts
  <2> QED BY ONLY <2>2, <2>3, <2>4, <1>1, <1>2
<1>7. s[2] \in Summarise(from, to)[b] <=> s[2] \in from..(to - 1) BY <1>2, <1>4
<1> QED BY <1>5, <1>6, <1>7 DEF b

LEMMA AStep == AInv /\ [Next]_vars => AInv'
<1> SUFFICES ASSUME AInv, [Next]_vars PROVE AInv' OBVIOUS
<1> USE DEF AInv
<1>1. CASE Tick \/ StepBack \/ Take \/ Send \/ Ask \/ PassDone \/ PassFails \/ Crash
  <2> USE <1>1 DEF Tick, StepBack, Take, Send, Ask, PassDone, PassFails, Crash
  <2>1. UNCHANGED <<raw, rollup, seen, late>> /\ pass' \in {pass, NoTime} OBVIOUS
  <2>2. now' \in Times BY RetentionAssumption DEF Types, Times
  <2>3. hand' \in Times \cup {NoTime} /\ pass' \in Int BY DEF Types, NoTime
  <2>4. channel' \in Seq(Messages)
    <3>1. [before |-> now - Keep] \in Messages BY MessageTypes DEF Types
    <3>2. hand # NoTime => [sample |-> hand] \in Messages BY MessageTypes DEF Types
    <3>3. /\ channel \in Seq(Messages)
          /\ \/ channel' \in {channel, <<>>}
             \/ \E x \in Messages : channel' = Append(channel, x)
      BY <3>1, <3>2 DEF Types
    <3>4. ASSUME channel' = channel \/ channel' = <<>>
          PROVE  channel' \in Seq(Messages)
      <4>1. <<>> \in Seq(Messages) OBVIOUS
      <4> QED BY ONLY <3>3, <3>4, <4>1
    <3>5. ASSUME NEW x \in Messages, channel' = Append(channel, x)
          PROVE  channel' \in Seq(Messages)
      BY <3>3, <3>5, AppendProperties
    <3> QED BY <3>3, <3>4, <3>5
  <2> QED BY <2>1, <2>2, <2>3, <2>4 DEF Types, Accounted, Aligned
<1>2. CASE Flush
  <2>1. PICK n \in 1..Len(channel) :
          /\ raw' = raw \cup Rows(SubSeq(channel, 1, n))
          /\ seen' = seen \cup Rows(SubSeq(channel, 1, n))
          /\ late' = late \cup {s \in Rows(SubSeq(channel, 1, n)) : rollup[BucketOf(s)] # {}}
          /\ pass' = PassFor(SubSeq(channel, 1, n))
          /\ channel' = SubSeq(channel, n + 1, Len(channel))
    BY <1>2 DEF Flush
  <2>2. Rows(SubSeq(channel, 1, n)) \subseteq Samples BY BatchRows
  <2>3. channel' \in Seq(Messages) BY <2>1 DEF Types
  <2>4. pass' \in Int BY <2>1, PassIs
  <2>5. raw' \subseteq Samples /\ seen' \subseteq Samples BY <2>1, <2>2 DEF Types
  <2>6. UNCHANGED <<now, hand, rollup, faults>> BY <1>2 DEF Flush
  <2>7. Accounted'
    <3>1. \A s \in seen' : rollup[BucketOf(s)] = {} => s \in raw' BY <2>1 DEF Accounted
    <3>2. \A s \in seen' : rollup[BucketOf(s)] # {}
                              => s[2] \in rollup[BucketOf(s)] \/ s \in late'
      BY <2>1 DEF Accounted
    <3> QED BY <3>1, <3>2, <2>6 DEF Accounted
  <2>8. Aligned'
    <3> SUFFICES ASSUME pass' # NoTime PROVE Boundary(pass') BY DEF Aligned
    <3>1. PICK i \in 1..Len(channel) : /\ channel[i].before \in Int
                                      /\ pass' = Align(channel[i].before)
      BY <2>1, PassIs
    <3> QED BY <3>1, AlignFacts DEF Boundary
  <2> QED BY <2>3, <2>4, <2>5, <2>6, <2>7, <2>8 DEF Types
<1>3. CASE Chunk
  <2> DEFINE from == ChunkStart
             to == ChunkEnd
  <2>1. /\ from \in Int /\ to \in Int /\ Boundary(from) /\ Boundary(to)
    BY <1>3, ChunkBounds DEF Chunk, Aligned
  <2>2. /\ rollup' = Summarise(from, to) /\ raw' = raw \ Prune(from, to)
        /\ pass' \in {NoTime, pass} /\ UNCHANGED <<now, hand, channel, seen, late, faults>>
    BY <1>3 DEF Chunk
  <2> HIDE DEF from, to
  <2>3. Types' BY <2>1, <2>2, ChunkBuckets DEF Types, NoTime
  <2>4. Accounted'
    <3> SUFFICES ASSUME NEW s \in seen
                 PROVE  /\ rollup'[BucketOf(s)] = {} => s \in raw'
                        /\ rollup'[BucketOf(s)] # {}
                             => s[2] \in rollup'[BucketOf(s)] \/ s \in late'
      BY <2>2 DEF Accounted
    <3>1. s \in Samples /\ BucketOf(s) \in Machines \X Buckets BY Keys DEF Types
    <3>2. CASE rollup[BucketOf(s)] # {}
      <4>1. Summarise(from, to)[BucketOf(s)] = rollup[BucketOf(s)]
        BY <3>1, <3>2, <2>1, ChunkBuckets
      <4> QED BY <4>1, <3>2, <2>2 DEF Accounted
    <3>3. CASE rollup[BucketOf(s)] = {}
      <4>1. s \in raw BY <3>3 DEF Accounted
      <4> QED BY <4>1, <3>3, <2>1, <2>2, WholeChunk
    <3> QED BY <3>2, <3>3
  <2>5. Aligned' BY <2>2 DEF Aligned
  <2> QED BY <2>3, <2>4, <2>5
<1>4. CASE UNCHANGED vars BY <1>4 DEF vars, Types, Accounted, Aligned
<1> QED BY <1>1, <1>2, <1>3, <1>4 DEF Next

LEMMA Always == Spec => []AInv
<1>1. Init => AInv
  <2> SUFFICES ASSUME Init PROVE AInv OBVIOUS
  <2>1. raw \subseteq Samples
    <3>1. Left \subseteq Samples BY RetentionAssumption DEF Times, Samples
    <3> QED BY <3>1 DEF Init
  <2>2. rollup \in [Machines \X Buckets -> SUBSET Times] BY DEF Init
  <2>3. /\ now \in Times /\ hand = NoTime /\ pass \in Int /\ channel \in Seq(Messages)
        /\ seen = raw /\ faults \in Nat /\ pass = NoTime
        /\ \A b \in Machines \X Buckets : rollup[b] = {}
    BY RetentionAssumption DEF Init, NoTime
  <2>4. \A s \in seen : rollup[BucketOf(s)] = {} BY <2>1, <2>3, Keys
  <2> QED BY <2>4, <2>1, <2>2, <2>3 DEF AInv, Types, Accounted, Aligned
<1> QED BY <1>1, AStep, PTL DEF Spec

\* Whatever the clock does and wherever a pass stops, a sample is a row until its minute is
\* summarised, and the summary is computed from it unless it was committed behind it.
THEOREM NothingLost == Spec => []Accounted
<1>1. AInv => Accounted BY DEF AInv
<1> QED BY <1>1, Always, PTL

-----------------------------------------------------------------------------
(* What is true until the clock is set back.                               *)

Whole1 == \A s \in seen : rollup[BucketOf(s)] # {}
                           => s[2] \in rollup[BucketOf(s)] /\ s \notin raw

\* What is on its way is recent; what is summarised, or about to be, is not.
Fresh == \A t \in Pending : now - t <= MaxDelay
Past == \A b \in Machines \X Buckets : rollup[b] # {} => b[2] + Minute <= now - Keep
PassPast == pass # NoTime => Boundary(pass) /\ pass <= now - Keep
AskedPast == \A i \in 1..Len(channel) :
               "before" \in DOMAIN channel[i] => channel[i].before <= now - Keep

BInv == /\ AInv /\ Whole1 /\ Fresh /\ Past /\ PassPast /\ AskedPast
        /\ backs \in Nat

LEMMA PendingClear ==
  ASSUME BInv, MaxDelay <= Keep, NEW t \in Pending
  PROVE  rollup[<<Own, Align(t)>>] = {}
<1>1. t \in Times /\ t \in Int /\ now \in Int /\ MaxDelay \in Int /\ Keep \in Int
  BY RetentionAssumption DEF BInv, AInv, Types, Pending, Times
<1>2. <<Own, Align(t)>> \in Machines \X Buckets BY <1>1, RetentionAssumption DEF Buckets
<1>3. now - t <= MaxDelay BY DEF BInv, Fresh
<1>4. SUFFICES ASSUME Align(t) + Minute <= now - Keep PROVE FALSE
  BY <1>2 DEF BInv, Past
<1>5. Align(t) \in Int /\ Minute \in Int /\ t < Align(t) + Minute
  BY <1>1, AlignFacts, RetentionAssumption
<1> QED BY <1>1, <1>3, <1>4, <1>5

LEMMA AskTypes ==
  ASSUME channel \in Seq(Messages)
  PROVE  \A i \in 1..Len(channel) :
           "before" \in DOMAIN channel[i] => channel[i].before \in Int
<1> SUFFICES ASSUME NEW i \in 1..Len(channel), "before" \in DOMAIN channel[i]
             PROVE  channel[i].before \in (0 - Keep)..MaxTime
  BY RetentionAssumption
<1>1. channel[i] \in Messages OBVIOUS
<1> QED BY <1>1 DEF Messages

LEMMA Appended ==
  ASSUME channel \in Seq(Messages), NEW x \in Messages, channel' = Append(channel, x)
  PROVE  /\ Len(channel') = Len(channel) + 1
         /\ \A i \in 1..Len(channel) : channel'[i] = channel[i]
         /\ channel'[Len(channel) + 1] = x
         /\ \A i \in 1..Len(channel') : i \in 1..Len(channel) \/ i = Len(channel) + 1
  BY AppendProperties

LEMMA BStep ==
  ASSUME MaxDelay <= Keep, BInv, [Next]_vars, backs' = 0
  PROVE  BInv'
<1>1. AInv' BY AStep DEF BInv
<1>2. /\ AInv /\ Types /\ Whole1 /\ Fresh /\ Past /\ PassPast /\ AskedPast /\ backs \in Nat
      /\ now \in Int /\ Keep \in Nat /\ MaxDelay \in Nat /\ Minute \in Nat
      /\ now \in Times /\ channel \in Seq(Messages)
  BY RetentionAssumption DEF BInv, AInv, Types, Times
<1>3. CASE Tick
  <2> USE <1>3 DEF Tick
  <2>1. Whole1' /\ UNCHANGED Pending BY <1>2 DEF Whole1, Pending
  <2>2. Fresh' BY <1>2, <2>1 DEF Fresh, Pending, Times
  <2>3. \A b \in Machines \X Buckets : b[2] \in Int
    BY AlignFacts DEF Buckets, Times
  <2>4. Past' BY <1>2, <2>3 DEF Past
  <2>5. PassPast' BY <1>2 DEF PassPast, Types
  <2>6. AskedPast'
    <3>1. \A i \in 1..Len(channel) : "before" \in DOMAIN channel[i] => channel[i].before \in Int
      BY <1>2, AskTypes
    <3> QED BY <1>2, <3>1 DEF AskedPast
  <2> QED BY <1>1, <1>2, <2>1, <2>2, <2>4, <2>5, <2>6 DEF BInv
<1>4. CASE StepBack BY <1>2, <1>4 DEF StepBack
<1>5. CASE Take
  <2> USE <1>5 DEF Take
  <2>1. \A t \in Pending' : t \in Pending \/ t = now BY DEF Pending
  <2>2. Fresh' BY <1>2, <2>1 DEF Fresh
  <2> QED BY <1>1, <1>2, <2>2 DEF BInv, Whole1, Past, PassPast, AskedPast
<1>6. CASE Send
  <2> USE <1>6 DEF Send
  <2>0. CASE channel' = channel
    <3>1. Fresh' BY <1>2, <2>0 DEF Fresh, Pending, Times, NoTime
    <3> QED BY <1>1, <1>2, <2>0, <3>1 DEF BInv, Whole1, Past, PassPast, AskedPast
  <2>1. CASE channel' # channel
    <3>1. hand \in Times /\ [sample |-> hand] \in Messages
      BY <1>2, MessageTypes DEF Types
    <3>2. channel' = Append(channel, [sample |-> hand]) BY <2>1
    <3>3. \A t \in Pending' : t \in Pending
      <4> SUFFICES ASSUME NEW t \in Times, NEW i \in 1..Len(channel'),
                          channel'[i] = [sample |-> t], t # hand
                   PROVE  i \in 1..Len(channel) /\ channel[i] = [sample |-> t]
        BY <3>1 DEF Pending, NoTime, Times
      <4>1. [sample |-> t].sample # [sample |-> hand].sample OBVIOUS
      <4> QED BY <4>1, <3>1, <3>2, <1>2, Appended
    <3>4. Fresh' BY <1>2, <3>3 DEF Fresh
    <3>5. AskedPast' BY <1>2, <3>1, <3>2, Appended DEF AskedPast
    <3> QED BY <1>1, <1>2, <3>4, <3>5 DEF BInv, Whole1, Past, PassPast
  <2> QED BY <2>0, <2>1
<1>7. CASE Ask
  <2> USE <1>7 DEF Ask
  <2>1. [before |-> now - Keep] \in Messages BY <1>2, MessageTypes
  <2>2. \A t \in Pending' : t \in Pending
    <3> SUFFICES ASSUME NEW t \in Times, NEW i \in 1..Len(channel'),
                        channel'[i] = [sample |-> t]
                 PROVE  i \in 1..Len(channel) /\ channel[i] = [sample |-> t]
      BY DEF Pending
    <3>1. DOMAIN [sample |-> t] # DOMAIN [before |-> now - Keep] OBVIOUS
    <3> QED BY <3>1, <2>1, <1>2, Appended
  <2>3. Fresh' BY <1>2, <2>2 DEF Fresh
  <2>4. AskedPast' BY <1>2, <2>1, Appended DEF AskedPast
  <2> QED BY <1>1, <1>2, <2>3, <2>4 DEF BInv, Whole1, Past, PassPast
<1>8. CASE PassDone \/ PassFails
  <2>1. UNCHANGED <<now, hand, channel, raw, rollup, seen>> /\ pass' = NoTime
    BY <1>8 DEF PassDone, PassFails
  <2>2. Fresh' BY <1>2, <2>1 DEF Fresh, Pending
  <2>3. AskedPast' BY <1>2, <2>1 DEF AskedPast
  <2> QED BY <1>1, <1>2, <2>1, <2>2, <2>3 DEF BInv, Whole1, Past, PassPast
<1>12. CASE Crash
  <2>1. UNCHANGED <<now, raw, rollup, seen>> /\ pass' = NoTime BY <1>12 DEF Crash
  <2>2. hand' = NoTime /\ channel' = <<>> BY <1>12 DEF Crash
  <2>3. Len(channel') = 0 BY <2>2
  <2>4. Pending' = {} BY <2>2, <2>3 DEF Pending, NoTime, Times
  <2>5. Fresh' BY <2>4 DEF Fresh
  <2>6. AskedPast' BY <2>3 DEF AskedPast
  <2> QED BY <1>1, <1>2, <2>1, <2>5, <2>6 DEF BInv, Whole1, Past, PassPast
<1>9. CASE UNCHANGED vars
  <2>1. UNCHANGED <<now, hand, channel, raw, rollup, pass, seen, backs>>
    BY <1>9 DEF vars
  <2> QED BY <1>1, <1>2, <2>1 DEF BInv, Whole1, Fresh, Pending, Past, PassPast, AskedPast
<1>10. CASE Flush
  <2>1. PICK n \in 1..Len(channel) :
          /\ raw' = raw \cup Rows(SubSeq(channel, 1, n))
          /\ seen' = seen \cup Rows(SubSeq(channel, 1, n))
          /\ pass' = PassFor(SubSeq(channel, 1, n))
          /\ channel' = SubSeq(channel, n + 1, Len(channel))
    BY <1>10 DEF Flush
  <2>2. UNCHANGED <<now, hand, rollup, backs>> BY <1>10 DEF Flush
  <2>3. \A i \in 1..Len(channel') : /\ i + n \in 1..Len(channel)
                                    /\ channel'[i] = channel[i + n]
    BY <1>2, <2>1
  <2>4. Fresh' BY <1>2, <2>2, <2>3 DEF Fresh, Pending
  <2>5. AskedPast' BY <1>2, <2>2, <2>3 DEF AskedPast
  <2>6. \A s \in Rows(SubSeq(channel, 1, n)) : rollup[BucketOf(s)] = {}
    <3> SUFFICES ASSUME NEW s \in Rows(SubSeq(channel, 1, n))
                 PROVE  s[1] = Own /\ s[2] \in Pending
      BY PendingClear DEF BucketOf
    <3>1. PICK i \in 1..Len(SubSeq(channel, 1, n)) :
            SubSeq(channel, 1, n)[i] = [sample |-> s[2]]
      BY BatchRows
    <3>2. i \in 1..Len(channel) /\ channel[i] = [sample |-> s[2]] BY <3>1, <1>2
    <3> QED BY <3>2, BatchRows, Keys DEF Pending
  <2>7. Whole1' BY <1>2, <2>1, <2>2, <2>6 DEF Whole1
  <2>8. PassPast'
    <3> SUFFICES ASSUME pass' # NoTime PROVE Boundary(pass') /\ pass' <= now - Keep
      BY <2>2 DEF PassPast
    <3>1. PICK i \in 1..Len(channel) : /\ "before" \in DOMAIN channel[i]
                                      /\ channel[i].before \in Int
                                      /\ pass' = Align(channel[i].before)
      BY <2>1, <1>2, PassIs
    <3>2. channel[i].before <= now - Keep BY <3>1, <1>2 DEF AskedPast
    <3> DEFINE asked == channel[i].before
    <3>3. asked \in Int /\ asked <= now - Keep /\ pass' = Align(asked) BY <3>1, <3>2
    <3> HIDE DEF asked
    <3>4. pass' \in Int /\ pass' <= asked /\ Boundary(pass')
      BY <3>3, AlignFacts DEF Boundary
    <3> QED BY <3>3, <3>4, <1>2
  <2> QED BY <1>1, <1>2, <2>2, <2>4, <2>5, <2>7, <2>8 DEF BInv, Past
<1>11. CASE Chunk
  <2> DEFINE from == ChunkStart
             to == ChunkEnd
  <2>1. /\ from \in Int /\ to \in Int /\ to <= pass /\ Boundary(from)
        /\ Boundary(to)
    BY <1>2, <1>11, ChunkBounds DEF Chunk, PassPast
  <2>2. /\ rollup' = Summarise(from, to) /\ raw' = raw \ Prune(from, to)
        /\ pass' \in {NoTime, pass} /\ pass # NoTime
        /\ UNCHANGED <<now, hand, channel, seen, backs>>
    BY <1>11 DEF Chunk
  <2> HIDE DEF from, to
  <2>3. Fresh' /\ AskedPast' /\ PassPast'
    BY <1>2, <2>2 DEF Fresh, Pending, AskedPast, PassPast
  <2>6. /\ \A b \in Machines \X Buckets :
             /\ rollup[b] # {} => rollup'[b] = rollup[b]
             /\ rollup[b] = {} =>
                  \A t : t \in rollup'[b] <=>
                           t \in from..(to - 1) /\ Align(t) = b[2] /\ <<b[1], t>> \in raw
    BY ONLY <1>2, <2>1, <2>2, ChunkBuckets
  <2>7. to <= now - Keep BY <1>2, <2>1, <2>2 DEF PassPast, Types
  <2>4. Past'
    <3> SUFFICES ASSUME NEW b \in Machines \X Buckets, rollup'[b] # {}, rollup[b] = {}
                 PROVE  b[2] + Minute <= now - Keep
      BY <1>2, <2>2 DEF Past
    <3>1. PICK t : t \in rollup'[b] OBVIOUS
    <3>2. t \in from..(to - 1) /\ Align(t) = b[2] BY <3>1, <2>6
    <3>3. t \in Int /\ t < to BY <3>2, <2>1
    <3>4. Align(t) + Minute <= to BY <3>3, <2>1, Sides
    <3>5. Align(t) \in Int BY <3>3, AlignFacts
    <3> QED BY <3>2, <3>4, <3>5, <1>2, <2>1, <2>7
  <2>5. Whole1'
    <3> SUFFICES ASSUME NEW s \in seen, rollup'[BucketOf(s)] # {}
                 PROVE  s[2] \in rollup'[BucketOf(s)] /\ s \notin raw'
      BY <2>2 DEF Whole1
    <3>1. s \in Samples /\ BucketOf(s) \in Machines \X Buckets
      BY <1>2, Keys DEF Types
    <3>2. CASE rollup[BucketOf(s)] # {}
      BY <3>1, <3>2, <1>2, <2>2, <2>6 DEF Whole1
    <3>3. CASE rollup[BucketOf(s)] = {}
      <4>1. s \in raw BY <3>3, <1>2 DEF AInv, Accounted
      <4>2. s[2] \in rollup'[BucketOf(s)] /\ s \in Prune(from, to)
        BY <4>1, <3>3, <1>2, <2>1, <2>2, WholeChunk
      <4> QED BY <4>2, <2>2
    <3> QED BY <3>2, <3>3
  <2> QED BY <1>1, <1>2, <2>2, <2>3, <2>4, <2>5 DEF BInv
<1> QED
  BY <1>3, <1>4, <1>5, <1>6, <1>7, <1>8, <1>9, <1>10, <1>11, <1>12 DEF Next

\* The invariant of every behaviour: BInv, until the clock is first set back.
CInv == AInv /\ backs \in Nat /\ (backs = 0 => BInv)

LEMMA CStep ==
  ASSUME MaxDelay <= Keep, CInv, [Next]_vars
  PROVE  CInv'
<1>1. AInv' BY AStep DEF CInv
<1>2. backs' \in Nat /\ (backs' = 0 => backs = 0)
  <2>1. CASE StepBack BY <2>1 DEF StepBack, CInv
  <2>2. CASE [Next]_vars /\ ~StepBack
    <3>1. backs' = backs
      BY <2>2 DEF Next, vars, Tick, Take, Send, Ask, Flush, Chunk, PassDone, PassFails,
                  Crash
    <3> QED BY <3>1 DEF CInv
  <2> QED BY <2>1, <2>2
<1>3. backs' = 0 => BInv' BY <1>2, BStep DEF CInv
<1> QED BY <1>1, <1>2, <1>3 DEF CInv

\* As long as the clock has only run forward, and samples are committed sooner than they
\* grow old, every bucket is a whole minute's.
THEOREM MinutesAreWhole ==
  ASSUME MaxDelay <= Keep
  PROVE  Spec => []WholeMinutes
<1>1. Init => CInv
  <2> SUFFICES ASSUME Init PROVE CInv OBVIOUS
  <2>1. raw \subseteq Samples
    <3>1. Left \subseteq Samples BY RetentionAssumption DEF Times, Samples
    <3> QED BY <3>1 DEF Init
  <2>2. rollup \in [Machines \X Buckets -> SUBSET Times]
        /\ \A b \in Machines \X Buckets : rollup[b] = {}
    BY DEF Init
  <2>3. /\ now \in Times /\ hand = NoTime /\ pass = NoTime /\ pass \in Int
        /\ channel = <<>> /\ channel \in Seq(Messages) /\ seen = raw
        /\ backs \in Nat /\ faults \in Nat
    BY RetentionAssumption DEF Init, NoTime
  <2>6. Whole1 /\ \A s \in seen : rollup[BucketOf(s)] = {}
    BY <2>1, <2>2, <2>3, Keys DEF Whole1
  <2>4. AInv BY <2>1, <2>2, <2>3, <2>6 DEF AInv, Types, Accounted, Aligned
  <2>5. Pending = {} /\ AskedPast BY <2>3 DEF Pending, NoTime, Times, AskedPast
  <2> QED BY <2>2, <2>3, <2>4, <2>5, <2>6 DEF CInv, BInv, Fresh, Past, PassPast
<1>2. CInv /\ [Next]_vars => CInv' BY CStep
<1>3. CInv => WholeMinutes
  <2> SUFFICES ASSUME CInv, backs = 0, BInv PROVE WholeMinutes BY DEF CInv, WholeMinutes
  <2>1. \A t \in Pending : rollup[<<Own, Align(t)>>] = {} BY PendingClear
  <2> QED BY <2>1 DEF BInv, Whole1, WholeMinutes
<1> QED BY <1>1, <1>2, <1>3, PTL DEF Spec

-----------------------------------------------------------------------------
\* A pass stops for no other reason than a fault, or nothing left to summarise.
THEOREM PassesFinish == Spec => PassFinishes
<1>1. AInv /\ [Next]_vars => [pass # NoTime /\ pass' = NoTime /\ faults' = faults
                              => Before(pass) = {}]_vars
  <2> SUFFICES ASSUME AInv, Next, pass # NoTime, pass' = NoTime, faults' = faults,
                      Before(pass) # {}
               PROVE  FALSE
    OBVIOUS
  <2>1. Prune(ChunkStart, ChunkEnd) # {} BY ChunkBounds DEF AInv
  <2>2. CASE Chunk BY <2>1, <2>2 DEF Chunk
  <2>3. CASE Tick \/ StepBack \/ Take \/ Send \/ Ask \/ Flush \/ PassDone
    BY <2>3 DEF Tick, StepBack, Take, Send, Ask, Flush, PassDone
  <2>4. CASE PassFails \/ Crash
    BY <2>4 DEF PassFails, Crash, AInv, Types
  <2> QED BY <2>2, <2>3, <2>4 DEF Next
<1> QED BY <1>1, Always, PTL DEF Spec, PassFinishes

\* A bucket, once written, is not written again.
THEOREM SummariesStand == Spec => FirstSummaryStands
<1>1. AInv /\ [Next]_vars
        => [\A b \in DOMAIN rollup : rollup[b] # {} => rollup'[b] = rollup[b]]_vars
  <2> SUFFICES ASSUME AInv, Next, NEW b \in DOMAIN rollup, rollup[b] # {}
               PROVE  rollup'[b] = rollup[b]
    OBVIOUS
  <2>1. CASE Chunk
    <3>1. ChunkStart \in Int /\ ChunkEnd \in Int BY <2>1, ChunkBounds DEF Chunk, AInv
    <3>2. b \in Machines \X Buckets BY DEF AInv, Types
    <3>3. Summarise(ChunkStart, ChunkEnd)[b] = rollup[b]
      BY <3>1, <3>2, ChunkBuckets DEF AInv
    <3> QED BY <2>1, <3>3 DEF Chunk
  <2>2. CASE ~Chunk
    BY <2>2 DEF Next, Tick, StepBack, Take, Send, Ask, Flush, PassDone, PassFails, Crash
  <2> QED BY <2>1, <2>2
<1> QED BY <1>1, Always, PTL DEF Spec, FirstSummaryStands
=============================================================================
