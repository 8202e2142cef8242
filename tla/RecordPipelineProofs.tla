------------------------ MODULE RecordPipelineProofs ------------------------
(***************************************************************************)
(* RecordPipeline's safety properties, and that it implements OrderedLog,  *)
(* for every set of collectors, every capacity and every batch size.       *)
(*                                                                         *)
(* The state falls in two halves that meet in three places.  The writer's  *)
(* half (writerSide) is touched by the writer thread and by a send that    *)
(* succeeds; the threads' half by everybody else.  StepKinds says so once, *)
(* and each invariant is then proved on the half it is about.              *)
(***************************************************************************)
EXTENDS RecordPipeline, FiniteSetTheorems, SequenceTheorems, TLAPS

writerSide == <<queue, rxOpen, writer, batch, health, accepted, done, written, lost>>
threadSide == <<holders, shutdown, pc, out, sent, faults, dropped, discarded>>

-----------------------------------------------------------------------------
\* The type of each half.
TypeWriter ==
  /\ queue \in Seq(Record) /\ Len(queue) <= Capacity
  /\ batch \in Seq(Record) /\ Len(batch) <= MaxBatch
  /\ accepted \in Seq(Record)
  /\ done \in Seq(Record)
  /\ written \subseteq Nat \ {0}
  /\ lost \subseteq Nat \ {0}
  /\ rxOpen \in BOOLEAN
  /\ health \in BOOLEAN
  /\ writer \in WriterPC

TypeControl ==
  /\ pc \in [Threads -> WorkerPC \cup MainPC]
  /\ pc[Main] \in MainPC
  /\ \A w \in Workers : pc[w] \in WorkerPC
  /\ out \in [Threads -> Seq(Record)]
  /\ \A t \in Threads : Len(out[t]) = IF InSend(t) THEN 1 ELSE 0
  /\ sent \in [Threads -> Nat]

TypeThreads ==
  /\ TypeControl
  /\ discarded \subseteq Record
  /\ shutdown \in BOOLEAN
  /\ holders \subseteq Holders
  /\ faults \in [Workers -> Nat]
  /\ dropped \in [Workers -> Nat]

\* What each place the writer can stand at says of what it holds.
WriterInv ==
  /\ Fifo
  /\ rxOpen <=> writer \in {"recv", "fill", "maintain"}
  /\ writer # "fill" => batch = <<>>
  /\ ~rxOpen => queue = <<>>
  /\ writer \notin {"failing", "failed"} => lost = {}
  /\ written \subseteq 1..Len(done)
  /\ PrefixDurable

\* A thread that can still send holds a Sink, and a writer that left because
\* nobody could send finds it stays so; run_with joins before it closes.
HolderInv ==
  /\ \A w \in Workers : pc[w] \notin {"idle", "exited"} => w \in holders
  /\ pc[Main] \in {"bind", "logBind", "spawn", "logStart", "serve", "logDown",
                   "dropSink"} => Main \in holders
  /\ writer \in {"closing", "exited"} => holders = {}
  /\ pc[Main] \in {"closeStore", "joinWriter", "exited"} =>
       \A w \in Workers : pc[w] \in {"idle", "exited"}

IInv == TypeWriter /\ TypeThreads /\ WriterInv /\ HolderInv /\ OnlySamplesDropped

-----------------------------------------------------------------------------
\* A record in a thread's hands is a record.
LEMMA InHand ==
  ASSUME TypeThreads, NEW t \in Threads, InSend(t)
  PROVE  Head(out[t]) \in Record
  BY DEF TypeThreads, TypeControl

\* Every step leaves the writer's half alone, or is a successful send, or is
\* the writer's.
LEMMA StepKinds ==
  ASSUME [Next]_vars
  PROVE  \/ UNCHANGED writerSide
         \/ \E t \in Threads : Accept(t)
         \/ Writer /\ UNCHANGED threadSide
<1> USE DEF writerSide, threadSide, channel, threads, history
<1>1. ASSUME NEW t \in Threads, Send(t)
      PROVE  UNCHANGED writerSide \/ Accept(t)
  BY <1>1 DEF Send, Drop, Disconnected, Refuse
<1>2. ASSUME NEW w \in Workers, Collector(w), ~Send(w)
      PROVE  UNCHANGED writerSide
  BY <1>2 DEF Collector, Prologue, Loop, Produce, Mention, Pause, Wake, Fault, BackoffEnds
<1>3. ASSUME MainThread, ~Send(Main)
      PROVE  UNCHANGED writerSide
  BY <1>3 DEF MainThread, Bind, SpawnFails, Started, StopServing, Unwind, DropSink,
     DropSupervisor, JoinWorkers, CloseStore, JoinWriter, SpawnWorker
<1>4. ASSUME Writer
      PROVE  UNCHANGED threadSide
  BY <1>4 DEF Writer, Recv, Fill, Flush, FlushFails, Maintain, Closed, PublishStop
<1>5. ASSUME RequestShutdown \/ Ended \/ UNCHANGED vars
      PROVE  UNCHANGED writerSide
  BY <1>5 DEF RequestShutdown, Ended, vars
<1> QED
  BY <1>1, <1>2, <1>3, <1>4, <1>5 DEF Next, Threads

\* A failing commit gives up what is in hand and what is queued.
LEMMA WriterInit == Init => TypeWriter /\ WriterInv
  BY PipelineAssumption DEF Init, TypeWriter, WriterInv, Fifo, PrefixDurable, WriterPC

\* The head of a queue goes to the end of a batch and nothing else moves.
LEMMA MoveHead ==
  ASSUME NEW S, NEW d \in Seq(S), NEW b \in Seq(S), NEW q \in Seq(S), q # <<>>
  PROVE  d \o b \o q = d \o (b \o <<Head(q)>>) \o Tail(q)
<1> DEFINE h == Head(q)
           t == Tail(q)
<1>1. /\ t \in Seq(S)
      /\ <<h>> \in Seq(S)
      /\ q = <<h>> \o t
  BY HeadTailProperties
<1> HIDE DEF h, t
<1>2. b \o <<h>> \in Seq(S)
  BY <1>1, ConcatProperties
<1>3. (d \o b) \o q = d \o (b \o q)
  BY ConcatAssociative
<1>4. b \o (<<h>> \o t) = (b \o <<h>>) \o t
  BY <1>1, ConcatAssociative, SMTT(40)
<1>5. d \o ((b \o <<h>>) \o t) = (d \o (b \o <<h>>)) \o t
  BY <1>1, <1>2, ConcatAssociative, SMTT(40)
<1>6. d \o b \o q = d \o (b \o <<h>>) \o t
  BY <1>1, <1>3, <1>4, <1>5
<1> QED
  BY <1>6 DEF h, t

LEMMA WriterStep ==
  ASSUME TypeWriter, TypeThreads, WriterInv, [Next]_vars
  PROVE  TypeWriter' /\ WriterInv'
<1>1. CASE UNCHANGED writerSide
  BY <1>1 DEF writerSide, TypeWriter, WriterInv, Fifo, PrefixDurable
<1>2. ASSUME NEW t \in Threads, Accept(t)
      PROVE  TypeWriter' /\ WriterInv'
  <2> DEFINE r == Head(out[t])
  <2>1. r \in Record
    BY <1>2, InHand DEF Accept
  <2> HIDE DEF r
  <2>2. /\ queue' = Append(queue, r)
        /\ accepted' = Append(accepted, r)
        /\ rxOpen
        /\ Len(queue) < Capacity
        /\ UNCHANGED <<rxOpen, writer, batch, health, done, written, lost>>
    BY <1>2 DEF Accept, r
  <2>3. /\ queue' \in Seq(Record)
        /\ Len(queue') = Len(queue) + 1
        /\ accepted' \in Seq(Record)
    BY <2>1, <2>2, AppendProperties DEF TypeWriter
  <2>4. Fifo'
    <3>1. /\ done \o batch \in Seq(Record)
          /\ queue \in Seq(Record)
          /\ <<r>> \in Seq(Record)
      BY <2>1, ConcatProperties DEF TypeWriter
    <3>2. queue' = queue \o <<r>> /\ accepted' = accepted \o <<r>>
      BY <2>1, <2>2, AppendIsConcat DEF TypeWriter
    <3>3. ((done \o batch) \o queue) \o <<r>> = (done \o batch) \o (queue \o <<r>>)
      BY <3>1, ConcatAssociative, SMTT(40)
    <3> QED
      BY <2>2, <3>2, <3>3 DEF Fifo, WriterInv
  <2>5. Len(queue') <= Capacity
    BY <2>2, <2>3, PipelineAssumption DEF TypeWriter
  <2> QED
    BY <2>2, <2>3, <2>4, <2>5 DEF TypeWriter, WriterInv, PrefixDurable
<1>3. CASE Recv
  <2>1. /\ batch = <<>>
        /\ batch' = <<Head(queue)>>
        /\ batch' = Append(batch, Head(queue))
        /\ queue' = Tail(queue)
        /\ queue # <<>>
        /\ writer = "recv" /\ writer' = "fill"
        /\ UNCHANGED <<rxOpen, health, accepted, done, written, lost>>
    BY <1>3 DEF Recv, WriterInv, history
  <2>2. /\ queue' \in Seq(Record) /\ Len(queue') = Len(queue) - 1
        /\ batch' \in Seq(Record) /\ Len(batch') = 1
        /\ Fifo'
    BY <2>1, MoveHead DEF TypeWriter, WriterInv, Fifo
  <2>3. Len(queue') <= Capacity /\ Len(batch') <= MaxBatch
    BY <2>2, PipelineAssumption DEF TypeWriter
  <2> QED
    BY <2>1, <2>2, <2>3 DEF TypeWriter, WriterInv, WriterPC, PrefixDurable
<1>4. CASE Fill
  <2>1. /\ batch' = Append(batch, Head(queue))
        /\ queue' = Tail(queue)
        /\ queue # <<>>
        /\ Len(batch) < MaxBatch
        /\ writer = "fill"
        /\ UNCHANGED <<rxOpen, writer, health, accepted, done, written, lost>>
    BY <1>4 DEF Fill, history
  <2>2. /\ queue' \in Seq(Record) /\ Len(queue') = Len(queue) - 1
        /\ batch' \in Seq(Record) /\ Len(batch') = Len(batch) + 1
        /\ batch' = batch \o <<Head(queue)>>
    BY <2>1, HeadTailProperties, AppendProperties, AppendIsConcat DEF TypeWriter
  <2>3. Fifo'
    <3>1. done \o batch \o queue = done \o (batch \o <<Head(queue)>>) \o Tail(queue)
      BY <2>1, MoveHead, SMTT(40) DEF TypeWriter
    <3> QED
      BY <2>1, <2>2, <3>1 DEF Fifo, WriterInv
  <2>4. Len(queue') <= Capacity /\ Len(batch') <= MaxBatch
    BY <2>1, <2>2, PipelineAssumption DEF TypeWriter
  <2> QED
    BY <2>1, <2>2, <2>3, <2>4 DEF TypeWriter, WriterInv, PrefixDurable
<1>5. CASE Flush
  <2>1. PICK kept \in SUBSET Rows : written' = written \cup {Len(done) + i : i \in kept}
    BY <1>5 DEF Flush
  <2>2. /\ done' = done \o batch
        /\ batch' = <<>>
        /\ writer = "fill" /\ writer' \in {"recv", "maintain"}
        /\ UNCHANGED <<queue, rxOpen, health, accepted, lost>>
    BY <1>5 DEF Flush, BatchReady, channel
  <2>3. /\ done' \in Seq(Record)
        /\ Len(done') = Len(done) + Len(batch)
        /\ done' \o batch' = done'
    BY <2>2, ConcatProperties, ConcatEmptySeq DEF TypeWriter
  <2>4. \A i \in kept : i \in 1..Len(batch)
    BY <2>1 DEF Rows, TypeWriter
  <2>5. written' \subseteq 1..Len(done')
    <3>1. ASSUME NEW k \in kept
          PROVE  Len(done) + k \in 1..Len(done')
      BY <2>3, <2>4 DEF TypeWriter
    <3>2. written \subseteq 1..Len(done')
      BY <2>3 DEF TypeWriter, WriterInv
    <3> QED
      BY <2>1, <3>1, <3>2
  <2>6. Fifo'
    BY <2>2, <2>3 DEF Fifo, WriterInv
  <2>7. lost = {} /\ lost' = {}
    BY <2>2 DEF WriterInv
  <2>8. TypeWriter'
    BY <2>2, <2>3, <2>5, PipelineAssumption DEF TypeWriter, WriterPC
  <2> QED
    BY <2>2, <2>5, <2>6, <2>7, <2>8 DEF WriterInv, PrefixDurable
<1>6. CASE FlushFails
  <2>1. /\ done' = (done \o batch) \o queue
        /\ lost' = Len(done) + 1 .. Len(done) + Len(batch) + Len(queue)
        /\ batch' = <<>>
        /\ queue' = <<>>
        /\ rxOpen' = FALSE
        /\ writer' = "failing"
        /\ UNCHANGED <<health, accepted, written>>
    BY <1>6 DEF FlushFails
  <2>2. /\ done \o batch \in Seq(Record)
        /\ Len(done \o batch) = Len(done) + Len(batch)
    BY ConcatProperties DEF TypeWriter
  <2>3. /\ done' \in Seq(Record)
        /\ Len(done') = Len(done) + Len(batch) + Len(queue)
        /\ done' \o batch' \o queue' = done'
    BY <2>1, <2>2, ConcatProperties, ConcatEmptySeq DEF TypeWriter
  <2>4. lost' \subseteq Nat \ {0}
    BY <2>1 DEF TypeWriter
  <2>5. \A i \in lost', j \in written' : j < i
    BY <2>1 DEF TypeWriter, WriterInv
  <2>6. written' \subseteq 1..Len(done')
    BY <2>1, <2>3 DEF TypeWriter, WriterInv
  <2>7. TypeWriter'
    <3>1. /\ queue' \in Seq(Record) /\ Len(queue') <= Capacity
          /\ batch' \in Seq(Record) /\ Len(batch') <= MaxBatch
      BY <2>1, PipelineAssumption
    <3> QED
      BY <2>1, <2>3, <2>4, <3>1 DEF TypeWriter, WriterPC
  <2>8. Fifo'
    BY <2>1, <2>3 DEF Fifo, WriterInv
  <2> QED
    BY <2>1, <2>5, <2>6, <2>7, <2>8 DEF WriterInv, PrefixDurable
<1>7. CASE Maintain
  BY <1>7 DEF Maintain, channel, threads, history, TypeWriter, WriterInv, WriterPC,
     Fifo, PrefixDurable
<1>8. CASE Closed
  BY <1>8 DEF Closed, threads, history, TypeWriter, WriterInv, WriterPC, Fifo,
     PrefixDurable
<1>9. CASE PublishStop
  BY <1>9 DEF PublishStop, channel, threads, history, TypeWriter, WriterInv, WriterPC,
     Fifo, PrefixDurable
<1> QED
  BY <1>1, <1>2, <1>3, <1>4, <1>5, <1>6, <1>7, <1>8, <1>9, StepKinds DEF Writer

-----------------------------------------------------------------------------
\* The places a thread may stand at.
PcOf(t) == IF t = Main THEN MainPC ELSE WorkerPC

\* The three ways a thread moves: into a send, out of one, and past none.
LEMMA SubmitKeeps ==
  ASSUME TypeControl, NEW t \in Threads, NEW kind \in Kinds, NEW at \in Sending,
         at \in PcOf(t), Submit(t, kind, at)
  PROVE  TypeControl'
<1>1. <<[src |-> t, kind |-> kind, n |-> sent[t]]>> \in Seq(Record)
  BY DEF Record, TypeControl
<1> QED
  BY <1>1, PipelineAssumption
  DEF TypeControl, Submit, InSend, PcOf, Threads

LEMMA LeaveKeeps ==
  ASSUME TypeControl, NEW t \in Threads, NEW to \in PcOf(t) \ Sending,
         Leave(t, to), UNCHANGED sent
  PROVE  TypeControl'
<1>1. <<>> \in Seq(Record) /\ Len(<<>>) = 0
  OBVIOUS
<1> QED
  BY <1>1, PipelineAssumption DEF TypeControl, Leave, InSend, PcOf, Threads

LEMMA MoveKeeps ==
  ASSUME TypeControl, NEW t \in Threads, NEW to \in PcOf(t) \ Sending,
         ~InSend(t), pc' = [pc EXCEPT ![t] = to], UNCHANGED <<out, sent>>
  PROVE  TypeControl'
  BY PipelineAssumption DEF TypeControl, InSend, PcOf, Threads

LEMMA AfterSendType ==
  ASSUME TypeControl, NEW t \in Threads, InSend(t)
  PROVE  AfterSend(t) \in PcOf(t) \ Sending
<1>1. CASE t = Main
  BY <1>1 DEF TypeControl, InSend, Sending, MainPC, PcOf, AfterSend
<1>2. CASE t \in Workers
  BY <1>2, PipelineAssumption
  DEF TypeControl, InSend, Sending, WorkerPC, PcOf, AfterSend
<1> QED
  BY <1>1, <1>2 DEF Threads

LEMMA ThreadsInit == Init => TypeThreads /\ HolderInv /\ OnlySamplesDropped
<1> SUFFICES ASSUME Init
             PROVE  TypeThreads /\ HolderInv /\ OnlySamplesDropped
  OBVIOUS
<1> USE PipelineAssumption DEF Init, Threads
<1>1. /\ pc \in [Threads -> WorkerPC \cup MainPC]
      /\ pc[Main] = "bind"
      /\ \A w \in Workers : pc[w] = "idle"
  BY DEF WorkerPC, MainPC
<1>2. /\ out \in [Threads -> Seq(Record)]
      /\ \A t \in Threads : out[t] = <<>> /\ ~InSend(t)
  BY DEF InSend, Sending
<1>3. TypeControl
  BY <1>1, <1>2 DEF TypeControl, WorkerPC, MainPC
<1> QED
  BY <1>1, <1>3 DEF TypeThreads, HolderInv, OnlySamplesDropped, Holders

LEMMA ControlStep ==
  ASSUME TypeControl, [Next]_vars
  PROVE  TypeControl'
<1> USE PipelineAssumption DEF PcOf, Kinds
<1>1. ASSUME NEW t \in Threads, Send(t)
      PROVE  TypeControl'
  <2>1. CASE Accept(t)
    BY <2>1, AfterSendType, LeaveKeeps DEF Accept
  <2>2. CASE Refuse(t) /\ InSend(t)
    <3>1. CASE Leave(t, AfterSend(t))
      BY <2>2, <3>1, AfterSendType, LeaveKeeps DEF Refuse
    <3>2. CASE Leave(t, "refused") /\ pc[t] = "send"
      <4>1. t # Main
        BY <3>2 DEF TypeControl, MainPC
      <4> QED
        BY <2>2, <3>2, <4>1, LeaveKeeps DEF Refuse, WorkerPC, Sending
    <3> QED
      BY <2>2, <3>1, <3>2 DEF Refuse
  <2> QED
    BY <1>1, <2>1, <2>2 DEF Send, Drop, Disconnected
<1>2. ASSUME NEW w \in Workers, Collector(w), ~Send(w)
      PROVE  TypeControl'
  <2> USE DEF WorkerPC, Sending, InSend
  <2>0. w \in Threads /\ w # Main
    BY DEF Threads
  <2>1. CASE Prologue(w)
    BY <2>0, <2>1, SubmitKeeps, MoveKeeps DEF Prologue
  <2>2. CASE Loop(w)
    BY <2>0, <2>2, MoveKeeps DEF Loop, Exit
  <2>3. CASE Produce(w)
    <3>1. \A kind \in Emits[w] : kind \in Kinds
      OBVIOUS
    <3> QED
      BY <2>0, <2>3, <3>1, SubmitKeeps DEF Produce
  <2>4. CASE Mention(w)
    BY <2>0, <2>4, SubmitKeeps, MoveKeeps DEF Mention
  <2>5. CASE Pause(w)
    BY <2>0, <2>5, MoveKeeps DEF Pause
  <2>6. CASE Wake(w)
    BY <2>0, <2>6, MoveKeeps DEF Wake, Exit
  <2>7. CASE Fault(w)
    BY <2>0, <2>7, SubmitKeeps, MoveKeeps DEF Fault, Exit
  <2>8. CASE BackoffEnds(w)
    BY <2>0, <2>8, MoveKeeps DEF BackoffEnds
  <2> QED
    BY <1>2, <2>1, <2>2, <2>3, <2>4, <2>5, <2>6, <2>7, <2>8 DEF Collector
<1>3. ASSUME MainThread, ~Send(Main)
      PROVE  TypeControl'
  <2> USE DEF MainPC, Sending, InSend
  <2>0. Main \in Threads
    BY DEF Threads
  <2>1. CASE Bind
    BY <2>0, <2>1, SubmitKeeps, MoveKeeps DEF Bind
  <2>2. CASE Started \/ StopServing
    BY <2>0, <2>2, SubmitKeeps DEF Started, StopServing
  <2>3. CASE SpawnFails \/ Unwind \/ DropSink \/ DropSupervisor
    BY <2>0, <2>3, MoveKeeps DEF SpawnFails, Unwind, DropSink, DropSupervisor
  <2>4. CASE JoinWorkers \/ CloseStore \/ JoinWriter
    BY <2>0, <2>4, MoveKeeps DEF JoinWorkers, CloseStore, JoinWriter
  <2>5. ASSUME NEW w \in Workers, SpawnWorker(w)
        PROVE  TypeControl'
    <3>1. w \in Threads /\ w # Main
      BY DEF Threads
    <3> QED
      BY <2>5, <3>1, MoveKeeps DEF SpawnWorker, WorkerPC
  <2> QED
    BY <1>3, <2>1, <2>2, <2>3, <2>4, <2>5 DEF MainThread
<1>4. CASE UNCHANGED <<pc, out, sent>>
  BY <1>4 DEF TypeControl, InSend
<1>5. RequestShutdown \/ Writer \/ Ended \/ UNCHANGED vars => UNCHANGED <<pc, out, sent>>
  BY DEF RequestShutdown, Writer, Ended, vars, Recv, Fill, Flush, FlushFails, Maintain,
     Closed, PublishStop, channel, threads, history
<1> QED
  BY <1>1, <1>2, <1>3, <1>4, <1>5 DEF Next, Threads

LEMMA TypeStep ==
  ASSUME TypeThreads, [Next]_vars
  PROVE  TypeThreads'
<1>1. TypeControl'
  BY ControlStep DEF TypeThreads
<1>2. ASSUME NEW t \in Threads, Send(t)
      PROVE  TypeThreads'
  <2>1. CASE Accept(t)
    BY <1>1, <2>1 DEF Accept, TypeThreads
  <2>2. CASE Refuse(t) /\ InSend(t)
    <3>1. Head(out[t]) \in Record
      BY <2>2, InHand
    <3>2. dropped' \in [Workers -> Nat]
      BY <2>2 DEF Refuse, TypeThreads
    <3> QED
      BY <1>1, <2>2, <3>1, <3>2 DEF Refuse, TypeThreads
  <2> QED
    BY <1>2, <2>1, <2>2 DEF Send, Drop, Disconnected
<1>3. ASSUME NEW w \in Workers, Collector(w), ~Send(w)
      PROVE  TypeThreads'
  BY <1>1, <1>3
  DEF TypeThreads, Collector, Prologue, Loop, Produce, Mention, Pause, Wake, Fault,
      BackoffEnds, Exit, channel, history
<1>4. ASSUME MainThread, ~Send(Main)
      PROVE  TypeThreads'
  BY <1>1, <1>4
  DEF TypeThreads, MainThread, Bind, SpawnFails, Started, StopServing, Unwind, DropSink,
      DropSupervisor, JoinWorkers, CloseStore, JoinWriter, SpawnWorker, Holders, Threads,
      channel, history
<1>5. CASE RequestShutdown
  BY <1>1, <1>5 DEF RequestShutdown, TypeThreads, channel, history
<1>6. CASE Writer \/ Ended \/ UNCHANGED vars
  <2>1. UNCHANGED <<discarded, shutdown, holders, faults, dropped>>
    BY <1>6 DEF Writer, Ended, vars, Recv, Fill, Flush, FlushFails, Maintain, Closed,
       PublishStop, channel, threads, history
  <2> QED
    BY <1>1, <2>1 DEF TypeThreads
<1> QED
  BY <1>2, <1>3, <1>4, <1>5, <1>6 DEF Next, Threads

\* A thread inside a send keeps the writer from finding the channel closed.
LEMMA SenderHolds ==
  ASSUME TypeThreads, HolderInv, NEW t \in Threads, InSend(t)
  PROVE  t \in holders /\ writer \notin {"closing", "exited"}
<1>1. CASE t = Main
  BY <1>1 DEF TypeThreads, TypeControl, HolderInv, InSend, Sending, MainPC
<1>2. CASE t \in Workers
  BY <1>2 DEF HolderInv, InSend, Sending
<1> QED
  BY <1>1, <1>2 DEF Threads

LEMMA DroppedStep ==
  ASSUME TypeThreads, WriterInv, TypeWriter, HolderInv, OnlySamplesDropped, [Next]_vars
  PROVE  OnlySamplesDropped'
<1>1. ASSUME NEW t \in Threads, Drop(t)
      PROVE  OnlySamplesDropped'
  BY <1>1 DEF Drop, Refuse, IsDroppable, OnlySamplesDropped
<1>2. ASSUME NEW t \in Threads, Disconnected(t)
      PROVE  OnlySamplesDropped'
  <2>1. writer \in {"failing", "failed"}
    BY <1>2, SenderHolds DEF Disconnected, WriterInv, TypeWriter, WriterPC
  <2> QED
    BY <1>2, <2>1 DEF Disconnected, Refuse, OnlySamplesDropped
<1>3. CASE UNCHANGED discarded /\ (writer \in {"failing", "failed"} =>
                                  writer' \in {"failing", "failed"})
  BY <1>3 DEF OnlySamplesDropped
<1>4. CASE Writer
  BY <1>3, <1>4 DEF Writer, Recv, Fill, Flush, FlushFails, Maintain, Closed, PublishStop,
     BatchReady, history
<1>5. ASSUME NEW t \in Threads, Accept(t)
      PROVE  OnlySamplesDropped'
  BY <1>3, <1>5 DEF Accept
<1>6. ASSUME NEW w \in Workers, Collector(w), ~Send(w)
      PROVE  OnlySamplesDropped'
  BY <1>3, <1>6 DEF Collector, Prologue, Loop, Produce, Mention, Pause, Wake, Fault,
     BackoffEnds, history
<1>7. ASSUME MainThread, ~Send(Main)
      PROVE  OnlySamplesDropped'
  BY <1>3, <1>7 DEF MainThread, Bind, SpawnFails, Started, StopServing, Unwind, DropSink,
     DropSupervisor, JoinWorkers, CloseStore, JoinWriter, SpawnWorker, history
<1>8. CASE RequestShutdown \/ Ended \/ UNCHANGED vars
  BY <1>3, <1>8 DEF RequestShutdown, Ended, vars, history
<1> QED
  BY <1>1, <1>2, <1>4, <1>5, <1>6, <1>7, <1>8 DEF Next, Send, Threads

LEMMA HolderStep ==
  ASSUME TypeThreads, HolderInv, [Next]_vars
  PROVE  HolderInv'
<1> USE PipelineAssumption DEF HolderInv
<1>0. /\ Main \in Threads
      /\ \A w \in Workers : w \in Threads /\ w # Main /\ w \notin {"store", "supervisor"}
      /\ pc \in [Threads -> WorkerPC \cup MainPC]
  BY DEF Threads, TypeThreads, TypeControl
<1>1. ASSUME NEW w \in Workers, Send(w)
      PROVE  HolderInv'
  <2>1. /\ pc' = [pc EXCEPT ![w] = pc'[w]]
        /\ pc[w] \notin {"idle", "exited"}
        /\ UNCHANGED <<holders, writer>>
    BY <1>0, <1>1
    DEF Send, Accept, Drop, Disconnected, Refuse, Leave, InSend, Sending
  <2> QED
    BY <1>0, <2>1
<1>2. ASSUME Send(Main)
      PROVE  HolderInv'
  <2>1. /\ pc[Main] \in {"logBind", "logStart", "logDown"}
        /\ pc' = [pc EXCEPT ![Main] = AfterSend(Main)]
        /\ UNCHANGED <<holders, writer>>
    BY <1>0, <1>2
    DEF Send, Accept, Drop, Disconnected, Refuse, Leave, InSend, Sending, TypeThreads,
        TypeControl, MainPC
  <2>2. AfterSend(Main) \in {"unwind", "serve", "dropSink"}
    BY <2>1 DEF AfterSend
  <2> QED
    BY <1>0, <2>1, <2>2
<1>3. ASSUME NEW w \in Workers, Collector(w), ~Send(w)
      PROVE  HolderInv'
  <2>1. /\ pc[w] \notin {"idle", "exited"}
        /\ UNCHANGED writer
    BY <1>3 DEF Collector, Prologue, Loop, Produce, Mention, Pause, Wake, Fault, BackoffEnds
  <2>2. CASE Exit(w)
    BY <1>0, <2>1, <2>2 DEF Exit
  <2>3. CASE UNCHANGED holders /\ pc' = [pc EXCEPT ![w] = pc'[w]]
    BY <1>0, <2>1, <2>3
  <2>4. Exit(w) \/ (UNCHANGED holders /\ pc' = [pc EXCEPT ![w] = pc'[w]])
    BY <1>0, <1>3 DEF Collector, Prologue, Loop, Produce, Mention, Pause, Wake, Fault,
       BackoffEnds, Submit, channel
  <2> QED
    BY <2>2, <2>3, <2>4
<1>4. CASE Bind
  BY <1>0, <1>4 DEF Bind, Submit
<1>5. ASSUME NEW w \in Workers, SpawnWorker(w)
      PROVE  HolderInv'
  BY <1>0, <1>5 DEF SpawnWorker
<1>6. CASE SpawnFails \/ Unwind \/ DropSupervisor
  BY <1>0, <1>6 DEF SpawnFails, Unwind, DropSupervisor, channel
<1>7. CASE Started \/ StopServing
  BY <1>0, <1>7 DEF Started, StopServing, Submit, channel
<1>8. CASE DropSink
  BY <1>0, <1>8 DEF DropSink
<1>9. CASE JoinWorkers
  BY <1>0, <1>9 DEF JoinWorkers
<1>10. CASE CloseStore \/ JoinWriter
  BY <1>0, <1>10 DEF CloseStore, JoinWriter, channel
<1>11. CASE RequestShutdown \/ Ended \/ UNCHANGED vars
  BY <1>11 DEF RequestShutdown, Ended, vars, channel
<1>12. CASE Writer
  <2>1. UNCHANGED <<pc, holders>>
    BY <1>12 DEF Writer, Recv, Fill, Flush, FlushFails, Maintain, Closed, PublishStop,
       channel, threads
  <2>2. writer' \in {"closing", "exited"} =>
          writer \in {"closing", "exited"} \/ holders = {}
    BY <1>12 DEF Writer, Recv, Fill, Flush, FlushFails, Maintain, Closed, PublishStop
  <2> QED
    BY <2>1, <2>2
<1> QED
  BY <1>1, <1>2, <1>3, <1>4, <1>5, <1>6, <1>7, <1>8, <1>9, <1>10, <1>11, <1>12
  DEF Next, MainThread

-----------------------------------------------------------------------------
\* The inductive invariant, for every set of collectors and every capacity.
THEOREM Inductive == Spec => []IInv
<1>1. Init => IInv
  BY WriterInit, ThreadsInit DEF IInv
<1>2. IInv /\ [Next]_vars => IInv'
  BY WriterStep, TypeStep, HolderStep, DroppedStep DEF IInv
<1> QED
  BY <1>1, <1>2, PTL DEF Spec

\* Every variable of the write path stays in its type, and neither the channel
\* nor a batch ever exceeds its limit.
THEOREM TypeCorrect == Spec => []TypeOK
<1>1. IInv => TypeOK
  BY DEF IInv, TypeWriter, TypeThreads, TypeControl, TypeOK
<1> QED
  BY <1>1, Inductive, PTL

\* Records are finished in the order they were accepted, none twice, none missed.
THEOREM FifoOrder == Spec => []Fifo
<1>1. IInv => Fifo
  BY DEF IInv, WriterInv
<1> QED
  BY <1>1, Inductive, PTL

\* A kill or a failing database never leaves a hole before a committed record.
THEOREM Durability == Spec => []PrefixDurable
<1>1. IInv => PrefixDurable
  BY DEF IInv, WriterInv
<1> QED
  BY <1>1, Inductive, PTL

\* Nothing but a sample is refused while the writer is draining.
THEOREM OnlySamples == Spec => []OnlySamplesDropped
<1>1. IInv => OnlySamplesDropped
  BY DEF IInv
<1> QED
  BY <1>1, Inductive, PTL

\* Whichever way run_with is left, an intact writer has seen everything.
THEOREM StopsClean == Spec => []CleanStop
<1>1. IInv => CleanStop
  <2> SUFFICES ASSUME IInv, pc[Main] = "exited", writer = "exited"
               PROVE  /\ done = accepted
                      /\ lost = {}
                      /\ \A w \in Workers : pc[w] \in {"idle", "exited"}
    BY DEF CleanStop
  <2>1. queue = <<>> /\ batch = <<>> /\ lost = {}
    BY DEF IInv, WriterInv, TypeWriter
  <2>2. accepted = done
    <3>1. done \o <<>> \o <<>> = done
      BY ConcatEmptySeq DEF IInv, TypeWriter
    <3> QED
      BY <2>1, <3>1 DEF IInv, WriterInv, Fifo
  <2> QED
    BY <2>1, <2>2 DEF IInv, HolderInv
<1> QED
  BY <1>1, Inductive, PTL

-----------------------------------------------------------------------------
(* Gaps are explained.  A body may refuse ReportEvery records for each     *)
(* complaint; how many of them it has left depends on where its count of   *)
(* refusals stands in the present burst.                                   *)

\* A thread inside a send holds a record of its own, and what it holds is told
\* by the place it holds it at.
Labels ==
  \A t \in Threads : InSend(t) =>
    /\ Head(out[t]).src = t
    /\ pc[t] # "send" => Head(out[t]).kind # "sample"
    /\ pc[t] = "complain" => Head(out[t]).kind = "saturated"

\* The refusals that the burst's complaint still covers, at place p with d of
\* them counted.
Unused(p, d) ==
  IF p \in {"work", "sleep", "send", "refused"} /\ d % ReportEvery # 0
    THEN ReportEvery - (d % ReportEvery)
    ELSE 0

\* The first refusal of a burst is one ahead of its complaint.
Owed(p, d, refusals, complaints) ==
  IF p = "complain" \/ (p = "refused" /\ d % ReportEvery = 1)
    THEN d % ReportEvery = 1 /\ refusals <= ReportEvery * complaints + 1
    ELSE refusals + Unused(p, d) <= ReportEvery * complaints

Explained(w) ==
  rxOpen => Owed(pc[w], dropped[w], Cardinality(Refused(w)), Cardinality(Complaints(w)))

DropsInv ==
  /\ Labels
  /\ IsFiniteSet(discarded)
  /\ \A w \in Workers : Explained(w)

\* Of two quotients the larger is larger by a divisor at least.
LEMMA Quotients ==
  ASSUME NEW n \in Nat \ {0}, NEW p \in Int, NEW q \in Int, p < q
  PROVE  n * p + n <= n * q
<1>1. n * q = n * (q - p) + n * p
  OBVIOUS
<1>2. n * (q - p) >= n
  OBVIOUS
<1> QED
  BY <1>1, <1>2

LEMMA OneRest ==
  ASSUME NEW n \in Nat \ {0}, NEW p \in Int, NEW q \in Int,
         NEW r \in 0..(n - 1), NEW s \in 0..(n - 1), n * p + r = n * q + s
  PROVE  r = s
<1>1. CASE p < q
  BY <1>1, Quotients
<1>2. CASE q < p
  BY <1>2, Quotients
<1> QED
  BY <1>1, <1>2

\* Counting on runs through the remainders of the burst's length in turn.
LEMMA NextRest ==
  ASSUME NEW n \in Nat \ {0, 1}, NEW d \in Nat
  PROVE  /\ d % n \in 0..(n - 1)
         /\ (d + 1) % n = IF d % n = n - 1 THEN 0 ELSE (d % n) + 1
<1>1. d % n \in 0..(n - 1) /\ (d + 1) % n \in 0..(n - 1)
  OBVIOUS
<1>2. d = n * (d \div n) + (d % n) /\ d \div n \in Int
  OBVIOUS
<1>3. d + 1 = n * ((d + 1) \div n) + ((d + 1) % n) /\ ((d + 1) \div n) \in Int
  OBVIOUS
<1>4. CASE d % n = n - 1
  <2>1. n * ((d \div n) + 1) = n * (d \div n) + n
    BY <1>2
  <2>2. d + 1 = n * ((d \div n) + 1) + 0
    BY <1>2, <1>4, <2>1
  <2> DEFINE q == (d + 1) \div n
             s == (d + 1) % n
             p == (d \div n) + 1
  <2>3. /\ p \in Int /\ q \in Int /\ s \in 0..(n - 1) /\ 0 \in 0..(n - 1)
        /\ n * p + 0 = n * q + s
    BY <1>1, <1>2, <1>3, <2>2
  <2> HIDE DEF q, s, p
  <2>4. s = 0
    BY <2>3, OneRest
  <2> QED
    BY <1>4, <2>4 DEF s
<1>5. CASE d % n # n - 1
  <2>1. d + 1 = n * (d \div n) + ((d % n) + 1) /\ (d % n) + 1 \in 0..(n - 1)
    BY <1>1, <1>2, <1>5
  <2> QED
    BY <1>1, <1>2, <1>3, <1>5, <2>1, OneRest
<1> QED
  BY <1>1, <1>4, <1>5

LEMMA UnusedIs ==
  ASSUME NEW p, NEW d \in Nat
  PROVE  Unused(p, d) \in Nat
<1>1. ReportEvery \in Nat \ {0, 1}
  BY PipelineAssumption
<1>2. d % ReportEvery \in 0..(ReportEvery - 1)
  BY <1>1, NextRest
<1> DEFINE m == d % ReportEvery
<1> HIDE DEF m
<1>3. ReportEvery - m \in Nat
  BY <1>1, <1>2 DEF m
<1> QED
  BY <1>3 DEF Unused, m

\* A complaint more never unbalances the account.
LEMMA OwedLess ==
  ASSUME NEW p, NEW d \in Nat, NEW refusals \in Nat, NEW c1 \in Nat, NEW c2 \in Nat,
         c1 <= c2, Owed(p, d, refusals, c1)
  PROVE  Owed(p, d, refusals, c2)
<1>1. ReportEvery * c1 <= ReportEvery * c2
  <2>1. c1 = c2 \/ c1 < c2
    OBVIOUS
  <2>2. ReportEvery \in Nat \ {0}
    BY PipelineAssumption
  <2> QED
    BY <2>1, <2>2, Quotients
<1>2. ReportEvery * c1 \in Nat /\ ReportEvery * c2 \in Nat
  BY PipelineAssumption
<1>3. Unused(p, d) \in Nat
  BY UnusedIs
<1> DEFINE x == ReportEvery * c1
           y == ReportEvery * c2
<1> HIDE DEF x, y
<1>4. x <= y /\ x \in Nat /\ y \in Nat
  BY <1>1, <1>2 DEF x, y
<1>5. CASE p = "complain" \/ (p = "refused" /\ d % ReportEvery = 1)
  <2>1. d % ReportEvery = 1 /\ refusals <= x + 1
    BY <1>5 DEF Owed, x
  <2>2. refusals <= y + 1
    BY <1>4, <2>1
  <2> QED
    BY <1>5, <2>1, <2>2 DEF Owed, y
<1>6. CASE ~(p = "complain" \/ (p = "refused" /\ d % ReportEvery = 1))
  <2>1. refusals + Unused(p, d) <= x
    BY <1>6 DEF Owed, x
  <2>2. refusals + Unused(p, d) <= y
    BY <1>3, <1>4, <2>1
  <2> QED
    BY <1>6, <2>2 DEF Owed, y
<1> QED
  BY <1>5, <1>6

\* A refusal more, counted.
LEMMA OwedDrop ==
  ASSUME NEW d \in Nat, NEW r1 \in Nat, NEW r2 \in Nat, NEW c \in Nat, r2 <= r1 + 1,
         Owed("send", d, r1, c)
  PROVE  Owed("refused", d + 1, r2, c)
<1> DEFINE x == ReportEvery * c
           m == d % ReportEvery
           k == (d + 1) % ReportEvery
           n == ReportEvery
<1>1. /\ m \in 0..(n - 1)
      /\ k = IF m = n - 1 THEN 0 ELSE m + 1
      /\ x \in Nat /\ n \in Nat /\ n > 1
  <2>1. n \in Nat \ {0, 1}
    BY PipelineAssumption
  <2>2. x \in Nat /\ n > 1
    BY <2>1
  <2> QED
    BY <2>1, <2>2, NextRest
<1>2. IF m # 0 THEN r1 + (n - m) <= x ELSE r1 + 0 <= x
  BY DEF Owed, Unused
<1>3. IF k = 1 THEN r2 <= x + 1 ELSE (IF k # 0 THEN r2 + (n - k) <= x ELSE r2 + 0 <= x)
  <2> HIDE DEF x, m, k, n
  <2> QED
    BY <1>1, <1>2
<1> QED
  BY <1>3 DEF Owed, Unused

\* The complaint itself.
LEMMA OwedMention ==
  ASSUME NEW d \in Nat, NEW refusals \in Nat, NEW c \in Nat,
         Owed("complain", d, refusals, c)
  PROVE  Owed("work", d, refusals, c + 1)
<1>1. ReportEvery * (c + 1) = ReportEvery * c + ReportEvery
  BY PipelineAssumption
<1>2. d % ReportEvery = 1 /\ refusals <= ReportEvery * c + 1
  BY DEF Owed
<1>3. ReportEvery * c \in Nat /\ ReportEvery \in Nat
  BY PipelineAssumption
<1> DEFINE x == ReportEvery * c
<1> HIDE DEF x
<1>4. refusals + (ReportEvery - 1) <= x + ReportEvery
  BY <1>2, <1>3 DEF x
<1>5. refusals + (ReportEvery - 1) <= ReportEvery * (c + 1)
  BY <1>1, <1>4 DEF x
<1> QED
  BY <1>2, <1>5 DEF Owed, Unused

\* A place is left for one where the same, or nothing, is still to come.
Counting == {"work", "sleep", "send"}

LEMMA OwedMove ==
  ASSUME NEW p, NEW q, NEW d \in Nat, NEW refusals \in Nat, NEW c \in Nat,
         Owed(p, d, refusals, c), p # "complain",
         \/ p = "refused" /\ d % ReportEvery = 1 /\ q = "complain"
         \/ p = "refused" /\ d % ReportEvery # 1 /\ q = "work"
         \/ p \in Counting /\ q \in Counting
         \/ p # "refused" /\ q \notin Counting \cup {"refused", "complain"}
  PROVE  Owed(q, d, refusals, c)
<1>1. CASE q = "complain"
  BY <1>1 DEF Owed, Counting
<1>2. CASE q \in Counting
  <2>1. Unused(q, d) = Unused(p, d)
    BY <1>2 DEF Unused, Counting
  <2> QED
    BY <1>2, <2>1 DEF Owed, Counting
<1>3. CASE p # "refused" /\ q \notin Counting \cup {"refused", "complain"}
  <2>1. Unused(q, d) = 0
    BY <1>3 DEF Unused, Counting
  <2>2. Unused(p, d) \in Nat
    BY UnusedIs
  <2>3. refusals + Unused(p, d) <= ReportEvery * c
    BY <1>3 DEF Owed
  <2>4. ReportEvery * c \in Nat
    BY PipelineAssumption
  <2> DEFINE x == ReportEvery * c
  <2> HIDE DEF x
  <2>5. refusals + 0 <= x
    BY <2>2, <2>3, <2>4 DEF x
  <2> QED
    BY <1>3, <2>1, <2>5 DEF Owed, x
<1> QED
  BY <1>1, <1>2, <1>3 DEF Counting

\* A body that starts has counted nothing.
LEMMA OwedStart ==
  ASSUME NEW d \in Nat, NEW refusals \in Nat, NEW c \in Nat, Owed("loop", d, refusals, c)
  PROVE  Owed("work", 0, refusals, c)
<1>1. 0 % ReportEvery = 0
  BY PipelineAssumption
<1> QED
  BY <1>1 DEF Owed, Unused

\* Every thread but t stays, and if t is inside a send, it has just entered it.
Enters(t, kinds) ==
  /\ pc' = [pc EXCEPT ![t] = pc'[t]]
  /\ \A u \in Threads \ {t} : out'[u] = out[u]
  /\ \/ pc'[t] \notin Sending
     \/ \E kind \in kinds : out'[t] = <<[src |-> t, kind |-> kind, n |-> sent[t]]>>
  /\ pc'[t] # "send" => "sample" \notin kinds
  /\ pc'[t] = "complain" => kinds = {"saturated"}

LEMMA LabelsKept ==
  ASSUME TypeControl, Labels, NEW t \in Threads, NEW kinds, Enters(t, kinds)
  PROVE  Labels'
<1>1. ASSUME NEW u \in Threads, u # t, InSend(u)'
      PROVE  InSend(u) /\ out'[u] = out[u] /\ pc'[u] = pc[u]
  BY <1>1 DEF Enters, InSend, TypeControl
<1>2. ASSUME InSend(t)'
      PROVE  /\ Head(out'[t]).src = t
             /\ pc'[t] # "send" => Head(out'[t]).kind # "sample"
             /\ pc'[t] = "complain" => Head(out'[t]).kind = "saturated"
  <2>1. PICK kind \in kinds : out'[t] = <<[src |-> t, kind |-> kind, n |-> sent[t]]>>
    BY <1>2 DEF Enters, InSend
  <2>2. Head(out'[t]) = [src |-> t, kind |-> kind, n |-> sent[t]]
    BY <2>1
  <2>3. Head(out'[t]).src = t /\ Head(out'[t]).kind = kind
    BY <2>2
  <2> QED
    BY <2>3 DEF Enters
<1>3. ASSUME NEW u \in Threads, InSend(u)'
      PROVE  /\ Head(out'[u]).src = u
             /\ pc'[u] # "send" => Head(out'[u]).kind # "sample"
             /\ pc'[u] = "complain" => Head(out'[u]).kind = "saturated"
  BY <1>1, <1>2, <1>3 DEF Labels
<1> QED
  BY <1>3 DEF Labels

LEMMA LabelsStep ==
  ASSUME TypeThreads, Labels, [Next]_vars
  PROVE  Labels'
<1>0. TypeControl
  BY DEF TypeThreads
<1> USE PipelineAssumption
<1>1. ASSUME NEW t \in Threads, Send(t)
      PROVE  Labels'
  <2>1. \/ Leave(t, AfterSend(t))
        \/ Leave(t, "refused")
    BY <1>1 DEF Send, Accept, Drop, Disconnected, Refuse
  <2>2. AfterSend(t) \notin Sending
    BY <1>0, <1>1, AfterSendType DEF Send, Accept, Drop, Disconnected
  <2>3. Enters(t, {})
    BY <1>0, <2>1, <2>2 DEF Leave, Enters, TypeControl, Sending
  <2> QED
    BY <1>0, <2>3, LabelsKept
<1>2. ASSUME NEW w \in Workers, Collector(w), ~Send(w)
      PROVE  Labels'
  <2>0. w \in Threads
    BY DEF Threads
  <2>1. CASE Prologue(w)
    <3>1. Enters(w, {"event"})
      BY <1>0, <2>0, <2>1 DEF Prologue, Submit, Enters, TypeControl, Sending
    <3> QED
      BY <1>0, <2>0, <3>1, LabelsKept
  <2>2. CASE Loop(w) \/ Pause(w) \/ Wake(w) \/ BackoffEnds(w)
    <3>1. Enters(w, {})
      BY <1>0, <2>0, <2>2
      DEF Loop, Pause, Wake, BackoffEnds, Exit, Enters, TypeControl, Sending
    <3> QED
      BY <1>0, <2>0, <3>1, LabelsKept
  <2>3. CASE Produce(w)
    <3>1. Enters(w, Emits[w])
      BY <1>0, <2>0, <2>3 DEF Produce, Submit, Enters, TypeControl
    <3> QED
      BY <1>0, <2>0, <3>1, LabelsKept
  <2>4. CASE Mention(w)
    <3>1. Enters(w, {"saturated"})
      BY <1>0, <2>0, <2>4 DEF Mention, Submit, Enters, TypeControl, Sending
    <3> QED
      BY <1>0, <2>0, <3>1, LabelsKept
  <2>5. CASE Fault(w)
    <3>1. Enters(w, {"event"})
      BY <1>0, <2>0, <2>5 DEF Fault, Exit, Submit, Enters, TypeControl, Sending
    <3> QED
      BY <1>0, <2>0, <3>1, LabelsKept
  <2> QED
    BY <1>2, <2>1, <2>2, <2>3, <2>4, <2>5 DEF Collector
<1>3. ASSUME MainThread, ~Send(Main)
      PROVE  Labels'
  <2>0. Main \in Threads
    BY DEF Threads
  <2>1. ASSUME NEW w \in Workers, SpawnWorker(w)
        PROVE  Labels'
    <3>1. w \in Threads /\ Enters(w, {})
      BY <1>0, <2>1 DEF SpawnWorker, Enters, TypeControl, Sending, Threads
    <3> QED
      BY <1>0, <3>1, LabelsKept
  <2>2. CASE Bind \/ Started \/ StopServing
    <3>1. Enters(Main, {"event"})
      BY <1>0, <2>0, <2>2 DEF Bind, Started, StopServing, Submit, Enters, TypeControl, Sending
    <3> QED
      BY <1>0, <2>0, <3>1, LabelsKept
  <2>3. CASE SpawnFails \/ Unwind \/ DropSink \/ DropSupervisor \/ JoinWorkers
             \/ CloseStore \/ JoinWriter
    <3>1. Enters(Main, {})
      BY <1>0, <2>0, <2>3 DEF SpawnFails, Unwind, DropSink, DropSupervisor, JoinWorkers,
         CloseStore, JoinWriter, Enters, TypeControl, Sending
    <3> QED
      BY <1>0, <2>0, <3>1, LabelsKept
  <2> QED
    BY <1>3, <2>1, <2>2, <2>3 DEF MainThread
<1>4. CASE UNCHANGED <<pc, out>>
  BY <1>4 DEF Labels, InSend
<1>5. RequestShutdown \/ Writer \/ Ended \/ UNCHANGED vars => UNCHANGED <<pc, out>>
  BY DEF RequestShutdown, Writer, Ended, vars, Recv, Fill, Flush, FlushFails, Maintain,
     Closed, PublishStop, channel, threads, history
<1> QED
  BY <1>1, <1>2, <1>3, <1>4, <1>5 DEF Next, Threads

\* What a collector sent is finite, refused or accepted.
LEMMA SentFinite ==
  ASSUME TypeWriter, IsFiniteSet(discarded), NEW w \in Workers
  PROVE  /\ IsFiniteSet(Refused(w)) /\ Cardinality(Refused(w)) \in Nat
         /\ IsFiniteSet(Complaints(w)) /\ Cardinality(Complaints(w)) \in Nat
<1>1. Refused(w) \subseteq discarded
  BY DEF Refused
<1>2. Complaints(w) \subseteq 1..Len(accepted)
  BY DEF Complaints, TypeWriter
<1>3. IsFiniteSet(1..Len(accepted))
  BY FS_Interval DEF TypeWriter
<1>4. IsFiniteSet(Refused(w)) /\ IsFiniteSet(Complaints(w))
  BY <1>1, <1>2, <1>3, FS_Subset
<1> QED
  BY <1>4, FS_CardinalityType

\* A record accepted keeps the complaints there are, and adds its own.
LEMMA AcceptedComplaints ==
  ASSUME TypeWriter, IsFiniteSet(discarded), NEW w \in Workers, NEW r \in Record,
         accepted' = Append(accepted, r)
  PROVE  LET own == r.src = w /\ r.kind = "saturated" IN
         Cardinality(Complaints(w)') = Cardinality(Complaints(w)) + (IF own THEN 1 ELSE 0)
<1> DEFINE k == Len(accepted) + 1
           own == r.src = w /\ r.kind = "saturated"
<1>1. /\ Len(accepted) \in Nat /\ DOMAIN accepted = 1..Len(accepted)
      /\ DOMAIN accepted' = 1..k /\ accepted'[k] = r
      /\ \A i \in 1..Len(accepted) : accepted'[i] = accepted[i]
  BY AppendProperties DEF TypeWriter
<1>2. /\ \A i : i \in Complaints(w) <=> i \in 1..Len(accepted) /\ accepted[i].src = w
                                        /\ accepted[i].kind = "saturated"
      /\ \A i : i \in Complaints(w)' <=> i \in 1..k /\ accepted'[i].src = w
                                         /\ accepted'[i].kind = "saturated"
  BY <1>1 DEF Complaints
<1>3. k \notin Complaints(w)
  BY <1>1, <1>2
<1>4. CASE own
  <2>1. Complaints(w)' = Complaints(w) \cup {k}
    BY <1>1, <1>2, <1>4
  <2> QED
    BY <1>3, <1>4, <2>1, SentFinite, FS_AddElement
<1>5. CASE ~own
  <2>1. ASSUME NEW i
        PROVE  i \in Complaints(w)' <=> i \in Complaints(w)
    <3>1. CASE i = k
      BY <1>1, <1>2, <1>3, <1>5, <3>1
    <3>2. CASE i # k
      BY <1>1, <1>2, <3>2
    <3> QED
      BY <3>1, <3>2
  <2>2. Complaints(w)' = Complaints(w)
    BY <2>1 DEF Complaints
  <2> QED
    BY <1>5, <2>2, SentFinite
<1> QED
  BY <1>4, <1>5

\* A step that leaves a collector, what it was refused and what was accepted.
LEMMA ExplainedKept ==
  ASSUME NEW w \in Workers, Explained(w), UNCHANGED <<discarded, accepted>>,
         rxOpen' => rxOpen, pc'[w] = pc[w], dropped'[w] = dropped[w]
  PROVE  Explained(w)'
<1>1. Refused(w)' = Refused(w) /\ Complaints(w)' = Complaints(w)
  BY DEF Refused, Complaints
<1> QED
  BY <1>1 DEF Explained, Owed, Unused

\* The same if the collector itself moves, its count kept.
LEMMA ExplainedMove ==
  ASSUME TypeWriter, TypeThreads, IsFiniteSet(discarded),
         NEW w \in Workers, Explained(w), UNCHANGED <<discarded, accepted, dropped, rxOpen>>,
         pc[w] # "complain",
         \/ pc[w] = "refused" /\ dropped[w] % ReportEvery = 1 /\ pc'[w] = "complain"
         \/ pc[w] = "refused" /\ dropped[w] % ReportEvery # 1 /\ pc'[w] = "work"
         \/ pc[w] \in Counting /\ pc'[w] \in Counting
         \/ pc[w] # "refused" /\ pc'[w] \notin Counting \cup {"refused", "complain"}
  PROVE  Explained(w)'
<1>1. Refused(w)' = Refused(w) /\ Complaints(w)' = Complaints(w)
  BY DEF Refused, Complaints
<1> DEFINE R == Cardinality(Refused(w))
           C == Cardinality(Complaints(w))
           d == dropped[w]
           p == pc[w]
           q == pc'[w]
<1>2. R \in Nat /\ C \in Nat /\ d \in Nat
  BY SentFinite DEF TypeThreads
<1>3. rxOpen => Owed(p, d, R, C)
  BY DEF Explained
<1>4. rxOpen => Owed(q, d, R, C)
  <2> HIDE DEF R, C, d, p, q
  <2>1. \/ p = "refused" /\ d % ReportEvery = 1 /\ q = "complain"
        \/ p = "refused" /\ d % ReportEvery # 1 /\ q = "work"
        \/ p \in Counting /\ q \in Counting
        \/ p # "refused" /\ q \notin Counting \cup {"refused", "complain"}
    BY DEF p, q, d
  <2>2. p # "complain"
    BY DEF p
  <2> QED
    BY <1>2, <1>3, <2>1, <2>2, OwedMove
<1> QED
  BY <1>1, <1>4 DEF Explained, Owed, Unused

LEMMA ExplainedSend ==
  ASSUME TypeWriter, TypeThreads, DropsInv, NEW t \in Threads, Send(t), NEW w \in Workers
  PROVE  Explained(w)' /\ IsFiniteSet(discarded')
<1> DEFINE r == Head(out[t])
           R == Cardinality(Refused(w))
           C == Cardinality(Complaints(w))
           d == dropped[w]
<1>1. /\ r \in Record /\ r.src = t
      /\ pc[t] # "send" => r.kind # "sample"
      /\ pc[t] = "complain" => r.kind = "saturated"
  BY InHand DEF Send, Accept, Drop, Disconnected, DropsInv, Labels
<1>2. R \in Nat /\ C \in Nat /\ d \in Nat
  BY SentFinite DEF TypeThreads, DropsInv
<1>3. rxOpen => Owed(pc[w], d, R, C)
  BY DEF DropsInv, Explained
<1>4. /\ w \in Threads /\ w # Main
      /\ pc \in [Threads -> WorkerPC \cup MainPC] /\ pc[w] \in WorkerPC
  BY PipelineAssumption DEF Threads, TypeThreads, TypeControl
<1>5. CASE Accept(t)
  <2>1. /\ accepted' = Append(accepted, r) /\ rxOpen
        /\ UNCHANGED <<discarded, dropped, rxOpen>>
        /\ pc' = [pc EXCEPT ![t] = AfterSend(t)]
    BY <1>5 DEF Accept, Leave
  <2>2. Cardinality(Complaints(w)') =
          C + (IF r.src = w /\ r.kind = "saturated" THEN 1 ELSE 0)
    BY <1>1, <2>1, AcceptedComplaints DEF DropsInv
  <2>3. Refused(w)' = Refused(w)
    BY <2>1 DEF Refused
  <2> DEFINE D == Cardinality(Complaints(w)')
  <2>4. D \in Nat /\ C <= D
    BY <1>2, <2>2
  <2>5. Owed(pc'[w], d, R, D)
    <3>1. CASE t # w
      <4>1. pc'[w] = pc[w]
        BY <1>4, <2>1, <3>1
      <4> HIDE DEF D, C, R, d
      <4>2. Owed(pc[w], d, R, D)
        BY <1>2, <1>3, <2>1, <2>4, OwedLess
      <4> QED
        BY <4>1, <4>2
    <3>2. CASE t = w /\ pc[w] = "complain"
      <4>1. pc'[w] = "work" /\ D = C + 1
        BY <1>1, <1>4, <2>1, <2>2, <3>2 DEF AfterSend
      <4> HIDE DEF D, C, R, d
      <4>2. Owed("complain", d, R, C)
        BY <1>3, <2>1, <3>2
      <4>3. Owed("work", d, R, C + 1)
        BY <1>2, <4>2, OwedMention
      <4> QED
        BY <4>1, <4>3
    <3>3. CASE t = w /\ pc[w] # "complain"
      <4>1. pc[w] \in {"greet", "send", "report"}
        BY <1>4, <1>5, <3>3 DEF Accept, InSend, Sending, WorkerPC
      <4>2. pc'[w] = CASE pc[w] = "greet" -> "loop" [] pc[w] = "send" -> "work"
                       [] pc[w] = "report" -> "backoff"
        BY <1>4, <2>1, <3>3, <4>1 DEF AfterSend
      <4> DEFINE p == pc[w]
                 q == pc'[w]
      <4>3. \/ p \in Counting /\ q \in Counting
            \/ p # "refused" /\ q \notin Counting \cup {"refused", "complain"}
        BY <4>1, <4>2 DEF Counting
      <4>4. p # "complain" /\ Owed(p, d, R, C)
        BY <1>3, <2>1, <3>3
      <4> HIDE DEF D, C, R, d, p, q
      <4>5. Owed(q, d, R, C)
        BY <1>2, <4>3, <4>4, OwedMove
      <4>6. Owed(q, d, R, D)
        BY <1>2, <2>4, <4>5, OwedLess
      <4> QED
        BY <4>6 DEF q
    <3> QED
      BY <3>1, <3>2, <3>3
  <2>6. Explained(w)'
    BY <2>1, <2>3, <2>5 DEF Explained, Owed, Unused
  <2> QED
    BY <2>1, <2>6 DEF DropsInv
<1>6. CASE Refuse(t) /\ (Drop(t) \/ Disconnected(t))
  <2>1. discarded' = discarded \cup {r} /\ UNCHANGED <<rxOpen, accepted>>
    BY <1>6 DEF Refuse
  <2>2. IsFiniteSet(discarded')
    BY <2>1, FS_AddElement DEF DropsInv
  <2>3. Explained(w)'
    <3>1. CASE ~rxOpen
      BY <2>1, <3>1 DEF Explained
    <3>2. CASE rxOpen
      <4>1. r.kind = "sample" /\ pc[t] = "send"
        BY <1>1, <1>6, <3>2 DEF Drop, Disconnected, IsDroppable
      <4>2. t # Main /\ t \in Workers
        BY <4>1 DEF TypeThreads, TypeControl, MainPC, Threads
      <4>3. /\ pc' = [pc EXCEPT ![t] = "refused"]
            /\ dropped' = [dropped EXCEPT ![t] = @ + 1]
        BY <1>6, <4>1 DEF Refuse, Leave
      <4>4. Complaints(w)' = Complaints(w)
        BY <2>1 DEF Complaints
      <4>5. CASE t # w
        <5>1. Refused(w)' = Refused(w)
          BY <1>1, <2>1, <4>5 DEF Refused
        <5>2. pc'[w] = pc[w] /\ dropped'[w] = dropped[w]
          BY <1>4, <4>3, <4>5 DEF TypeThreads
        <5> QED
          BY <1>3, <3>2, <4>4, <5>1, <5>2 DEF Explained, Owed, Unused
      <4>6. CASE t = w
        <5>1. Refused(w)' = Refused(w) \cup {r}
          BY <1>1, <2>1, <4>6 DEF Refused
        <5> DEFINE Q == Cardinality(Refused(w)')
        <5>2. Q \in Nat /\ Q <= R + 1
          <6>1. IsFiniteSet(Refused(w))
            BY SentFinite DEF DropsInv
          <6>2. Q = R \/ Q = R + 1
            BY <5>1, <6>1, FS_AddElement
          <6> QED
            BY <1>2, <6>2
        <5>3. pc'[w] = "refused" /\ dropped'[w] = d + 1
          BY <1>4, <4>3, <4>6 DEF TypeThreads
        <5>4. Owed("send", d, R, C)
          BY <1>3, <3>2, <4>1, <4>6
        <5> HIDE DEF R, C, d, Q
        <5>5. Owed("refused", d + 1, Q, C)
          BY <1>2, <5>2, <5>4, OwedDrop
        <5>6. Owed(pc'[w], dropped'[w], Q, C)
          BY <5>3, <5>5
        <5> QED
          BY <4>4, <5>6 DEF Explained, Owed, Unused, Q, C
      <4> QED
        BY <4>5, <4>6
    <3> QED
      BY <3>1, <3>2
  <2> QED
    BY <2>2, <2>3
<1> QED
  BY <1>5, <1>6 DEF Send, Drop, Disconnected

LEMMA ExplainedCollector ==
  ASSUME TypeWriter, TypeThreads, DropsInv, NEW u \in Workers, Collector(u), ~Send(u),
         NEW w \in Workers
  PROVE  Explained(w)'
<1>0. /\ u \in Threads /\ w \in Threads
      /\ pc \in [Threads -> WorkerPC \cup MainPC] /\ dropped \in [Workers -> Nat]
      /\ Explained(w) /\ IsFiniteSet(discarded)
  BY DEF Threads, TypeThreads, TypeControl, DropsInv
<1>1. UNCHANGED <<discarded, accepted, rxOpen>>
  BY DEF Collector, Prologue, Loop, Produce, Mention, Pause, Wake, Fault, BackoffEnds,
     history, channel
<1>2. CASE u # w
  <2>1. pc' = [pc EXCEPT ![u] = pc'[u]]
    BY <1>0 DEF Collector, Prologue, Loop, Produce, Mention, Pause, Wake, Fault,
       BackoffEnds, Exit, Submit
  <2>2. dropped' = [dropped EXCEPT ![u] = dropped'[u]]
    BY <1>0 DEF Collector, Prologue, Loop, Produce, Mention, Pause, Wake, Fault,
       BackoffEnds, Exit
  <2> QED
    BY <1>0, <1>1, <1>2, <2>1, <2>2, ExplainedKept
<1>3. CASE u = w /\ ~Loop(w)
  <2>1. UNCHANGED dropped
    BY <1>3 DEF Collector, Prologue, Produce, Mention, Pause, Wake, Fault, BackoffEnds,
       Exit
  <2>2. /\ pc[w] # "complain"
        /\ \/ pc[w] = "refused" /\ dropped[w] % ReportEvery = 1 /\ pc'[w] = "complain"
           \/ pc[w] = "refused" /\ dropped[w] % ReportEvery # 1 /\ pc'[w] = "work"
           \/ pc[w] \in Counting /\ pc'[w] \in Counting
           \/ pc[w] # "refused" /\ pc'[w] \notin Counting \cup {"refused", "complain"}
    BY <1>0, <1>3 DEF Collector, Prologue, Produce, Mention, Pause, Wake, Fault,
       BackoffEnds, Exit, Submit, Counting
  <2> QED
    BY <1>0, <1>1, <2>1, <2>2, ExplainedMove
<1>4. CASE u = w /\ Loop(w)
  <2>1. CASE shutdown
    <3>1. UNCHANGED dropped /\ pc[w] = "loop" /\ pc'[w] = "exited"
      BY <1>0, <1>4, <2>1 DEF Loop, Exit
    <3> QED
      BY <1>0, <1>1, <3>1, ExplainedMove DEF Counting
  <2>2. CASE ~shutdown
    <3>1. pc[w] = "loop" /\ pc'[w] = "work" /\ dropped'[w] = 0
      BY <1>0, <1>4, <2>2 DEF Loop
    <3>2. Refused(w)' = Refused(w) /\ Complaints(w)' = Complaints(w)
      BY <1>1 DEF Refused, Complaints
    <3> DEFINE R == Cardinality(Refused(w))
               C == Cardinality(Complaints(w))
               d == dropped[w]
    <3>3. R \in Nat /\ C \in Nat /\ d \in Nat
      BY <1>0, SentFinite
    <3>4. rxOpen => Owed("loop", d, R, C)
      BY <1>0, <3>1 DEF Explained
    <3>5. rxOpen => Owed("work", 0, R, C)
      <4> HIDE DEF R, C, d
      <4> QED
        BY <3>3, <3>4, OwedStart
    <3> QED
      BY <1>1, <3>1, <3>2, <3>5 DEF Explained, Owed, Unused
  <2> QED
    BY <2>1, <2>2
<1> QED
  BY <1>2, <1>3, <1>4

LEMMA DropsStep ==
  ASSUME TypeWriter, TypeThreads, DropsInv, [Next]_vars
  PROVE  DropsInv'
<1>1. Labels'
  BY LabelsStep DEF DropsInv
<1>2. ASSUME NEW t \in Threads, Send(t)
      PROVE  DropsInv'
  <2>1. \A w \in Workers : Explained(w)'
    BY <1>2, ExplainedSend
  <2>2. IsFiniteSet(discarded')
    <3>1. discarded' = discarded \/ \E r : discarded' = discarded \cup {r}
      BY <1>2 DEF Send, Accept, Drop, Disconnected, Refuse
    <3> QED
      BY <3>1, FS_AddElement DEF DropsInv
  <2> QED
    BY <1>1, <2>1, <2>2 DEF DropsInv
<1>3. ASSUME NEW u \in Workers, Collector(u), ~Send(u)
      PROVE  DropsInv'
  <2>1. \A w \in Workers : Explained(w)'
    BY <1>3, ExplainedCollector
  <2>2. UNCHANGED discarded
    BY <1>3 DEF Collector, Prologue, Loop, Produce, Mention, Pause, Wake, Fault,
       BackoffEnds, history
  <2> QED
    BY <1>1, <2>1, <2>2 DEF DropsInv
<1>4. ASSUME NEW u \in Workers, SpawnWorker(u)
      PROVE  DropsInv'
  <2>0. /\ pc \in [Threads -> WorkerPC \cup MainPC] /\ u \in Threads
        /\ IsFiniteSet(discarded)
    BY DEF Threads, TypeThreads, TypeControl, DropsInv
  <2>1. UNCHANGED <<discarded, accepted, dropped, rxOpen>>
    BY <1>4 DEF SpawnWorker, history
  <2>2. ASSUME NEW w \in Workers
        PROVE  Explained(w)'
    <3>0. w \in Threads /\ Explained(w)
      BY DEF Threads, DropsInv
    <3>1. CASE w # u
      <4>1. pc'[w] = pc[w]
        BY <1>4, <2>0, <3>0, <3>1 DEF SpawnWorker
      <4> QED
        BY <2>1, <3>0, <4>1, ExplainedKept
    <3>2. CASE w = u
      <4>1. pc[w] = "idle" /\ pc'[w] = "prologue"
        BY <1>4, <2>0, <3>2 DEF SpawnWorker
      <4> QED
        BY <2>0, <2>1, <3>0, <4>1, ExplainedMove DEF Counting
    <3> QED
      BY <3>1, <3>2
  <2> QED
    BY <1>1, <2>1, <2>2 DEF DropsInv
<1>5. CASE /\ UNCHANGED <<discarded, accepted, dropped>>
           /\ rxOpen' => rxOpen
           /\ \A w \in Workers : pc'[w] = pc[w]
  BY <1>1, <1>5, ExplainedKept DEF DropsInv
<1>6. ASSUME MainThread, ~Send(Main), \A u \in Workers : ~SpawnWorker(u)
      PROVE  DropsInv'
  <2>1. pc \in [Threads -> WorkerPC \cup MainPC] /\ \A w \in Workers : w \in Threads /\ w # Main
    BY PipelineAssumption DEF Threads, TypeThreads, TypeControl
  <2>2. \A w \in Workers : pc'[w] = pc[w]
    BY <1>6, <2>1 DEF MainThread, Bind, SpawnFails, Started, StopServing, Unwind, DropSink,
       DropSupervisor, JoinWorkers, CloseStore, JoinWriter, Submit
  <2>3. UNCHANGED <<discarded, accepted, dropped, rxOpen>>
    BY <1>6 DEF MainThread, Bind, SpawnFails, Started, StopServing, Unwind, DropSink,
       DropSupervisor, JoinWorkers, CloseStore, JoinWriter, history, channel
  <2> QED
    BY <1>5, <2>2, <2>3
<1>7. CASE RequestShutdown \/ Ended \/ UNCHANGED vars
  BY <1>5, <1>7 DEF RequestShutdown, Ended, vars, history, channel
<1>8. CASE Writer
  <2>1. UNCHANGED <<discarded, accepted, dropped, pc>>
    BY <1>8 DEF Writer, Recv, Fill, Flush, FlushFails, Maintain, Closed, PublishStop,
       threads, history
  <2>2. rxOpen' => rxOpen
    BY <1>8 DEF Writer, Recv, Fill, Flush, FlushFails, Maintain, Closed, PublishStop,
       channel
  <2> QED
    BY <1>5, <2>1, <2>2
<1> QED
  BY <1>2, <1>3, <1>4, <1>6, <1>7, <1>8 DEF Next, MainThread, Threads

LEMMA DropsStart == Init => DropsInv
<1> SUFFICES ASSUME Init
             PROVE  DropsInv
  OBVIOUS
<1>1. Labels
  BY DEF Init, Labels, InSend, Sending
<1>2. discarded = {} /\ accepted = <<>>
  BY DEF Init
<1>3. IsFiniteSet(discarded)
  BY <1>2, FS_EmptySet
<1>4. ASSUME NEW w \in Workers
      PROVE  Explained(w)
  <2>1. Refused(w) = {} /\ Complaints(w) = {}
    BY <1>2 DEF Refused, Complaints
  <2>2. Cardinality({}) = 0
    BY FS_EmptySet
  <2>3. pc[w] = "idle"
    BY PipelineAssumption DEF Init, Threads
  <2>4. ReportEvery * 0 = 0
    BY PipelineAssumption
  <2> QED
    BY <2>1, <2>2, <2>3, <2>4 DEF Explained, Owed, Unused
<1> QED
  BY <1>1, <1>3, <1>4 DEF DropsInv

\* A gap in a collector's series is explicable: between passes each complaint
\* stands for at most ReportEvery refused records.
THEOREM GapsExplained == Spec => []DropsExplained
<1>1. IInv /\ DropsInv => DropsExplained
  <2> SUFFICES ASSUME TypeWriter, TypeThreads, DropsInv, NEW w \in Workers, rxOpen, pc[w] \in {"work", "sleep"}
               PROVE  Cardinality(Refused(w)) <= ReportEvery * Cardinality(Complaints(w))
    BY DEF DropsExplained, IInv
  <2> DEFINE R == Cardinality(Refused(w))
             x == ReportEvery * Cardinality(Complaints(w))
  <2>1. R + Unused(pc[w], dropped[w]) <= x
    BY DEF DropsInv, Explained, Owed
  <2>2. R \in Nat /\ x \in Nat /\ Unused(pc[w], dropped[w]) \in Nat
    <3>1. dropped[w] \in Nat
      BY DEF TypeThreads
    <3>2. R \in Nat /\ Cardinality(Complaints(w)) \in Nat
      BY SentFinite DEF DropsInv
    <3> QED
      BY <3>1, <3>2, UnusedIs, PipelineAssumption
  <2> HIDE DEF R, x
  <2>3. R <= x
    BY <2>1, <2>2
  <2> QED
    BY <2>3 DEF R, x
<1>2. Init => DropsInv
  BY DropsStart
<1>3. IInv /\ DropsInv /\ [Next]_vars => DropsInv'
  BY DropsStep DEF IInv
<1> QED
  BY <1>1, <1>2, <1>3, Inductive, PTL DEF Spec

-----------------------------------------------------------------------------
(* Refinement: the writer's half of a step is a step of OrderedLog.        *)

LEMMA PromiseStep ==
  ASSUME IInv, [Next]_vars
  PROVE  [Promise!Next]_Promise!vars
<1> USE DEF Promise!vars, Promise!Next
<1>0. TypeWriter /\ WriterInv /\ TypeWriter' /\ WriterInv' /\ TypeThreads
  BY WriterStep DEF IInv
<1>1. CASE UNCHANGED writerSide
  BY <1>1 DEF writerSide
<1>2. ASSUME NEW t \in Threads, Accept(t)
      PROVE  Promise!Accept
  <2> DEFINE r == Head(out[t])
  <2>1. r \in Record
    BY <1>0, <1>2, InHand DEF Accept
  <2> HIDE DEF r
  <2>2. /\ accepted' = Append(accepted, r)
        /\ rxOpen
        /\ UNCHANGED <<done, written, rxOpen>>
    BY <1>2 DEF Accept, r
  <2>3. /\ Len(accepted') = Len(accepted) + 1
        /\ accepted'[Len(accepted')] = r
    BY <1>0, <2>1, <2>2, AppendProperties DEF TypeWriter
  <2> QED
    BY <1>0, <2>2, <2>3 DEF Promise!Accept, TypeWriter
<1>3. CASE Recv \/ Fill \/ Maintain \/ PublishStop
  BY <1>3 DEF Recv, Fill, Maintain, PublishStop, channel, history
<1>4. CASE Flush
  <2>1. PICK kept \in SUBSET Rows : written' = written \cup {Len(done) + i : i \in kept}
    BY <1>4 DEF Flush
  <2>2. /\ rxOpen
        /\ done' = done \o batch
        /\ UNCHANGED <<rxOpen, accepted>>
    BY <1>0, <1>4 DEF Flush, BatchReady, channel, WriterInv
  <2>3. Len(done') = Len(done) + Len(batch)
    BY <1>0, <2>2, ConcatProperties DEF TypeWriter
  <2>4. Len(accepted) = Len(done) + Len(batch) + Len(queue)
    <3>1. /\ done \o batch \in Seq(Record)
          /\ Len(done \o batch) = Len(done) + Len(batch)
      BY <1>0, ConcatProperties DEF TypeWriter
    <3> QED
      BY <1>0, <3>1, ConcatProperties DEF TypeWriter, WriterInv, Fifo
  <2>5. Len(done') \in Len(done)..Len(accepted)
    BY <1>0, <2>3, <2>4 DEF TypeWriter
  <2>6. {Len(done) + i : i \in kept} \subseteq Len(done) + 1 .. Len(done')
    BY <1>0, <2>1, <2>3 DEF Rows, TypeWriter
  <2>7. Promise!Settle
    BY <2>1, <2>2, <2>5, <2>6 DEF Promise!Settle
  <2> QED
    BY <2>7
<1>5. CASE FlushFails
  <2>1. done' = accepted
    BY <1>0, <1>5 DEF FlushFails, WriterInv, Fifo
  <2>2. rxOpen
    BY <1>0, <1>5 DEF FlushFails, BatchReady, WriterInv
  <2> QED
    BY <1>5, <2>1, <2>2 DEF FlushFails, Promise!Close
<1>6. CASE Closed
  <2>1. done = accepted
    <3>1. batch = <<>> /\ queue = <<>> /\ done \o <<>> \o <<>> = done
      BY <1>0, <1>6, ConcatEmptySeq DEF Closed, WriterInv, TypeWriter
    <3> QED
      BY <1>0, <3>1 DEF WriterInv, Fifo
  <2>2. rxOpen
    BY <1>0, <1>6 DEF Closed, WriterInv
  <2> QED
    BY <1>6, <2>1, <2>2 DEF Closed, history, Promise!Close
<1> QED
  BY <1>1, <1>2, <1>3, <1>4, <1>5, <1>6, StepKinds DEF Writer

\* The channel, the batches, the supervisor and every shutdown path implement the
\* log that OrderedLog promises a collector.
THEOREM ImplementsLog == Spec => Implements
<1>1. Init => Promise!Init
  BY DEF Init, Promise!Init
<1>2. IInv /\ [Next]_vars => [Promise!Next]_Promise!vars
  BY PromiseStep
<1> QED
  BY <1>1, <1>2, Inductive, PTL DEF Spec, Implements, Promise!Spec

=============================================================================
