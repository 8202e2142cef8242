--------------------------- MODULE RecordPipeline ---------------------------
(***************************************************************************)
(* The daemon's write path and the threads around it: collectors hand      *)
(* records to a bounded channel through a Sink, one writer thread drains   *)
(* it in batches into the database, the supervisor restarts a collector    *)
(* that stops, and the main thread brings all of it up and down again.     *)
(* Modelled from watch/store/writer/mod.rs, watch/store/mod.rs,            *)
(* watch/supervisor.rs and run_with in watch/mod.rs.                       *)
(*                                                                         *)
(* The database is abstracted to which accepted records it keeps; what a   *)
(* row does to its table is the business of Importer and Retention.        *)
(***************************************************************************)
EXTENDS Naturals, Sequences, FiniteSets

CONSTANTS
  Workers,    \* supervised collector threads
  Background, \* the workers spawned at reduced priority
  Emits,      \* Emits[w]: the kinds of record collector w produces
  Capacity,   \* CHANNEL_CAPACITY
  MaxBatch,   \* MAX_BATCH
  ReportEvery,\* the sampler mentions one dropped sample in this many
  MaxSends,   \* bound: records one collector produces
  MaxFaults   \* bound: times one collector's body stops unasked

Main == "main"
Threads == Workers \cup {Main}
Kinds == {"sample", "row", "event", "saturated", "chore"}

\* n numbers what one thread submits, so that no two records are equal.
Record == [src : Threads, kind : Kinds, n : Nat]

\* Who holds a clone of the Sink: every thread, the Store and the Supervisor.
Holders == Threads \cup {"store", "supervisor"}

ASSUME PipelineAssumption ==
  /\ Main \notin Workers
  /\ {"store", "supervisor"} \cap Workers = {}
  /\ Background \subseteq Workers
  /\ Emits \in [Workers -> SUBSET {"sample", "row", "event", "chore"}]
  /\ Capacity \in Nat \ {0}
  /\ MaxBatch \in Nat \ {0}
  /\ ReportEvery \in Nat \ {0, 1}
  /\ MaxSends \in Nat
  /\ MaxFaults \in Nat

VARIABLES
  queue,      \* the channel's buffer
  rxOpen,     \* the writer still owns the receiving end
  holders,    \* live clones of the Sink; the channel closes when none is left
  shutdown,   \* the flag shared by every thread
  pc,         \* where each collector and the main thread stand
  out,        \* <<>> or the one record a thread is inside Sink::send with
  sent,       \* records each thread has submitted
  faults,     \* times each collector's body has stopped unasked
  dropped,    \* samples refused since each collector's body was started
  writer,     \* where the writer thread stands
  batch,      \* records taken and not yet committed
  health,     \* WriterHealth: what /api/status reads
  accepted,   \* history: records whose send returned true
  discarded,  \* history: records whose send returned false
  done,       \* history: accepted records the writer is finished with
  written,    \* positions of done committed to the database
  lost        \* positions of done given up without being offered to a commit

channel == <<queue, rxOpen, holders>>
threads == <<shutdown, pc, out, sent, faults, dropped>>
history == <<accepted, discarded, done, written, lost>>
vars == <<queue, rxOpen, holders, shutdown, pc, out, sent, faults, dropped,
          writer, batch, health, accepted, discarded, done, written, lost>>

WorkerPC == {"idle", "prologue", "greet", "loop", "work", "send", "refused",
             "complain", "sleep", "report", "backoff", "exited"}
MainPC == {"bind", "logBind", "spawn", "logStart", "serve", "logDown", "dropSink",
           "unwind", "join", "closeStore", "joinWriter", "exited"}
WriterPC == {"recv", "fill", "maintain", "closing", "failing", "exited", "failed"}

\* The program counters at which a thread is inside Sink::send.
Sending == {"greet", "send", "complain", "report", "logBind", "logStart", "logDown"}

IsDroppable(r) == r.kind = "sample"

-----------------------------------------------------------------------------
\* The state run_with is in once Store::open has returned: the writer is
\* draining, and the main thread and the Store each hold a Sink.
Init ==
  /\ queue = <<>>
  /\ rxOpen = TRUE
  /\ holders = {Main, "store"}
  /\ shutdown = FALSE
  /\ pc = [t \in Threads |-> IF t = Main THEN "bind" ELSE "idle"]
  /\ out = [t \in Threads |-> <<>>]
  /\ sent = [t \in Threads |-> 0]
  /\ faults = [w \in Workers |-> 0]
  /\ dropped = [w \in Workers |-> 0]
  /\ writer = "recv"
  /\ batch = <<>>
  /\ health = TRUE
  /\ accepted = <<>>
  /\ discarded = {}
  /\ done = <<>>
  /\ written = {}
  /\ lost = {}

-----------------------------------------------------------------------------
(* Sink::send.  Submit puts a thread inside it; the four outcomes follow.  *)

Submit(t, kind, at) ==
  /\ out' = [out EXCEPT ![t] = <<[src |-> t, kind |-> kind, n |-> sent[t]]>>]
  /\ sent' = [sent EXCEPT ![t] = @ + 1]
  /\ pc' = [pc EXCEPT ![t] = at]

\* A body may send several records in one pass.
AfterSend(t) ==
  CASE pc[t] = "greet"    -> "loop"
    [] pc[t] = "send"     -> "work"
    [] pc[t] = "complain" -> "work"
    [] pc[t] = "report"   -> "backoff"
    [] pc[t] = "logBind"  -> "unwind"
    [] pc[t] = "logStart" -> "serve"
    [] pc[t] = "logDown"  -> "dropSink"

InSend(t) == pc[t] \in Sending

Leave(t, to) ==
  /\ out' = [out EXCEPT ![t] = <<>>]
  /\ pc' = [pc EXCEPT ![t] = to]

\* try_send finds room, or the blocking send does once the writer made some.
Accept(t) ==
  /\ InSend(t)
  /\ rxOpen
  /\ Len(queue) < Capacity
  /\ queue' = Append(queue, Head(out[t]))
  /\ accepted' = Append(accepted, Head(out[t]))
  /\ Leave(t, AfterSend(t))
  /\ UNCHANGED <<rxOpen, holders, shutdown, sent, faults, dropped, writer, batch,
                 health, discarded, done, written, lost>>

\* send returns FALSE.  Only the sampler looks at the answer: it counts.
Refuse(t) ==
  /\ discarded' = discarded \cup {Head(out[t])}
  /\ IF pc[t] = "send" /\ Head(out[t]).kind = "sample"
       THEN /\ dropped' = [dropped EXCEPT ![t] = @ + 1]
            /\ Leave(t, "refused")
       ELSE /\ Leave(t, AfterSend(t))
            /\ UNCHANGED dropped
  /\ UNCHANGED <<queue, rxOpen, holders, shutdown, sent, faults, writer, batch,
                 health, accepted, done, written, lost>>

\* The channel is full and the record may be dropped.
Drop(t) ==
  /\ InSend(t)
  /\ rxOpen
  /\ Len(queue) = Capacity
  /\ IsDroppable(Head(out[t]))
  /\ Refuse(t)

\* The receiving end is gone: a waiting send wakes with an error too.
Disconnected(t) ==
  /\ InSend(t)
  /\ ~rxOpen
  /\ Refuse(t)

Send(t) == Accept(t) \/ Drop(t) \/ Disconnected(t)

-----------------------------------------------------------------------------
(* A collector thread under Supervisor::spawn.                             *)

\* Lowering the thread's priority may be refused, which is logged.
Prologue(w) ==
  /\ pc[w] = "prologue"
  /\ \/ /\ w \in Background
        /\ Submit(w, "event", "greet")
     \/ /\ pc' = [pc EXCEPT ![w] = "loop"]
        /\ UNCHANGED <<out, sent>>
  /\ UNCHANGED <<channel, shutdown, faults, dropped, writer, batch, health, history>>

\* The thread ends and its closure, with the Sink clones it owns, is dropped.
Exit(w) ==
  /\ pc' = [pc EXCEPT ![w] = "exited"]
  /\ holders' = holders \ {w}
  /\ UNCHANGED <<out, sent, faults, dropped>>

\* The head of the restart loop: a fresh clone of the body, or the end.
Loop(w) ==
  /\ pc[w] = "loop"
  /\ IF shutdown
       THEN Exit(w)
       ELSE /\ pc' = [pc EXCEPT ![w] = "work"]
            /\ dropped' = [dropped EXCEPT ![w] = 0]
            /\ UNCHANGED <<holders, out, sent, faults>>
  /\ UNCHANGED <<queue, rxOpen, shutdown, writer, batch, health, history>>

Produce(w) ==
  /\ pc[w] = "work"
  /\ sent[w] < MaxSends
  /\ \E kind \in Emits[w] : Submit(w, kind, "send")
  /\ UNCHANGED <<channel, shutdown, faults, dropped, writer, batch, health, history>>

\* Mutant: the first drop is announced, and no later burst.
MentionOnce(w) ==
  /\ pc[w] = "refused"
  /\ IF dropped[w] = 1
       THEN Submit(w, "saturated", "complain")
       ELSE /\ pc' = [pc EXCEPT ![w] = "work"]
            /\ UNCHANGED <<out, sent>>
  /\ UNCHANGED <<channel, shutdown, faults, dropped, writer, batch, health, history>>

\* The sampler says that samples go missing, in bursts: the first of every
\* ReportEvery, with an event that waits for room.
Mention(w) ==
  /\ pc[w] = "refused"
  /\ IF dropped[w] % ReportEvery = 1
       THEN Submit(w, "saturated", "complain")
       ELSE /\ pc' = [pc EXCEPT ![w] = "work"]
            /\ UNCHANGED <<out, sent>>
  /\ UNCHANGED <<channel, shutdown, faults, dropped, writer, batch, health, history>>

\* The end of a pass.
Pause(w) ==
  /\ pc[w] = "work"
  /\ pc' = [pc EXCEPT ![w] = "sleep"]
  /\ UNCHANGED <<channel, shutdown, out, sent, faults, dropped, writer, batch, health,
                 history>>

\* ShutdownClock::sleep ends: on FALSE the body returns, and catch_unwind's
\* caller finds the flag set.
Wake(w) ==
  /\ pc[w] = "sleep"
  /\ IF shutdown
       THEN Exit(w)
       ELSE /\ pc' = [pc EXCEPT ![w] = "work"]
            /\ UNCHANGED <<holders, out, sent, faults, dropped>>
  /\ UNCHANGED <<queue, rxOpen, shutdown, writer, batch, health, history>>

\* The body returns or panics without having been asked to stop.
Fault(w) ==
  /\ pc[w] = "work"
  /\ faults[w] < MaxFaults
  /\ IF shutdown
       THEN Exit(w)
       ELSE /\ faults' = [faults EXCEPT ![w] = @ + 1]
            /\ Submit(w, "event", "report")
            /\ UNCHANGED <<holders, dropped>>
  /\ UNCHANGED <<queue, rxOpen, shutdown, writer, batch, health, history>>

\* sleep_unless_shutdown ends, early if the flag is set.
BackoffEnds(w) ==
  /\ pc[w] = "backoff"
  /\ pc' = [pc EXCEPT ![w] = "loop"]
  /\ UNCHANGED <<channel, shutdown, out, sent, faults, dropped, writer, batch, health,
                 history>>

Collector(w) ==
  \/ Prologue(w) \/ Loop(w) \/ Produce(w) \/ Mention(w) \/ Pause(w) \/ Wake(w)
  \/ Fault(w) \/ BackoffEnds(w) \/ Send(w)

-----------------------------------------------------------------------------
(* The main thread: run_with from the bind to its return.                  *)

Bind ==
  /\ pc[Main] = "bind"
  /\ \/ /\ Submit(Main, "event", "logBind")   \* the port is taken
        /\ UNCHANGED holders
     \/ /\ pc' = [pc EXCEPT ![Main] = "spawn"]
        /\ holders' = holders \cup {"supervisor"}
        /\ UNCHANGED <<out, sent>>
  /\ UNCHANGED <<queue, rxOpen, shutdown, faults, dropped, writer, batch, health, history>>

SpawnWorker(w) ==
  /\ pc[Main] = "spawn"
  /\ pc[w] = "idle"
  /\ pc' = [pc EXCEPT ![w] = "prologue"]
  /\ holders' = holders \cup {w}
  /\ UNCHANGED <<queue, rxOpen, shutdown, out, sent, faults, dropped, writer, batch, health,
                 history>>

\* thread::Builder::spawn fails and the error leaves run_with.
SpawnFails ==
  /\ pc[Main] = "spawn"
  /\ \E w \in Workers : pc[w] = "idle"
  /\ pc' = [pc EXCEPT ![Main] = "unwind"]
  /\ UNCHANGED <<channel, shutdown, out, sent, faults, dropped, writer, batch, health, history>>

Started ==
  /\ pc[Main] = "spawn"
  /\ \A w \in Workers : pc[w] # "idle"
  /\ Submit(Main, "event", "logStart")
  /\ UNCHANGED <<channel, shutdown, faults, dropped, writer, batch, health, history>>

\* The serve loop and the loop behind it end when they see the flag.
StopServing ==
  /\ pc[Main] = "serve"
  /\ shutdown
  /\ Submit(Main, "event", "logDown")
  /\ UNCHANGED <<channel, shutdown, faults, dropped, writer, batch, health, history>>

\* A panic outside the request boundary: the registry's poisoned mutex.
Unwind ==
  /\ pc[Main] = "serve"
  /\ pc' = [pc EXCEPT ![Main] = "unwind"]
  /\ UNCHANGED <<channel, shutdown, out, sent, faults, dropped, writer, batch, health, history>>

DropSink ==
  /\ pc[Main] = "dropSink"
  /\ holders' = holders \ {Main}
  /\ shutdown' = TRUE                         \* Supervisor::stop
  /\ pc' = [pc EXCEPT ![Main] = "join"]
  /\ UNCHANGED <<queue, rxOpen, out, sent, faults, dropped, writer, batch, health, history>>

\* Mutant: the Supervisor is dropped without asking its workers to stop.
DropSupervisorQuietly ==
  /\ pc[Main] = "unwind"
  /\ pc' = [pc EXCEPT ![Main] = "join"]
  /\ UNCHANGED <<channel, shutdown, out, sent, faults, dropped, writer, batch, health,
                 history>>

\* Leaving run_with early: the Supervisor is the first local to be dropped.
DropSupervisor ==
  /\ pc[Main] = "unwind"
  /\ shutdown' = (shutdown \/ "supervisor" \in holders)
  /\ pc' = [pc EXCEPT ![Main] = "join"]
  /\ UNCHANGED <<channel, out, sent, faults, dropped, writer, batch, health, history>>

\* Every worker is joined; then the Supervisor's Sink and, on the early path,
\* the main thread's own go out of scope.
JoinWorkers ==
  /\ pc[Main] = "join"
  /\ \A w \in Workers : pc[w] \in {"idle", "exited"}
  /\ holders' = holders \ {"supervisor", Main}
  /\ pc' = [pc EXCEPT ![Main] = "closeStore"]
  /\ UNCHANGED <<queue, rxOpen, shutdown, out, sent, faults, dropped, writer, batch, health,
                 history>>

\* Store::join replaces its Sink by a dead one, then joins the writer.
CloseStore ==
  /\ pc[Main] = "closeStore"
  /\ holders' = holders \ {"store"}
  /\ pc' = [pc EXCEPT ![Main] = "joinWriter"]
  /\ UNCHANGED <<queue, rxOpen, shutdown, out, sent, faults, dropped, writer, batch, health,
                 history>>

JoinWriter ==
  /\ pc[Main] = "joinWriter"
  /\ writer \in {"exited", "failed"}
  /\ pc' = [pc EXCEPT ![Main] = "exited"]
  /\ UNCHANGED <<channel, shutdown, out, sent, faults, dropped, writer, batch, health, history>>

MainThread ==
  \/ Bind \/ SpawnFails \/ Started \/ StopServing \/ Unwind \/ DropSink
  \/ DropSupervisor \/ JoinWorkers \/ CloseStore \/ JoinWriter \/ Send(Main)
  \/ \E w \in Workers : SpawnWorker(w)

\* Ctrl+C or the tray's Quit.
RequestShutdown ==
  /\ ~shutdown
  /\ pc[Main] # "exited"
  /\ shutdown' = TRUE
  /\ UNCHANGED <<channel, pc, out, sent, faults, dropped, writer, batch, health, history>>

-----------------------------------------------------------------------------
(* The writer thread: writer::run and drain.                               *)

Recv ==
  /\ writer = "recv"
  /\ queue # <<>>
  /\ batch' = <<Head(queue)>>
  /\ queue' = Tail(queue)
  /\ writer' = "fill"
  /\ UNCHANGED <<rxOpen, holders, threads, health, history>>

\* try_recv, as long as something is queued and the batch has room.
Fill ==
  /\ writer = "fill"
  /\ queue # <<>>
  /\ Len(batch) < MaxBatch
  /\ batch' = Append(batch, Head(queue))
  /\ queue' = Tail(queue)
  /\ UNCHANGED <<rxOpen, holders, threads, writer, health, history>>

\* Mutant: a batch is committed only when it is full.
FullBatchReady == writer = "fill" /\ Len(batch) = MaxBatch

BatchReady == writer = "fill" /\ (queue = <<>> \/ Len(batch) = MaxBatch)
Rows == {i \in DOMAIN batch : batch[i].kind # "chore"}

\* take_maintenance, then flush: every row the database accepts is committed
\* together, a refused one is counted and dropped.
Flush ==
  /\ BatchReady
  /\ \E kept \in SUBSET Rows :
       written' = written \cup {Len(done) + i : i \in kept}
  /\ done' = done \o batch
  /\ batch' = <<>>
  /\ writer' = IF Rows = DOMAIN batch THEN "recv" ELSE "maintain"
  /\ UNCHANGED <<channel, threads, health, accepted, discarded, lost>>

\* Mutant: a failed commit is logged and the writer carries on.
FlushSkips ==
  /\ BatchReady
  /\ Rows # {}
  /\ done' = done \o batch
  /\ lost' = lost \cup (Len(done) + 1 .. Len(done) + Len(batch))
  /\ batch' = <<>>
  /\ writer' = "recv"
  /\ UNCHANGED <<channel, threads, health, accepted, discarded, written>>

\* Mutant: the failed writer leaves the receiving end open behind it.
FlushLeavesChannel ==
  /\ BatchReady
  /\ Rows # {}
  /\ done' = done \o batch
  /\ lost' = Len(done) + 1 .. Len(done) + Len(batch)
  /\ batch' = <<>>
  /\ writer' = "failing"
  /\ UNCHANGED <<channel, threads, health, accepted, discarded, written>>

\* Mutant: rows are committed one by one, so a failure keeps the first of them.
FlushTorn ==
  /\ BatchReady
  /\ Rows # {}
  /\ written' = written \cup {Len(done) + 1}
  /\ done' = done \o batch \o queue
  /\ lost' = Len(done) + 2 .. Len(done) + Len(batch) + Len(queue)
  /\ batch' = <<>>
  /\ queue' = <<>>
  /\ rxOpen' = FALSE
  /\ writer' = "failing"
  /\ UNCHANGED <<holders, threads, health, accepted, discarded>>

\* Beginning or committing the transaction fails: drain returns, which drops
\* the batch and, with the receiver, everything still queued.
FlushFails ==
  /\ BatchReady
  /\ Rows # {}
  /\ done' = done \o batch \o queue
  /\ lost' = Len(done) + 1 .. Len(done) + Len(batch) + Len(queue)
  /\ batch' = <<>>
  /\ queue' = <<>>
  /\ rxOpen' = FALSE
  /\ writer' = "failing"
  /\ UNCHANGED <<holders, threads, health, accepted, discarded, written>>

\* One retention pass; its failure is logged and survived.
Maintain ==
  /\ writer = "maintain"
  /\ writer' = "recv"
  /\ UNCHANGED <<channel, threads, batch, health, history>>

\* Mutant: the writer leaves as soon as nobody can send, queue or no queue.
ClosedEarly ==
  /\ writer = "recv"
  /\ holders = {}
  /\ rxOpen' = FALSE
  /\ writer' = "closing"
  /\ UNCHANGED <<queue, holders, threads, batch, health, history>>

\* recv reports the channel closed: empty, and no Sink left anywhere.
Closed ==
  /\ writer = "recv"
  /\ queue = <<>>
  /\ holders = {}
  /\ rxOpen' = FALSE
  /\ writer' = "closing"
  /\ UNCHANGED <<queue, holders, threads, batch, health, history>>

\* The last line of writer::run, after the receiver has already been dropped.
PublishStop ==
  /\ writer \in {"closing", "failing"}
  /\ health' = FALSE
  /\ writer' = IF writer = "closing" THEN "exited" ELSE "failed"
  /\ UNCHANGED <<channel, threads, batch, history>>

Writer == Recv \/ Fill \/ Flush \/ FlushFails \/ Maintain \/ Closed \/ PublishStop

-----------------------------------------------------------------------------
\* The process is gone: every thread has ended.
Ended ==
  /\ pc[Main] = "exited"
  /\ UNCHANGED vars

Next ==
  \/ \E w \in Workers : Collector(w)
  \/ MainThread
  \/ RequestShutdown
  \/ Writer
  \/ Ended

Spec == Init /\ [][Next]_vars

\* The operating system runs every thread that can run.  Nobody has to ask for
\* a shutdown, no call has to fail, and no body has to stop.
Fairness ==
  /\ WF_vars(Writer)
  /\ WF_vars(MainThread)
  /\ \A w \in Workers : WF_vars(Collector(w))

FairSpec == Spec /\ Fairness

-----------------------------------------------------------------------------
(* Safety.                                                                 *)

\* Each variable stays in its type; the queue and the batch stay within their
\* limits (CHANNEL_CAPACITY, MAX_BATCH); a thread holds a record exactly while
\* it is inside Sink::send.
TypeOK ==
  /\ queue \in Seq(Record) /\ Len(queue) <= Capacity
  /\ batch \in Seq(Record) /\ Len(batch) <= MaxBatch
  /\ accepted \in Seq(Record)
  /\ done \in Seq(Record)
  /\ discarded \subseteq Record
  /\ written \subseteq Nat \ {0}
  /\ lost \subseteq Nat \ {0}
  /\ rxOpen \in BOOLEAN
  /\ shutdown \in BOOLEAN
  /\ health \in BOOLEAN
  /\ holders \subseteq Holders
  /\ pc \in [Threads -> WorkerPC \cup MainPC]
  /\ pc[Main] \in MainPC
  /\ \A w \in Workers : pc[w] \in WorkerPC
  /\ out \in [Threads -> Seq(Record)]
  /\ \A t \in Threads : Len(out[t]) = IF InSend(t) THEN 1 ELSE 0
  /\ sent \in [Threads -> Nat]
  /\ faults \in [Workers -> Nat]
  /\ dropped \in [Workers -> Nat]
  /\ writer \in WriterPC

\* Batching, dropping and every shutdown path keep the order of acceptance: what
\* is finished, what is in hand and what is queued are the accepted records.
Fifo == accepted = done \o batch \o queue

\* A record given up never precedes one that was committed.  It is why the
\* importer may send a transcript's watermark after its rows and trust that a
\* kill or a failing database costs a re-read and not a hole.  It holds in
\* every state, so it holds of the file a process killed at any point leaves.
PrefixDurable == \A i \in lost, j \in written : j < i

\* "Only a sample may be discarded" - while there is a writer to hand it to.
OnlySamplesDropped ==
  \A r \in discarded : r.kind = "sample" \/ writer \in {"failing", "failed"}

\* A process that ends with its writer intact has offered every record it
\* accepted to the database, whichever way run_with was left, and left no
\* thread behind.
CleanStop ==
  pc[Main] = "exited" /\ writer = "exited" =>
    /\ done = accepted
    /\ lost = {}
    /\ \A w \in Workers : pc[w] \in {"idle", "exited"}

Refused(w) == {r \in discarded : r.src = w}
Complaints(w) ==
  {i \in DOMAIN accepted : accepted[i].src = w /\ accepted[i].kind = "saturated"}

\* A gap in a collector's series is explicable: between passes, each event about
\* a saturated writer stands for at most ReportEvery refused records.
DropsExplained ==
  \A w \in Workers :
    rxOpen /\ pc[w] \in {"work", "sleep"} =>
      Cardinality(Refused(w)) <= ReportEvery * Cardinality(Complaints(w))

-----------------------------------------------------------------------------
(* Liveness, under FairSpec.                                               *)

\* Once the process has begun to stop - Ctrl+C, Quit, or run_with unwinding - it
\* ends: no thread waits for a sender, a receiver or a join that never comes.
Stops == shutdown \/ pc[Main] = "unwind" ~> pc[Main] = "exited"

\* A collector whose body stopped gets its report out, full channel or dead
\* writer notwithstanding, and runs again unless the process is stopping.
Restarts == \A w \in Workers : pc[w] = "report" ~> pc[w] \in {"work", "exited"}

\* No record is left waiting in a partial batch: the writer catches up with every
\* burst, whatever its length.
Settles == []<>(done = accepted)

\* Nothing is held up for ever: no record in a batch, and no collector by its own report
\* (the two above; writer/mod.rs, drain, and supervisor.rs, run_worker).
NothingIsStuck == Settles /\ Restarts

-----------------------------------------------------------------------------
\* The write path implements the log it promises its collectors.
Promise == INSTANCE OrderedLog WITH
  log <- accepted, settled <- Len(done), kept <- written, open <- rxOpen

Implements == Promise!Spec

=============================================================================
