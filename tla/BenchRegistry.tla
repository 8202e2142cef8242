--------------------------- MODULE BenchRegistry ---------------------------
(***************************************************************************)
(* The daemon's single benchmark slot (watch/serve/runs/mod.rs), the child *)
(* process it watches (watch/serve/runs/child.rs) and what that process    *)
(* does, in the order it does it (the `bench` arm of main.rs).             *)
(*                                                                         *)
(* The server answers one request at a time and the registry's mutex spans *)
(* each of its methods, so the interleavings that matter are those of one  *)
(* request with the child: between exit_status and kill, between two polls,*)
(* and while finish waits.  A method is therefore cut where the child can  *)
(* run in between: `pc` says where the server thread is.                   *)
(*                                                                         *)
(* MaxTime bounds the clock, MaxErrors the number of times the operating   *)
(* system fails to answer try_wait.                                        *)
(***************************************************************************)
EXTENDS Naturals, FiniteSets

CONSTANTS Runs,        \* run ids start may draw; each is drawn once
          MaxTime,
          MaxErrors,
          NoRun, NoCode, Never

ASSUME RegistryAssumption ==
    /\ MaxTime \in Nat /\ MaxErrors \in Nat
    /\ NoRun \notin Runs /\ NoCode \notin {0, 1} /\ Never \notin 0..MaxTime

VARIABLES pc,       \* the server thread: between requests, or inside one
          slot,     \* Registry.inner
          child,    \* each run's process and the files it leaves
          now,      \* store::now_ms
          errors,   \* try_wait failures so far
          told,     \* when an answer first said the run was over
          stopped   \* the runs for which cancel answered `cancelled: true`

vars == <<pc, slot, child, now, errors, told, stopped>>

Stages == {"unborn", "working", "measured", "torn", "whole", "marked", "gone"}

\* Before it starts a run has no process, no report and no scratch directory.
Unborn == [at |-> "unborn", code |-> NoCode, report |-> "none", scratch |-> FALSE]

Alive(r) == child[r].at \notin {"unborn", "gone"}

EmptySlot == [state |-> "idle", run |-> NoRun, cancelled |-> FALSE,
              exited |-> Never, ok |-> FALSE]

Busy(r) == slot.state = "running" /\ slot.run = r

Init == /\ pc = "free"
        /\ slot = EmptySlot
        /\ child = [r \in Runs |-> Unborn]
        /\ now = 0
        /\ errors = 0
        /\ told = [r \in Runs |-> Never]
        /\ stopped = {}

-----------------------------------------------------------------------------
(* The child: agentbench bench, from its first workload to its exit.  The  *)
(* scratch directory is a guard of run_with_cancel: returning removes it,  *)
(* being killed does not.  fs::write creates the report before it fills it.*)

Measure(r) == /\ child[r].at = "working"
              /\ child' = [child EXCEPT ![r].at = "measured", ![r].scratch = FALSE]
              /\ UNCHANGED <<pc, slot, now, errors, told, stopped>>

CreateReport(r) == /\ child[r].at = "measured"
                   /\ child' = [child EXCEPT ![r].at = "torn", ![r].report = "torn"]
                   /\ UNCHANGED <<pc, slot, now, errors, told, stopped>>

FillReport(r) == /\ child[r].at = "torn"
                 /\ child' = [child EXCEPT ![r].at = "whole", ![r].report = "whole"]
                 /\ UNCHANGED <<pc, slot, now, errors, told, stopped>>

MarkEnd(r) == /\ child[r].at = "whole"
              /\ child' = [child EXCEPT ![r].at = "marked"]
              /\ UNCHANGED <<pc, slot, now, errors, told, stopped>>

Exit(r, code, from) ==
    /\ child[r].at \in from
    /\ child' = [child EXCEPT ![r].at = "gone", ![r].code = code,
                              ![r].scratch = IF code = NoCode THEN @ ELSE FALSE]
    /\ UNCHANGED <<pc, slot, now, errors, told, stopped>>

Succeed(r) == Exit(r, 0, {"marked"})
\* A `?` on the way: a workload or a write that failed.
Fail(r) == Exit(r, 1, {"working", "measured", "torn", "whole"})
\* The operating system ends the process: out of memory, a log-off.
Die(r) == Alive(r) /\ Exit(r, NoCode, Stages \ {"unborn", "gone"})

ChildStep(r) == \/ Measure(r) \/ CreateReport(r) \/ FillReport(r) \/ MarkEnd(r)
                \/ Succeed(r) \/ Fail(r) \/ Die(r)

-----------------------------------------------------------------------------
(* Running.exit_status: what try_wait says of the run in the slot.  A call *)
(* that fails is reported as an exit, whatever the child is doing.         *)

Silent == Alive(slot.run)
Seen == ~Alive(slot.run) /\ UNCHANGED errors
Unknowable == Alive(slot.run) /\ errors < MaxErrors /\ errors' = errors + 1

\* Stamped the first time the answer is "finished", and never again.
Stamp == [slot EXCEPT !.exited = IF @ = Never THEN now ELSE @]

Tell(r) == told' = [told EXCEPT ![r] = IF @ = Never THEN now ELSE @]

-----------------------------------------------------------------------------
(* Requests                                                                *)

\* start refuses while the child is seen to run; a finished one is settled first.
StartBusy == /\ pc = "free" /\ slot.state = "running" /\ Silent
             /\ UNCHANGED vars

StartSettles == /\ pc = "free" /\ slot.state = "running"
                /\ Seen \/ Unknowable
                /\ slot' = Stamp
                /\ pc' = "settle to start"
                /\ UNCHANGED <<child, now, told, stopped>>

StartAfresh == /\ pc = "free" /\ slot.state # "running"
               /\ pc' = "start"
               /\ UNCHANGED <<slot, child, now, errors, told, stopped>>

\* The reports directory and the spawn, either of which may fail.
Launch(r) == /\ pc = "start"
             /\ child[r].at = "unborn"
             /\ child' = [child EXCEPT ![r].at = "working", ![r].scratch = TRUE]
             /\ slot' = [EmptySlot EXCEPT !.state = "running", !.run = r]
             /\ pc' = "free"
             /\ UNCHANGED <<now, errors, told, stopped>>

LaunchFails == /\ pc = "start"
               /\ pc' = "free"
               /\ UNCHANGED <<slot, child, now, errors, told, stopped>>

\* Mutant: snapshot takes a run it has cancelled to be settled already.
PollSkipsCancelled == /\ pc = "free" /\ slot.state = "running" /\ ~slot.cancelled
                      /\ Seen \/ Unknowable
                      /\ slot' = Stamp
                      /\ pc' = "settle"
                      /\ UNCHANGED <<child, now, told, stopped>>

\* snapshot: a finished state says again what it said; a run that is over is settled.
Poll == /\ pc = "free" /\ slot.state = "running"
        /\ Seen \/ Unknowable
        /\ slot' = Stamp
        /\ pc' = "settle"
        /\ UNCHANGED <<child, now, told, stopped>>

\* Mutant: Success is the file alone.
OkByFile == [slot EXCEPT !.state = "finished",
                         !.ok = child[slot.run].report # "none" /\ ~slot.cancelled]

\* Mutant: Success is the exit code and the file, whoever asked for the run to stop.
OkThoughStopped == [slot EXCEPT !.state = "finished",
                                !.ok = child[slot.run].code = 0 /\ child[slot.run].report # "none"]

\* Mutant: The end is read off the clock when the run is concluded.
EndedNow == [slot EXCEPT !.state = "finished", !.exited = now,
                         !.ok = /\ child[slot.run].code = 0
                                /\ child[slot.run].report # "none"
                                /\ ~slot.cancelled]

\* conclude.  finish waits for the child and then for both readers, which end when the
\* last writer of the pipes is gone: however exit_status was answered, the child is.
Finished == [slot EXCEPT !.state = "finished",
                         !.ok = /\ child[slot.run].code = 0
                                /\ child[slot.run].report # "none"
                                /\ ~slot.cancelled]

\* Mutant: finish returns without joining the readers: Conclude does not wait for the child.
ConcludeAtOnce == /\ pc \in {"settle", "settle to start"}
                  /\ slot' = Finished
                  /\ Tell(slot.run)
                  /\ pc' = IF pc = "settle" THEN "free" ELSE "start"
                  /\ UNCHANGED <<child, now, errors, stopped>>

\* Mutant: finish waits for an exit code, which a killed child never has.
ConcludeByCode == /\ pc \in {"settle", "settle to start"}
                  /\ child[slot.run].code # NoCode
                  /\ slot' = Finished
                  /\ Tell(slot.run)
                  /\ pc' = IF pc = "settle" THEN "free" ELSE "start"
                  /\ UNCHANGED <<child, now, errors, stopped>>

Conclude == /\ pc \in {"settle", "settle to start"}
            /\ ~Alive(slot.run)
            /\ slot' = Finished
            /\ Tell(slot.run)
            /\ pc' = IF pc = "settle" THEN "free" ELSE "start"
            /\ UNCHANGED <<child, now, errors, stopped>>

\* cancel: refused once the run is seen to be over, and that sighting is stamped.
CancelTooLate == /\ pc = "free" /\ slot.state = "running"
                 /\ Seen \/ Unknowable
                 /\ slot' = Stamp
                 /\ Tell(slot.run)
                 /\ UNCHANGED <<pc, child, now, stopped>>

Cancel == /\ pc = "free" /\ slot.state = "running" /\ Silent
          /\ slot' = [slot EXCEPT !.cancelled = TRUE]
          /\ pc' = "kill"
          /\ UNCHANGED <<child, now, errors, told, stopped>>

\* kill reaches a live child at once and is nothing to one that has gone since.
Killed == IF Alive(slot.run)
          THEN [child EXCEPT ![slot.run].at = "gone", ![slot.run].code = NoCode]
          ELSE child

Kill == /\ pc = "kill"
        /\ child' = Killed
        /\ stopped' = stopped \cup {slot.run}
        /\ pc' = "free"
        /\ UNCHANGED <<slot, now, errors, told>>

-----------------------------------------------------------------------------
(* The end of serving, after which no request reaches the registry         *)

ShutdownIdle == /\ pc = "free"
                /\ IF slot.state = "running"
                   THEN (Seen \/ Unknowable) /\ slot' = Stamp
                   ELSE UNCHANGED <<slot, errors>>
                /\ pc' = "closed"
                /\ UNCHANGED <<child, now, told, stopped>>

ShutdownKills == /\ pc = "free" /\ slot.state = "running" /\ Silent
                 /\ slot' = [slot EXCEPT !.cancelled = TRUE]
                 /\ pc' = "kill and close"
                 /\ UNCHANGED <<child, now, errors, told, stopped>>

\* Mutant: shutdown marks the run as cancelled and leaves its process to end by itself.
LastKillForgotten == /\ pc = "kill and close"
                     /\ pc' = "closed"
                     /\ UNCHANGED <<slot, child, now, errors, told, stopped>>

LastKill == /\ pc = "kill and close"
            /\ child' = Killed
            /\ pc' = "closed"
            /\ UNCHANGED <<slot, now, errors, told, stopped>>

Tick == /\ now < MaxTime
        /\ now' = now + 1
        /\ UNCHANGED <<pc, slot, child, errors, told, stopped>>

Request == \/ StartBusy \/ StartSettles \/ StartAfresh \/ LaunchFails
           \/ \E r \in Runs : Launch(r)
           \/ Poll \/ Conclude \/ CancelTooLate \/ Cancel \/ Kill
           \/ ShutdownIdle \/ ShutdownKills \/ LastKill

Next == Request \/ Tick \/ \E r \in Runs : ChildStep(r)

Spec == Init /\ [][Next]_vars

\* A request that was taken up is carried through, a bench process keeps running until
\* it ends (the workloads are bounded), and the page polls while a run is in flight.
FairSpec == /\ Spec
            /\ WF_vars(Conclude) /\ WF_vars(Kill) /\ WF_vars(LastKill)
            /\ WF_vars(LaunchFails \/ \E r \in Runs : Launch(r))
            /\ WF_vars(Poll)
            /\ \A r \in Runs : WF_vars(ChildStep(r))

-----------------------------------------------------------------------------
\* Every variable keeps its shape, and a method that settles or kills has a run to do it to.
TypeOK == /\ pc \in {"free", "start", "settle", "settle to start", "kill",
                     "kill and close", "closed"}
          /\ slot \in [state : {"idle", "running", "finished"}, run : Runs \cup {NoRun},
                       cancelled : BOOLEAN, exited : (0..MaxTime) \cup {Never},
                       ok : BOOLEAN]
          /\ child \in [Runs -> [at : Stages, code : {0, 1, NoCode},
                                 report : {"none", "torn", "whole"}, scratch : BOOLEAN]]
          /\ now \in 0..MaxTime
          /\ errors \in 0..MaxErrors
          /\ told \in [Runs -> (0..MaxTime) \cup {Never}]
          /\ stopped \subseteq Runs
          /\ slot.state = "idle" <=> slot.run = NoRun
          /\ pc \in {"settle", "settle to start", "kill", "kill and close"}
             => slot.state = "running"

\* Two benchmarks never load the machine together, not even when the operating system
\* cannot say whether the first has ended (mod.rs "Why one at a time").
OneAtATime == \A r, s \in Runs : Alive(r) /\ Alive(s) => r = s

\* A run reported as a success left a complete report: never one torn by a kill, a full
\* disk or an exit in the middle of writing it.
OkMeansWhole == slot.state = "finished" /\ slot.ok => child[slot.run].report = "whole"

\* A run the page was told it had stopped is never reported as a success, even when the
\* child completed between the check and the kill.
StoppedIsNoSuccess == slot.state = "finished" /\ slot.run \in stopped => ~slot.ok

\* The end a finished run reports is not later than the first time anybody was told it
\* was over, however long the run waited to be concluded (child.rs, exited_ms).
EndedWhenSeen ==
    slot.state = "finished" /\ told[slot.run] # Never => slot.exited <= told[slot.run]

\* What a finished run is reported as is what happened to it: how it ended, and when (the
\* three above; mod.rs, conclude).
FinishedTellsTheTruth == OkMeansWhole /\ StoppedIsNoSuccess /\ EndedWhenSeen

\* The slot never loses a run: a run leaves "running" only for its own outcome, so a
\* start that finds the previous one over, or fails, does not discard it.
OutcomeFirst ==
    [][\A r \in Runs : Busy(r) => slot'.run = r /\ slot'.state \in {"running", "finished"}]_vars

\* No benchmark outlives the dashboard that started it and could report on it.  (A child
\* try_wait failed on counts as gone, and shutdown does not kill it.)
NoneOutlives == pc = "closed" /\ errors = 0 => \A r \in Runs : ~Alive(r)

\* A run that is polled comes to an end the page can read, unless serving stops.
RunsConclude == \A r \in Runs : Busy(r) ~> ~Busy(r) \/ pc = "closed"

\* Every request is answered: the thread that serves the page is never held for ever.
AnswersCome == pc # "free" ~> pc \in {"free", "closed"}

\* Neither a run nor the request that waits for it under the lock hangs (the two above).
NothingHangs == RunsConclude /\ AnswersCome

=============================================================================
