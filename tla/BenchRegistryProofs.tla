------------------------ MODULE BenchRegistryProofs ------------------------
(***************************************************************************)
(* What the benchmark slot promises for any number of runs, any clock and  *)
(* any number of calls the operating system does not answer.               *)
(*                                                                         *)
(* The invariants the runs check are not inductive: they become so with    *)
(* what the mutex and the joined readers establish - a live child is the   *)
(* slot's (Owned) - and with what a run's history allows - a run not yet   *)
(* started has been stopped by nobody (Virgin), an exit code of zero comes *)
(* after the report (Whole).                                               *)
(***************************************************************************)
EXTENDS BenchRegistry, TLAPS

\* A live child is the one in the slot, and nothing is launched beside it.
Owned == /\ \A r \in Runs : Alive(r) => slot.state = "running" /\ slot.run = r
         /\ pc = "start" => slot.state # "running"

\* A run not started yet has left no trace anywhere.
Virgin == \A r \in Runs : child[r].at = "unborn" =>
            /\ r \notin stopped /\ told[r] = Never /\ slot.run # r /\ child[r].code = NoCode

\* A child that returned zero had written its report to the end.
Whole == \A r \in Runs : /\ child[r].at \in {"whole", "marked"} => child[r].report = "whole"
                         /\ child[r].code = 0 => child[r].at = "gone" /\ child[r].report = "whole"

\* What the slot says of its run agrees with what was answered about it.
Agrees == /\ slot.run \in stopped => slot.cancelled
          /\ slot.state = "finished" /\ slot.ok => child[slot.run].code = 0 /\ ~slot.cancelled
          /\ slot.state = "finished" => ~Alive(slot.run) /\ slot.exited # Never
          /\ pc \in {"settle", "settle to start"} => slot.exited # Never
          /\ pc \in {"kill", "kill and close"} => slot.cancelled
          /\ slot.exited # Never => slot.exited <= now
          /\ slot.run # NoRun /\ told[slot.run] # Never
             => slot.exited # Never /\ slot.exited <= told[slot.run]

IInv == TypeOK /\ Owned /\ Virgin /\ Whole /\ Agrees

USE RegistryAssumption

LEMMA InitInv == Init => IInv
  BY DEF Init, IInv, TypeOK, Owned, Virgin, Whole, Agrees, Alive, Unborn, EmptySlot, Stages

-----------------------------------------------------------------------------
\* Every step of a child keeps the invariant: no request is involved.
LEMMA ChildInv ==
  ASSUME IInv, NEW r \in Runs, ChildStep(r)
  PROVE  IInv'
<1> USE DEF IInv, Stages, Alive
<1> DEFINE Later == [at : Stages \ {"unborn"}, code : {0, 1, NoCode},
                     report : {"none", "torn", "whole"}, scratch : BOOLEAN]
           Honest(c) == /\ c.at \in {"whole", "marked"} => c.report = "whole"
                        /\ c.code = 0 => c.at = "gone" /\ c.report = "whole"
<1>a. child[r] \in [at : Stages, code : {0, 1, NoCode},
                     report : {"none", "torn", "whole"}, scratch : BOOLEAN]
  BY DEF TypeOK
<1>b. Honest(child[r]) BY DEF Whole
<1>d. Alive(r) /\ UNCHANGED <<pc, slot, now, errors, told, stopped>>
  BY DEF ChildStep, Measure, CreateReport, FillReport, MarkEnd, Succeed, Fail, Die, Exit
<1>0. \E c \in Later : Honest(c) /\ child' = [child EXCEPT ![r] = c]
  <2> DEFINE Becomes(c) == c \in Later /\ Honest(c) /\ child' = [child EXCEPT ![r] = c]
  <2>1. CASE Measure(r)
    <3>1. Becomes([child[r] EXCEPT !.at = "measured", !.scratch = FALSE])
      BY <1>a, <1>b, <2>1 DEF Measure
    <3> QED BY <3>1
  <2>2. CASE CreateReport(r)
    <3>1. Becomes([child[r] EXCEPT !.at = "torn", !.report = "torn"])
      BY <1>a, <1>b, <2>2 DEF CreateReport
    <3> QED BY <3>1
  <2>3. CASE FillReport(r)
    <3>1. Becomes([child[r] EXCEPT !.at = "whole", !.report = "whole"])
      BY <1>a, <1>b, <2>3 DEF FillReport
    <3> QED BY <3>1
  <2>4. CASE MarkEnd(r)
    <3>1. Becomes([child[r] EXCEPT !.at = "marked"]) BY <1>a, <1>b, <2>4 DEF MarkEnd
    <3> QED BY <3>1
  <2>5. ASSUME NEW code \in {0, 1, NoCode}, NEW from \in SUBSET Stages, Exit(r, code, from),
               code = 0 => from = {"marked"}
        PROVE  \E c \in Later : Honest(c) /\ child' = [child EXCEPT ![r] = c]
    <3>1. Becomes([child[r] EXCEPT !.at = "gone", !.code = code,
                                   !.scratch = IF code = NoCode THEN @ ELSE FALSE])
      BY <1>a, <1>b, <2>5, ZenonT(40) DEF Exit
    <3> QED BY <3>1
  <2>6. CASE Succeed(r) BY <2>5, <2>6 DEF Succeed
  <2>7. CASE Fail(r) BY <2>5, <2>7 DEF Fail
  <2>8. CASE Die(r) BY <2>5, <2>8 DEF Die
  <2> QED BY <2>1, <2>2, <2>3, <2>4, <2>6, <2>7, <2>8 DEF ChildStep
<1>c. PICK c \in Later : Honest(c) /\ child' = [child EXCEPT ![r] = c] BY <1>0
<1>1. TypeOK'
  <2>1. child' \in [Runs -> [at : Stages, code : {0, 1, NoCode},
                             report : {"none", "torn", "whole"}, scratch : BOOLEAN]]
    BY <1>c DEF TypeOK
  <2> QED BY <1>d, <2>1 DEF TypeOK
<1>2. Owned' BY <1>d, <1>c DEF Owned, TypeOK
<1>3. Virgin'
  <2> SUFFICES ASSUME NEW q \in Runs, child'[q].at = "unborn"
               PROVE  /\ q \notin stopped /\ told[q] = Never /\ slot.run # q
                      /\ child'[q].code = NoCode
    BY <1>d DEF Virgin
  <2>1. q # r /\ child'[q] = child[q] BY <1>c DEF TypeOK
  <2> QED BY <2>1 DEF Virgin
<1>4. Whole'
  <2> SUFFICES ASSUME NEW q \in Runs PROVE Honest(child'[q]) BY DEF Whole
  <2>1. CASE q = r BY <2>1, <1>c DEF TypeOK
  <2>2. CASE q # r
    <3>1. child'[q] = child[q] BY <2>2, <1>c DEF TypeOK
    <3> QED BY <3>1 DEF Whole
  <2> QED BY <2>1, <2>2
<1>5. Agrees' BY <1>d, <1>c DEF Agrees, Owned, TypeOK
<1> QED BY <1>1, <1>2, <1>3, <1>4, <1>5

-----------------------------------------------------------------------------
\* Every step of the server thread keeps it.
LEMMA RequestInv ==
  ASSUME IInv, Request
  PROVE  IInv'
<1> USE DEF IInv, Stages, Alive, TypeOK, Owned, Virgin, Whole, Agrees
<1>1. CASE StartBusy BY <1>1 DEF StartBusy, vars
<1>2. CASE StartSettles
  <2> USE <1>2 DEF StartSettles
  <2> HIDE DEF Owned, Virgin, Whole, Agrees
  <2>0. errors' \in 0..MaxErrors
    <3>1. errors \in 0..MaxErrors OBVIOUS
    <3>2. errors' = errors \/ (errors < MaxErrors /\ errors' = errors + 1)
      BY ONLY <1>2 DEF StartSettles, Seen, Unknowable
    <3> QED BY ONLY <3>1, <3>2, RegistryAssumption
  <2>1. /\ slot.run \in Runs
        /\ slot' \in [state : {"running"}, run : Runs, cancelled : BOOLEAN,
                      exited : 0..MaxTime, ok : BOOLEAN]
        /\ slot'.run = slot.run /\ slot'.cancelled = slot.cancelled
        /\ slot'.exited = IF slot.exited = Never THEN now ELSE slot.exited
    BY DEF Stamp
  <2>2. TypeOK' BY <2>0, <2>1
  <2>3. Owned' /\ Virgin' /\ Whole' BY <2>1, ZenonT(40) DEF Owned, Virgin, Whole
  <2>4. Agrees'
    <3>1. /\ now \in 0..MaxTime /\ slot.exited \in (0..MaxTime) \cup {Never}
          /\ slot.run # NoRun
      OBVIOUS
    <3>2. Agrees OBVIOUS
    <3>3. /\ pc' = "settle to start" /\ UNCHANGED <<child, now, told, stopped>>
          /\ slot.state = "running"
      OBVIOUS
    <3>4. slot'.exited # Never /\ slot'.exited <= now
      <4>1. CASE slot.exited = Never
        <5>1. slot'.exited = now BY ONLY <4>1, <2>1
        <5> QED BY ONLY <5>1, <3>1, RegistryAssumption
      <4>2. CASE slot.exited # Never BY <4>2, <3>2, <2>1 DEF Agrees
      <4> QED BY <4>1, <4>2
    <3>5. told[slot.run] # Never => slot'.exited <= told[slot.run]
      BY <2>1, <3>1, <3>2 DEF Agrees
    <3> HIDE DEF TypeOK, Stages, StartSettles, IInv
    <3> QED BY <2>1, <3>1, <3>2, <3>3, <3>4, <3>5 DEF Agrees
  <2> QED BY <2>2, <2>3, <2>4
<1>3. CASE StartAfresh BY <1>3 DEF StartAfresh
<1>4. CASE LaunchFails BY <1>4 DEF LaunchFails
<1>5. ASSUME NEW r \in Runs, Launch(r) PROVE IInv'
  <2> USE <1>5 DEF Launch
  <2> HIDE DEF Owned, Virgin, Whole, Agrees, Stages
  <2>0. child'[r] \in [at : Stages, code : {0, 1, NoCode},
                       report : {"none", "torn", "whole"}, scratch : BOOLEAN]
    BY ZenonT(40) DEF Stages
  <2>1. child' \in [Runs -> [at : Stages, code : {0, 1, NoCode},
                             report : {"none", "torn", "whole"}, scratch : BOOLEAN]]
    BY <2>0
  <2>2. TypeOK' BY <2>1 DEF EmptySlot
  <2>3. Owned' BY DEF EmptySlot, Owned
  <2>4. Virgin' BY DEF EmptySlot, Virgin
  <2>5. Whole' BY DEF Whole
  <2>6. Agrees' BY DEF EmptySlot, Virgin, Agrees
  <2> QED BY <2>2, <2>3, <2>4, <2>5, <2>6
<1>6. CASE Poll BY <1>6 DEF Poll, Seen, Unknowable, Stamp
<1>7. CASE Conclude BY <1>7 DEF Conclude, Finished, Tell
<1>8. CASE CancelTooLate BY <1>8 DEF CancelTooLate, Seen, Unknowable, Stamp, Tell
<1>9. CASE Cancel BY <1>9 DEF Cancel, Silent
<1>10. CASE Kill BY <1>10 DEF Kill, Killed
<1>11. CASE ShutdownIdle BY <1>11 DEF ShutdownIdle, Seen, Unknowable, Stamp
<1>12. CASE ShutdownKills BY <1>12 DEF ShutdownKills, Silent
<1>13. CASE LastKill
  <2> USE <1>13 DEF LastKill, Killed
  <2> HIDE DEF Owned, Virgin, Whole, Agrees, Stages
  <2>0. slot.run \in Runs OBVIOUS
  <2>k. child[slot.run] \in [at : Stages, code : {0, 1, NoCode},
                             report : {"none", "torn", "whole"}, scratch : BOOLEAN]
    BY <2>0
  <2>1. child' \in [Runs -> [at : Stages, code : {0, 1, NoCode},
                             report : {"none", "torn", "whole"}, scratch : BOOLEAN]]
    BY <2>0, <2>k DEF Stages
  <2>2. TypeOK' BY <2>1
  <2>3. Owned' BY DEF Owned
  <2>4. Virgin'
    <3>1. \A q \in Runs : child'[q].at = "unborn" => child'[q] = child[q] BY <2>0, <2>k
    <3> QED BY <3>1 DEF Virgin
  <2>5. Whole'
    <3>1. \A q \in Runs : \/ child'[q] = child[q]
                          \/ child'[q].at = "gone" /\ child'[q].code = NoCode
      BY <2>0, <2>k
    <3>2. NoCode # 0 OBVIOUS
    <3>3. Whole OBVIOUS
    <3> HIDE DEF LastKill, Killed, Alive, TypeOK, IInv
    <3> QED BY <3>1, <3>2, <3>3 DEF Whole
  <2>6. Agrees' BY DEF Agrees
  <2> QED BY <2>2, <2>3, <2>4, <2>5, <2>6
<1> QED
  BY <1>1, <1>2, <1>3, <1>4, <1>5, <1>6, <1>7, <1>8, <1>9, <1>10, <1>11, <1>12, <1>13
  DEF Request

LEMMA NextInv == IInv /\ [Next]_vars => IInv'
<1> SUFFICES ASSUME IInv, [Next]_vars PROVE IInv' OBVIOUS
<1>1. CASE Request BY <1>1, RequestInv
<1>2. CASE Tick
  <2> USE <1>2 DEF Tick, IInv
  <2>0. now \in 0..MaxTime /\ slot.exited \in (0..MaxTime) \cup {Never} BY DEF TypeOK
  <2>n. now' \in 0..MaxTime /\ now <= now' BY <2>0
  <2>1. TypeOK' BY <2>n DEF TypeOK
  <2>2. Owned' /\ Virgin' /\ Whole' BY DEF Owned, Virgin, Whole, Alive
  <2>3. Agrees'
    <3>1. slot.exited # Never => slot.exited <= now'
      <4> SUFFICES ASSUME slot.exited # Never PROVE slot.exited <= now' OBVIOUS
      <4>1. slot.exited \in 0..MaxTime /\ slot.exited <= now BY <2>0 DEF Agrees
      <4> QED BY ONLY <4>1, <2>0, <2>n, RegistryAssumption
    <3> QED BY <3>1 DEF Agrees, Alive
  <2> QED BY <2>1, <2>2, <2>3
<1>3. CASE \E r \in Runs : ChildStep(r) BY <1>3, ChildInv
<1>4. CASE UNCHANGED vars
  BY <1>4 DEF vars, IInv, TypeOK, Owned, Virgin, Whole, Agrees, Alive
<1> QED BY <1>1, <1>2, <1>3, <1>4 DEF Next

\* The strengthened invariant holds in every reachable state.
THEOREM Inductive == Spec => []IInv
<1>1. Init => IInv BY InitInv
<1>2. IInv /\ [Next]_vars => IInv' BY NextInv
<1> QED BY <1>1, <1>2, PTL DEF Spec

-----------------------------------------------------------------------------
\* Two benchmarks never run together, whatever the operating system fails to answer.
THEOREM NeverTwo == Spec => []OneAtATime
<1>1. IInv => OneAtATime BY DEF IInv, Owned, OneAtATime
<1> QED BY <1>1, Inductive, PTL

\* A success is a complete report.
THEOREM SuccessIsWhole == Spec => []OkMeansWhole
<1>1. IInv => OkMeansWhole
  BY DEF IInv, TypeOK, Agrees, Whole, OkMeansWhole
<1> QED BY <1>1, Inductive, PTL

\* A run the page stopped is not reported as a success.
THEOREM StopIsFinal == Spec => []StoppedIsNoSuccess
<1>1. IInv => StoppedIsNoSuccess BY DEF IInv, TypeOK, Agrees, StoppedIsNoSuccess
<1> QED BY <1>1, Inductive, PTL

\* A finished run's end is no later than the first answer that said it was over.
THEOREM EndIsFirstSight == Spec => []EndedWhenSeen
<1>1. IInv => EndedWhenSeen BY DEF IInv, TypeOK, Agrees, EndedWhenSeen
<1> QED BY <1>1, Inductive, PTL

\* What a finished run is reported as is what happened to it.
THEOREM FinishedIsTrue == Spec => []FinishedTellsTheTruth
<1>1. OkMeansWhole /\ StoppedIsNoSuccess /\ EndedWhenSeen => FinishedTellsTheTruth
  BY DEF FinishedTellsTheTruth
<1> QED BY <1>1, SuccessIsWhole, StopIsFinal, EndIsFirstSight, PTL

\* No step takes a run out of the slot except for its own outcome.
THEOREM OutcomeKept == Spec => OutcomeFirst
<1>1. IInv /\ [Next]_vars =>
        [\A r \in Runs : Busy(r) => slot'.run = r /\ slot'.state \in {"running", "finished"}]_vars
  <2> SUFFICES ASSUME IInv, Next, NEW r \in Runs, Busy(r)
               PROVE  slot'.run = r /\ slot'.state \in {"running", "finished"}
    OBVIOUS
  <2> USE DEF IInv, TypeOK, Owned, Busy
  <2>1. CASE Request
    BY <2>1 DEF Request, StartBusy, StartSettles, StartAfresh, LaunchFails, Launch, Poll,
       Conclude, CancelTooLate, Cancel, Kill, ShutdownIdle, ShutdownKills, LastKill,
       Stamp, Finished, vars
  <2>2. CASE Tick BY <2>2 DEF Tick
  <2>3. CASE \E s \in Runs : ChildStep(s)
    BY <2>3 DEF ChildStep, Measure, CreateReport, FillReport, MarkEnd, Succeed, Fail, Die, Exit
  <2> QED BY <2>1, <2>2, <2>3 DEF Next
<1> QED BY <1>1, Inductive, PTL DEF Spec, OutcomeFirst

\* Nobody comes alive but by being launched, and no failed call is taken back.
LEMMA Births ==
  ASSUME IInv, Next
  PROVE  /\ errors \in Nat /\ errors' \in Nat /\ errors <= errors'
         /\ pc = "start" \/ \A r \in Runs : Alive(r)' => Alive(r)
<1>0. pc \in {"kill", "kill and close"} => slot.run \in Runs BY DEF IInv, TypeOK
<1>1. errors \in Nat
  <2>1. errors \in 0..MaxErrors BY DEF IInv, TypeOK
  <2> QED BY ONLY <2>1, RegistryAssumption
<1>2. CASE Request
  <2>1. errors' = errors \/ errors' = errors + 1
    BY <1>2 DEF Request, StartBusy, StartSettles, StartAfresh, LaunchFails, Launch, Poll,
       Conclude, CancelTooLate, Cancel, Kill, ShutdownIdle, ShutdownKills, LastKill, Seen,
       Unknowable, Silent, vars
  <2>2. \/ pc = "start" \/ child' = child
        \/ pc \in {"kill", "kill and close"} /\ child' = Killed
    BY <1>2 DEF Request, StartBusy, StartSettles, StartAfresh, LaunchFails, Launch, Poll,
       Conclude, CancelTooLate, Cancel, Kill, ShutdownIdle, ShutdownKills, LastKill, vars
  <2>3. slot.run \in Runs /\ child' = Killed => \A r \in Runs : Alive(r)' => Alive(r)
    BY DEF Killed, Alive, IInv, TypeOK
  <2>4. pc = "start" \/ \A r \in Runs : Alive(r)' => Alive(r)
    BY <1>0, <2>2, <2>3 DEF Alive
  <2> QED BY ONLY <1>1, <2>1, <2>4
<1>3. CASE Tick
  <2>1. errors' = errors /\ child' = child BY <1>3 DEF Tick
  <2>2. \A r \in Runs : Alive(r)' => Alive(r) BY ONLY <2>1 DEF Alive
  <2> QED BY ONLY <1>1, <2>1, <2>2
<1>4. CASE \E q \in Runs : ChildStep(q)
  <2>1. PICK q \in Runs : ChildStep(q) BY <1>4
  <2>2. errors' = errors
    BY <2>1 DEF ChildStep, Measure, CreateReport, FillReport, MarkEnd, Succeed, Fail, Die, Exit
  <2>3. Alive(q)
    BY <2>1 DEF ChildStep, Measure, CreateReport, FillReport, MarkEnd, Succeed, Fail, Die, Exit, Alive, Stages
  <2>4. \A r \in Runs : r # q => child'[r] = child[r]
    BY <2>1 DEF ChildStep, Measure, CreateReport, FillReport, MarkEnd, Succeed, Fail, Die, Exit,
       IInv, TypeOK
  <2>5. \A r \in Runs : Alive(r)' => Alive(r) BY <2>3, <2>4 DEF Alive
  <2> QED BY ONLY <1>1, <2>2, <2>5
<1> QED BY <1>2, <1>3, <1>4 DEF Next

\* Where the operating system has answered every question, no benchmark is left running by a
\* dashboard that has stopped serving: the last request finds the slot's child and kills it,
\* and no other is alive.
THEOREM NobodyOutlives == Spec => []NoneOutlives
<1>1. Init => NoneOutlives BY DEF Init, NoneOutlives
<1>2. IInv /\ NoneOutlives /\ [Next]_vars => NoneOutlives'
  <2> SUFFICES ASSUME IInv, NoneOutlives, Next, pc' = "closed", errors' = 0, NEW r \in Runs, Alive(r)'
               PROVE  FALSE
    <3>1. NoneOutlives /\ UNCHANGED vars => NoneOutlives' BY DEF NoneOutlives, vars, Alive
    <3> QED BY <3>1 DEF NoneOutlives
  <2>1. errors = 0 BY Births
  <2>2. CASE pc = "closed"
    <3>1. Alive(r) BY <2>2, Births
    <3> QED BY <2>1, <2>2, <3>1 DEF NoneOutlives
  <2>3. CASE pc # "closed"
    <3>1. ShutdownIdle \/ LastKill
      BY <2>3 DEF Next, Request, StartBusy, StartSettles, StartAfresh, LaunchFails, Launch, Poll,
         Conclude, CancelTooLate, Cancel, Kill, ShutdownKills, Tick, ChildStep, Measure,
         CreateReport, FillReport, MarkEnd, Succeed, Fail, Die, Exit, vars
    <3>2. Alive(r)
      <4>1. pc # "start" BY <3>1 DEF ShutdownIdle, LastKill
      <4> QED BY <4>1, Births
    <3>3. slot.state = "running" /\ slot.run = r BY <3>2 DEF IInv, Owned
    <3>4. CASE ShutdownIdle
      <4>1. Unknowable BY <3>2, <3>3, <3>4 DEF ShutdownIdle, Seen
      <4>2. errors' = 1 BY <2>1, <4>1 DEF Unknowable
      <4> QED BY ONLY <4>2, errors' = 0
    <3>5. CASE LastKill
      <4>1. child' = [child EXCEPT ![r].at = "gone", ![r].code = NoCode]
        BY <3>2, <3>3, <3>5 DEF LastKill, Killed
      <4>2. child \in [Runs -> [at : Stages, code : {0, 1, NoCode},
                                report : {"none", "torn", "whole"}, scratch : BOOLEAN]]
        BY DEF IInv, TypeOK
      <4>3. child[r] \in [at : Stages, code : {0, 1, NoCode},
                          report : {"none", "torn", "whole"}, scratch : BOOLEAN]
        BY <4>2
      <4>4. child'[r].at = "gone" BY ONLY <4>1, <4>2, <4>3, r \in Runs
      <4>5. Alive(r)' => child'[r].at # "gone" BY ONLY DEF Alive
      <4> QED BY <4>4, <4>5
    <3> QED BY <3>1, <3>4, <3>5
  <2> QED BY <2>2, <2>3
<1> QED BY <1>1, <1>2, Inductive, PTL DEF Spec
=============================================================================
