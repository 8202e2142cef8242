----------------------------- MODULE LoginTask -----------------------------
(***************************************************************************)
(* The login task and the three rows that describe it (ui/control/model.rs,*)
(* apply.rs; install/windows/task.rs is the scheduler's side): a row that  *)
(* changes the task runs schtasks, which may refuse, and then reads the    *)
(* task again, which may fail.  Another session may change it in between,  *)
(* and so may the deletion this program asked for, elevated, and stopped   *)
(* waiting for.                                                            *)
(*                                                                         *)
(* Delays count half seconds; MaxForeign bounds the changes of others.     *)
(***************************************************************************)
EXTENDS Naturals

CONSTANTS Delays, DefaultDelay,
          MaxDelay,        \* the longest delay a task can be read back with
          MaxForeign,
          Unclear,         \* a delay in a form parse_delay does not know
          NoTask, Unreadable

Task == [tray : BOOLEAN, delay : Nat \cup {Unclear}]
Autostart == [tray : BOOLEAN, delay : Delays \cup {Unclear}]

ASSUME LoginAssumption == /\ Delays \subseteq Nat /\ {0, DefaultDelay} \subseteq Delays
                          /\ Unclear \notin Nat
                          /\ MaxDelay \in Nat /\ MaxForeign \in Nat
                          /\ NoTask # Unreadable
                          /\ {NoTask, Unreadable} \cap Task = {}

VARIABLES task,      \* what the scheduler has registered
          autostart, \* State.autostart, the last reading of it
          choice,    \* State.start_in_tray and login_delay
          buildTree, \* State.origin: running from a build directory
          pending,   \* a change was tried and the task is not read again yet
          leaving,   \* an elevated deletion is out that nobody waits for
          foreign, seen   \* changes by other programs so far; at the last reading

login == <<task, autostart, choice, buildTree, pending, leaving, foreign, seen>>

\* What autostart_state makes of a task: a delay it cannot parse counts as none.
Parsed(t) ==
  IF t = NoTask THEN NoTask ELSE [t EXCEPT !.delay = IF @ = Unclear THEN 0 ELSE @]

LoginInit ==
  /\ task \in {NoTask} \cup Autostart
  /\ buildTree \in BOOLEAN
  /\ autostart = Parsed(task)
  /\ pending = FALSE /\ leaving = FALSE /\ foreign = 0 /\ seen = 0
  /\ choice = IF task = NoTask THEN [tray |-> FALSE, delay |-> DefaultDelay] ELSE autostart

Enabled == autostart \notin {NoTask, Unreadable}

\* unavailable, for the three rows.
Usable == autostart # Unreadable /\ ~buildTree

\* autostart_state: the task, none, or a failure.
Answers == {Parsed(task), Unreadable}

\* recorded_choices: a reading that finds a task carries its settings with it.
Adopted(reading, otherwise) ==
  IF reading \in {NoTask, Unreadable} THEN otherwise ELSE reading

Reading(otherwise) == /\ autostart' \in Answers /\ seen' = foreign
                      /\ choice' = Adopted(autostart', otherwise)
                      /\ UNCHANGED <<task, buildTree, leaving, foreign>>

\* State::read, when the screen opens and on `r`.
ReadLogin == /\ Reading([tray |-> FALSE, delay |-> DefaultDelay])
             /\ pending' = FALSE

\* reread_autostart, after every attempt at a change.
Reread == /\ pending /\ pending' = FALSE
          /\ Reading(choice)

\* remove_elevated: a removal that was refused is asked for again, elevated, and given
\* up after ELEVATED_TIMEOUT while it may still be under way.
AskedElevated(wanted) ==
  leaving' \in {leaving, leaving \/ (wanted = NoTask /\ task' # NoTask)}

\* Mutant: the task is read again only if the change was made.
TryAndTrust(wanted) == /\ task' \in {task, wanted} /\ AskedElevated(wanted)
                       /\ pending' = (task' = wanted)

\* A refused registration or removal leaves what there was.
Try(wanted) == /\ task' \in {task, wanted} /\ AskedElevated(wanted)
               /\ pending' = TRUE

\* The task a choice becomes: its delay in whole seconds, and no longer than MaxDelay.
Desired(wanted) ==
  LET whole == wanted.delay - (wanted.delay % 2)
  IN  [wanted EXCEPT !.delay = IF whole > MaxDelay THEN MaxDelay ELSE whole]

\* enable_autostart(desired_autostart()), or disable_autostart.
ToggleRunAtLogin ==
  /\ Usable /\ ~pending
  /\ Try(IF Enabled THEN NoTask ELSE Desired(choice))
  /\ UNCHANGED <<autostart, choice, buildTree, foreign, seen>>

\* reregister: a choice is written into the task if there is one, else kept.
Choose(wanted) ==
  /\ Usable /\ ~pending
  /\ choice' = wanted
  /\ IF Enabled THEN Try(Desired(wanted)) ELSE UNCHANGED <<task, pending, leaving>>
  /\ UNCHANGED <<autostart, buildTree, foreign, seen>>

ToggleStartInTray == Choose([choice EXCEPT !.tray = ~@])
CommitLoginDelay == \E d \in Delays : Choose([choice EXCEPT !.delay = d])

\* Another control centre, an installer, the task scheduler's own window.
ChangeTask == /\ foreign < MaxForeign /\ foreign' = foreign + 1
              /\ task' \in ({NoTask} \cup Autostart) \ {task}
              /\ UNCHANGED <<autostart, choice, buildTree, pending, leaving, seen>>

\* The elevated schtasks comes to it, or fails: whatever task is there then.
DeleteLate == /\ leaving /\ leaving' = FALSE
              /\ task' \in {task, NoTask}
              /\ foreign' = IF task' = task THEN foreign ELSE foreign + 1
              /\ UNCHANGED <<autostart, choice, buildTree, pending, seen>>

\* Whatever was refused on the way, the rows describe the task that is there, as of
\* the last reading (adopt_autostart: a reading "also undoes an optimistic change whose
\* registration was refused"): whether there is one, its build, and its delay - except
\* that a delay in a form this program does not write is shown as none.
RowsDescribeTask ==
  ~pending /\ seen = foreign /\ autostart # Unreadable =>
    /\ Enabled <=> task # NoTask
    /\ task # NoTask => /\ autostart = choice /\ choice.tray = task.tray
                        /\ choice.delay = IF task.delay = Unclear THEN 0 ELSE task.delay

=============================================================================
