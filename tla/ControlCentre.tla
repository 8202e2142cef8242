--------------------------- MODULE ControlCentre ---------------------------
(***************************************************************************)
(* `agentbench control`: one thread that takes a key, does what it asks and*)
(* draws again (ui/control/mod.rs), over the settings file, the login task *)
(* and the collected data.  Only the row that erases asks before it acts.  *)
(*                                                                         *)
(* Fields are the rows of the instance, in order; MaxChanges bounds the    *)
(* changes made from the screen, MaxElsewhere what happens outside of it;  *)
(* ConfirmWindow is in ticks of the loop.                                  *)
(***************************************************************************)
EXTENDS Settings, LoginTask, Sequences

CONSTANTS Fields, MaxChanges, MaxElsewhere, ConfirmWindow, NoRow

Toggles == {"RunAtLogin", "StartInTray"}
Values == {"LoginDelay", "SampleInterval", "SampleIntervalIdle", "ServerPort"}
Actions == {"EraseCollectedData"}

ASSUME ControlAssumption ==
    /\ Fields \in Seq(Toggles \cup Values \cup Actions) /\ Fields # <<>>
    /\ MaxChanges \in Nat /\ MaxElsewhere \in Nat /\ ConfirmWindow \in Nat \ {0}
    /\ NoRow \notin Toggles \cup Values \cup Actions

VARIABLES selected, editing,
          armed,      \* the row that waits for a second Enter, and for how long
          changes,    \* changes asked for so far
          collecting,                     \* a daemon runs
          database,                       \* which of its Files there are
          switches,                       \* how often one started or stopped
          daemonRunning, databaseBytes,   \* as last read: one runs; watch.db is there
          erasing,    \* the file reset_collected_data is about to remove; 0: none
          asked       \* ticks since the last key, if it was an Enter on the row
                      \* that erases; else ConfirmWindow

screen == <<selected, editing, armed, changes, daemonRunning, databaseBytes, erasing, asked>>
world == <<collecting, database, switches>>
vars == <<phase, settings, login, screen, world>>

\* The database and its two companions, in the order they are removed.
Files == <<"db", "wal", "shm">>
AllFiles == {Files[i] : i \in 1..3}

Field == Fields[selected]
Neighbours == {selected, (selected % Len(Fields)) + 1,
               ((selected + Len(Fields) - 2) % Len(Fields)) + 1}
Disarmed == [field |-> NoRow, age |-> 0]

Init == /\ SettingsInit /\ LoginInit
        /\ phase = "closed" /\ selected = 1 /\ editing = FALSE /\ armed = Disarmed
        /\ changes = 0 /\ collecting = FALSE /\ switches = 0
        /\ database \in {{}, {"db"}, AllFiles}
        /\ daemonRunning = FALSE /\ databaseBytes = FALSE /\ erasing = 0
        /\ asked = ConfirmWindow

\* The loop takes a key: it is idle, with the editor open or not.
Takes(name, open) == /\ phase = "keys" /\ ~pending /\ erasing = 0 /\ editing = open
                     /\ asked' = IF name = "enter" /\ Field = "EraseCollectedData"
                                   THEN 0 ELSE ConfirmWindow

-----------------------------------------------------------------------------
(* Opening and leaving the screen.                                         *)

ReadVolatile == daemonRunning' = collecting /\ databaseBytes' = ("db" \in database)

FreshScreen == /\ selected' = 1 /\ editing' = FALSE /\ armed' = Disarmed
               /\ erasing' = 0 /\ asked' = ConfirmWindow
               /\ UNCHANGED changes

Open == /\ LoadFile \/ FillFile
        /\ ReadLogin /\ ReadVolatile /\ FreshScreen /\ UNCHANGED world

FirstRun == CreateFile /\ UNCHANGED <<login, screen, world>>

\* `q`, or the process is killed, whatever it is doing.
Leave == /\ phase # "closed" /\ phase' = "closed"
         /\ UNCHANGED <<settings, login, screen, world>>

-----------------------------------------------------------------------------
(* Keys while no value is edited.                                          *)

\* Whatever else a key does, it disarms, unless it is Enter.  Space on a row that is
\* no toggle, and a toggle that is unavailable, do just that.
Move == /\ Takes("move", FALSE) /\ armed' = Disarmed
        /\ selected' \in Neighbours
        /\ UNCHANGED <<phase, settings, login, editing, changes,
                       daemonRunning, databaseBytes, erasing, world>>

ReloadKey == /\ Takes("reload", FALSE) /\ armed' = Disarmed
             /\ Reload /\ ReadLogin /\ ReadVolatile
             /\ UNCHANGED <<phase, selected, editing, changes, erasing, world>>

\* A change asked of the scheduler.
Changes == changes < MaxChanges /\ changes' = changes + 1

Toggle == /\ \E key \in {"space", "enter"} : Takes(key, FALSE)
          /\ Field \in Toggles /\ Changes /\ armed' = Disarmed
          /\ \/ Field = "RunAtLogin" /\ ToggleRunAtLogin
             \/ Field = "StartInTray" /\ ToggleStartInTray
          /\ UNCHANGED <<phase, settings, selected, editing, daemonRunning, databaseBytes,
                         erasing, world>>

StartEditing == /\ Takes("enter", FALSE) /\ Field \in Values /\ editing' = TRUE
                /\ UNCHANGED <<phase, settings, login, selected, armed, changes,
                               daemonRunning, databaseBytes, erasing, world>>

\* unavailable, for the row that erases.
Erasable == ~daemonRunning /\ databaseBytes

\* The first Enter arms the row; one that comes too late arms it again.
Arm == /\ Takes("enter", FALSE) /\ Field = "EraseCollectedData" /\ Erasable
       /\ ~(armed.field = Field /\ armed.age < ConfirmWindow)
       /\ armed' = [field |-> Field, age |-> 0]
       /\ UNCHANGED <<phase, settings, login, selected, editing, changes,
                      daemonRunning, databaseBytes, erasing, world>>

\* reset_collected_data probes the lock again, and gives it back.
Erase == /\ Takes("enter", FALSE) /\ Field = "EraseCollectedData"
         /\ \/ ~Erasable
            \/ armed.field = Field /\ armed.age < ConfirmWindow
         /\ armed' = Disarmed
         /\ erasing' = IF Erasable /\ ~collecting THEN 1 ELSE 0
         /\ UNCHANGED <<phase, settings, login, selected, editing, changes,
                        daemonRunning, databaseBytes, world>>

\* The files go one by one, whoever has started meanwhile; one that cannot be removed
\* ends the attempt, and the rows then show what they did.
RemoveFile ==
  /\ phase = "keys" /\ erasing # 0
  /\ \/ /\ database' = database \ {Files[erasing]}
        /\ erasing' = IF erasing = 3 THEN 0 ELSE erasing + 1
        /\ databaseBytes' = (databaseBytes /\ erasing # 3)
     \/ /\ Files[erasing] \in database /\ erasing' = 0
        /\ UNCHANGED <<database, databaseBytes>>
  /\ UNCHANGED <<phase, settings, login, selected, editing, armed, changes,
                 daemonRunning, asked, collecting, switches>>

-----------------------------------------------------------------------------
(* The editor.  An unreadable entry changes nothing.                       *)

Abandon == /\ Takes("edit", TRUE) /\ editing' = FALSE
           /\ UNCHANGED <<phase, settings, login, selected, armed, changes,
                          daemonRunning, databaseBytes, erasing, world>>

Commit == /\ Takes("commit", TRUE) /\ editing' = FALSE /\ Changes
          /\ \/ /\ Field = "LoginDelay" /\ CommitLoginDelay
                /\ UNCHANGED <<phase, settings>>
             \/ /\ \/ Field = "SampleInterval" /\ \E d \in Durations : Change("sample", d)
                   \/ Field = "SampleIntervalIdle" /\ \E d \in Durations : Change("idle", d)
                   \/ Field = "ServerPort" /\ \E p \in Ports : Change("port", p)
                /\ UNCHANGED login
          /\ UNCHANGED <<selected, armed, daemonRunning, databaseBytes, erasing, world>>

-----------------------------------------------------------------------------
(* What the key began goes on; the clock and the rest of the machine.      *)

Saves == (Stage \/ Replace \/ SaveFails) /\ UNCHANGED <<login, screen, world>>

ReadsTaskAgain == phase = "keys" /\ Reread /\ UNCHANGED <<phase, settings, screen, world>>

\* A turn of the loop: time passes, and the status band is read when it is due.
Tick == /\ phase = "keys" /\ ~pending /\ erasing = 0
        /\ armed' = [armed EXCEPT !.age = IF armed.field = NoRow \/ @ = ConfirmWindow
                                            THEN @ ELSE @ + 1]
        /\ asked' = IF asked = ConfirmWindow THEN asked ELSE asked + 1
        /\ ReadVolatile \/ UNCHANGED <<daemonRunning, databaseBytes>>
        /\ UNCHANGED <<phase, settings, login, selected, editing, changes, erasing, world>>

Elsewhere ==
  /\ edits + foreign + switches < MaxElsewhere
  /\ \/ Edit /\ UNCHANGED <<phase, login, world>>
     \/ ChangeTask /\ UNCHANGED <<phase, settings, world>>
     \/ /\ collecting' = ~collecting /\ switches' = switches + 1
        /\ database' \in IF collecting' THEN {AllFiles}
                         ELSE {database, database \cap {"db"}}
        /\ UNCHANGED <<phase, settings, login>>
  /\ UNCHANGED screen

ElevatedDeletion == DeleteLate /\ UNCHANGED <<phase, settings, screen, world>>

Next == \/ Open \/ FirstRun \/ Leave
        \/ Move \/ ReloadKey \/ Toggle \/ StartEditing \/ Arm \/ Erase \/ RemoveFile
        \/ Abandon \/ Commit \/ Saves \/ ReadsTaskAgain \/ Tick
        \/ Elsewhere \/ ElevatedDeletion

Spec == Init /\ [][Next]_vars

-----------------------------------------------------------------------------
\* No file of the database goes away but in an attempt to erase, except where a daemon
\* that stops tidies up; and an attempt begins only with an Enter on the row that erases,
\* when the key before it was an Enter on that row too and not too long ago, and at a
\* moment when no daemon collects.  (One that starts during the attempt is not spared.)
EraseIsConfirmed ==
  [][/\ ~(database \subseteq database') /\ switches' = switches => erasing # 0
     /\ erasing = 0 /\ erasing' # 0 =>
          asked < ConfirmWindow /\ asked' = 0 /\ ~collecting]_vars

=============================================================================
