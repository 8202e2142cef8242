------------------------ MODULE ControlCentreProofs ------------------------
(***************************************************************************)
(* Theorems about ControlCentre: the rows of the settings agree with a     *)
(* saved file, the rows of the login task with the task, and nothing is    *)
(* erased unconfirmed - for any durations, delays, rows and bounds.        *)
(***************************************************************************)
EXTENDS ControlCentre, TLAPS

-----------------------------------------------------------------------------
(* The settings file.                                                      *)

\* The loader's clamp leaves what was clamped and cut to whole seconds as it is:
\* cutting does not undo the floor, and keeps the order of the two intervals.
LEMMA CutKeepsOrder ==
  ASSUME NEW s \in Nat, NEW i \in Nat, NEW active, NEW idle,
         active = Longer(s, SHORTEST_SAMPLE), idle = Longer(i, active)
  PROVE  /\ Longer(Text(active), SHORTEST_SAMPLE) = Text(active)
         /\ Longer(Text(idle), Text(active)) = Text(idle)
  BY SMTT(40) DEF Longer, Text, SHORTEST_SAMPLE

LEMMA ClampStays == ASSUME NEW d \in Draft PROVE Clamped(d) \in Draft
  BY SettingsAssumption, DurationsAssumption DEF Clamped, Longer, Draft

\* What the loader makes of a draft written into a document is what the rows show, and
\* of the values the loader reads there only that of the other key can be refused.
LEMMA WrittenIsShown ==
  ASSUME NEW doc \in Doc, NEW d \in Draft
  PROVE  LET after == Written(doc, Clamped(d))
         IN  /\ after \in Doc /\ (after.other # Garbled => after \in Loadable)
             /\ InForce(after) = Shown(Clamped(d))
<1> DEFINE c == Clamped(d)
           after == Written(doc, c)
<1>1. c \in Draft
  BY ClampStays
<1>2. after \in Doc /\ (after.other # Garbled => after \in Loadable)
  <2>1. /\ Text(c.sample) \in Durations /\ Text(c.idle) \in Durations
        /\ c.port \in Ports /\ doc.other \in Others \cup {Garbled}
    BY <1>1, DurationsAssumption DEF Doc, Draft
  <2> HIDE DEF c
  <2>2. /\ after \in Doc /\ after.sample = Text(c.sample) /\ after.idle = Text(c.idle)
        /\ after.port = c.port
    BY <2>1 DEF Written, Doc
  <2> HIDE DEF after
  <2> QED
    BY <2>1, <2>2 DEF Doc, Loadable
<1>3. /\ after.sample = Text(c.sample) /\ after.idle = Text(c.idle)
      /\ after.port = c.port
  BY DEF Written, Doc
<1>4. /\ c.sample = Longer(d.sample, SHORTEST_SAMPLE)
      /\ c.idle = Longer(d.idle, c.sample)
  BY DEF Clamped, Draft
<1>5. d.sample \in Nat /\ d.idle \in Nat
  BY SettingsAssumption DEF Draft
<1>6. /\ Longer(Text(c.sample), SHORTEST_SAMPLE) = Text(c.sample)
      /\ Longer(Text(c.idle), Text(c.sample)) = Text(c.idle)
  BY <1>4, <1>5, CutKeepsOrder
<1>7. InForce(after) = [sample |-> Text(c.sample), idle |-> Text(c.idle), port |-> c.port]
  BY <1>3, <1>6 DEF InForce, Clamped
<1> QED
  BY <1>2, <1>7 DEF Shown

\* What is staged is what the rows will show, and what was saved is what they show.
SettingsInv ==
  /\ config \in Draft /\ draft \in Draft
  /\ file \in Doc \cup {Absent, Broken}
  /\ phase = "staged" => /\ staged \in Doc /\ (staged.other # Garbled => staged \in Loadable)
                         /\ InForce(staged) = Shown(Clamped(draft))
  /\ SavedIsInForce

\* The steps of the whole that touch the settings are Settings' own; any other leaves
\* them, and the thread where it is, unless the screen is left.
SettingsStep ==
  \/ LoadFile \/ CreateFile \/ FillFile
  \/ Reload /\ UNCHANGED phase
  \/ \E k \in {"sample", "idle"}, d \in Durations : Change(k, d)
  \/ \E p \in Ports : Change("port", p)
  \/ Stage \/ Replace \/ SaveFails
  \/ Edit /\ UNCHANGED phase
  \/ UNCHANGED settings /\ phase' \in {phase, "closed"}

LEMMA Projects == Next => SettingsStep
<1> SUFFICES ASSUME Next PROVE SettingsStep
  OBVIOUS
<1>1. CASE Open \/ FirstRun
  <2>1. LoadFile \/ FillFile \/ CreateFile
    BY <1>1 DEF Open, FirstRun
  <2> QED
    BY <2>1 DEF SettingsStep
<1>7. CASE Saves
  <2>1. Stage \/ Replace \/ SaveFails
    BY <1>7 DEF Saves
  <2> QED
    BY <2>1 DEF SettingsStep
<1>2. CASE Leave
  BY <1>2 DEF Leave, SettingsStep
<1>3. CASE ReloadKey
  BY <1>3 DEF ReloadKey, SettingsStep
<1>4. CASE \/ Move \/ Toggle \/ StartEditing \/ Arm \/ Erase \/ RemoveFile \/ Abandon
           \/ ReadsTaskAgain \/ Tick \/ ElevatedDeletion
  BY <1>4 DEF Move, Toggle, StartEditing, Arm, Erase, RemoveFile, Abandon, ReadsTaskAgain,
              Tick, ElevatedDeletion, SettingsStep
<1>5. CASE Commit
  BY <1>5 DEF Commit, SettingsStep
<1>6. CASE Elsewhere
  BY <1>6 DEF Elsewhere, SettingsStep
<1> QED
  BY <1>1, <1>2, <1>3, <1>4, <1>5, <1>6, <1>7 DEF Next

LEMMA LoadableIsDoc == Loadable \subseteq Doc
  BY DEF Loadable, Doc

LEMMA InForceType == ASSUME NEW doc \in Loadable PROVE InForce(doc) \in Draft
<1>1. [sample |-> doc.sample, idle |-> doc.idle, port |-> doc.port] \in Draft
  BY DEF Loadable, Draft
<1> QED
  BY <1>1, ClampStays DEF InForce

LEMMA SettingsStart == Init => SettingsInv
<1>1. InForce(DefaultDoc) \in Draft
  BY InForceType, SettingsAssumption
<1> QED
  BY <1>1 DEF Init, SettingsInit, SettingsInv, SavedIsInForce

LEMMA SettingsKept == SettingsInv /\ SettingsStep => SettingsInv'
<1> SUFFICES ASSUME SettingsInv, SettingsStep PROVE SettingsInv'
  OBVIOUS
<1> USE DEF SettingsInv, SavedIsInForce
<1>1. CASE LoadFile
  BY <1>1, InForceType, LoadableIsDoc DEF LoadFile, Show
<1>2. CASE CreateFile
  BY <1>2, SettingsAssumption DEF CreateFile
<1>3. CASE FillFile
  BY <1>3, InForceType, LoadableIsDoc, SettingsAssumption DEF FillFile, Show
<1>4. CASE Reload /\ UNCHANGED phase
  BY <1>4 DEF Reload
<1>5. CASE \E k \in {"sample", "idle"}, d \in Durations : Change(k, d)
  BY <1>5 DEF Change, Draft
<1>6. CASE \E p \in Ports : Change("port", p)
  BY <1>6 DEF Change, Draft
<1>7. CASE Stage
  <2>1. staged' = Written(Source, Clamped(draft)) /\ Source \in Doc
    BY <1>7 DEF Stage
  <2>2. /\ staged' \in Doc /\ (staged'.other # Garbled => staged' \in Loadable)
        /\ InForce(staged') = Shown(Clamped(draft))
    BY <2>1, WrittenIsShown
  <2> QED
    BY <1>7, <2>2 DEF Stage, InForce, Shown, Clamped
<1>8. CASE Replace
  BY <1>8, ClampStays DEF Replace
<1>9. CASE SaveFails
  BY <1>9 DEF SaveFails, settings
<1>10. CASE Edit /\ UNCHANGED phase
  <2>1. file' \in Doc \cup {Absent, Broken}
    <3>1. CASE file' \in {Absent, Broken, DefaultDoc}
      BY <3>1, SettingsAssumption, LoadableIsDoc
    <3>2. CASE file \in Doc /\ file' \notin {Absent, Broken, DefaultDoc}
      <4>1. \/ \E d \in Durations \cup {Garbled} : file' = [file EXCEPT !.sample = d]
            \/ \E d \in Durations \cup {Garbled} : file' = [file EXCEPT !.idle = d]
            \/ \E p \in Ports \cup {Garbled} : file' = [file EXCEPT !.port = p]
            \/ \E o \in Others \cup {Garbled} : file' = [file EXCEPT !.other = o]
        BY <1>10, <3>2, Zenon DEF Edit
      <4> QED
        BY <3>2, <4>1 DEF Doc
    <3> QED
      BY <1>10, <3>1, <3>2 DEF Edit
  <2> QED
    BY <1>10, <2>1 DEF Edit
<1>11. CASE UNCHANGED settings /\ phase' \in {phase, "closed"}
  BY <1>11 DEF settings
<1> QED
  BY <1>1, <1>2, <1>3, <1>4, <1>5, <1>6, <1>7, <1>8, <1>9, <1>10, <1>11 DEF SettingsStep

\* A saved file, loaded, gives what the rows show, for any durations.
THEOREM RowsShowTheFile == Spec => []SavedIsInForce
<1>1. SettingsInv /\ UNCHANGED vars => SettingsInv'
  BY DEF SettingsInv, SavedIsInForce, vars, settings
<1>2. SettingsInv => SavedIsInForce
  BY DEF SettingsInv
<1> QED
  BY SettingsStart, Projects, SettingsKept, <1>1, <1>2, PTL DEF Spec

\* Clamping twice is clamping once, and so is cutting.
LEMMA Idempotent ==
  ASSUME NEW d \in Draft
  PROVE  Clamped(Clamped(d)) = Clamped(d) /\ Shown(Shown(d)) = Shown(d)
<1>1. d.sample \in Nat /\ d.idle \in Nat
  BY SettingsAssumption DEF Draft
<1>2. \A n \in Nat : Text(Text(n)) = Text(n)
  BY SMTT(40) DEF Text
<1>3. Shown(Shown(d)) = Shown(d)
  BY <1>1, <1>2 DEF Shown
<1>4. Clamped(Clamped(d)) = Clamped(d)
  BY <1>1, SMTT(40) DEF Clamped, Longer, SHORTEST_SAMPLE
<1> QED
  BY <1>3, <1>4

\* Draft d would leave key k as the file has it, if it were saved.
Leaves(d, k) == \/ k = "idle" /\ "sample" \in touched
                \/ Shown(Clamped(d))[k] = Shown(InForce(file))[k]

\* What nobody touched is in the draft, and in the configuration a reload returns to,
\* as it is in the file, while nobody else has written it.
RestInv ==
  /\ edits \in Nat /\ opened \in Nat /\ read \in Nat
  /\ opened <= edits /\ read <= edits
  /\ phase = "staged" /\ read = edits /\ file \in Doc => staged.other = file.other
  /\ phase \in {"keys", "save", "staged"} /\ opened = edits =>
       file \in Doc /\ \A k \in Keys \ touched : Leaves(draft, k) /\ Leaves(config, k)

LEMMA RestStart == Init => RestInv
  BY DEF Init, SettingsInit, RestInv

LEMMA RestKept == SettingsInv /\ RestInv /\ SettingsStep => RestInv'
<1> SUFFICES ASSUME SettingsInv, RestInv, SettingsStep PROVE RestInv'
  OBVIOUS
<1> USE DEF RestInv
<1>1. ASSUME file' \in Loadable, draft' = InForce(file'), config' = draft', phase' = "keys",
             touched' = {}, opened' = edits, UNCHANGED <<edits, read>>
      PROVE  RestInv'
  <2>1. InForce(file') \in Draft /\ Clamped(InForce(file')) = InForce(file')
    <3>1. PICK d \in Draft : InForce(file') = Clamped(d)
      BY <1>1 DEF InForce, Loadable, Draft
    <3> QED
      BY <3>1, Idempotent, ClampStays
  <2>2. \A k \in Keys : Leaves(draft, k)' /\ Leaves(config, k)'
    BY <1>1, <2>1 DEF Leaves
  <2> QED
    BY <1>1, <2>2, LoadableIsDoc
<1>2. CASE LoadFile
  BY <1>1, <1>2 DEF LoadFile, Show
<1>3. CASE CreateFile
  BY <1>3 DEF CreateFile
<1>4. CASE FillFile
  BY <1>1, <1>4, SettingsAssumption DEF FillFile, Show
<1>5. CASE Reload /\ UNCHANGED phase
  <2>1. \A k \in Keys : Leaves(config, k) => Leaves(draft, k)' /\ Leaves(config, k)'
    BY <1>5 DEF Reload, Leaves
  <2> QED
    BY <1>5, <2>1 DEF Reload
<1>6. ASSUME NEW c \in Keys, NEW value, Change(c, value) PROVE RestInv'
  <2>1. \A k \in Keys \ touched' : Leaves(config, k) => Leaves(config, k)'
    BY <1>6 DEF Change, Leaves
  <2>2. \A k \in Keys \ touched' : Leaves(draft, k) => Leaves(draft, k)'
    <3>1. draft \in Draft /\ draft' = [draft EXCEPT ![c] = value]
      BY <1>6 DEF Change, SettingsInv
    <3>2. ASSUME NEW k \in Keys \ touched', ~(k = "idle" /\ "sample" \in touched')
          PROVE  Shown(Clamped(draft'))[k] = Shown(Clamped(draft))[k]
      <4>1. CASE k = "sample"
        <5>1. draft'.sample = draft.sample
          BY <1>6, <3>1, <3>2, <4>1 DEF Change, Draft, Keys
        <5> QED
          BY <4>1, <5>1 DEF Shown, Clamped
      <4>2. CASE k = "port"
        <5>1. draft'.port = draft.port
          BY <1>6, <3>1, <3>2, <4>2 DEF Change, Draft, Keys
        <5> QED
          BY <4>2, <5>1 DEF Shown, Clamped
      <4>3. CASE k = "idle"
        <5>1. draft'.idle = draft.idle /\ draft'.sample = draft.sample
          BY <1>6, <3>1, <3>2, <4>3 DEF Change, Draft, Keys
        <5> QED
          BY <4>3, <5>1 DEF Shown, Clamped
      <4> QED
        BY <4>1, <4>2, <4>3 DEF Keys
    <3> QED
      BY <1>6, <3>2 DEF Change, Leaves
  <2>3. phase = "keys" /\ phase' \in {"keys", "save"} /\ touched \subseteq touched'
        /\ UNCHANGED <<file, edits, opened, read>>
    BY <1>6 DEF Change
  <2> QED
    BY <2>1, <2>2, <2>3
<1>7. CASE Stage
  <2>1. file \in Doc => staged'.other = file.other
    <3> SUFFICES ASSUME file \in Doc PROVE staged'.other = file.other
      OBVIOUS
    <3>1. Source = file
      BY SettingsAssumption DEF Source
    <3> QED
      BY <1>7, <3>1 DEF Stage, Written, Doc
  <2>2. \A k \in Keys : /\ Leaves(draft, k) => Leaves(draft, k)'
                        /\ Leaves(config, k) => Leaves(config, k)'
    BY <1>7 DEF Stage, Leaves
  <2> QED
    BY <1>7, <2>1, <2>2 DEF Stage
<1>8. CASE Replace
  <2>1. /\ file' = staged /\ staged \in Doc /\ InForce(staged) = Shown(Clamped(draft))
        /\ draft' = Clamped(draft) /\ draft \in Draft
        /\ phase = "staged" /\ phase' = "keys"
        /\ UNCHANGED <<config, edits, opened, read, touched>>
    BY <1>8 DEF Replace, SettingsInv
  <2>2. /\ Shown(InForce(file')) = Shown(Clamped(draft))
        /\ Clamped(draft') = Clamped(draft)
    BY <2>1, Idempotent, ClampStays
  <2>3. \A k \in Keys : Leaves(draft, k)'
    BY <2>1, <2>2 DEF Leaves
  <2>4. \A k \in Keys \ touched : Leaves(draft, k) /\ Leaves(config, k) => Leaves(config, k)'
    BY <2>1, <2>2 DEF Leaves
  <2> QED
    BY <2>1, <2>3, <2>4
<1>9. ASSUME UNCHANGED settings,
             \/ phase' \in {phase, "closed"}
             \/ phase \in {"save", "staged"} /\ phase' = "keys"
      PROVE  RestInv'
  <2>1. \A k \in Keys : /\ Leaves(draft, k) => Leaves(draft, k)'
                        /\ Leaves(config, k) => Leaves(config, k)'
    BY <1>9 DEF settings, Leaves
  <2> QED
    BY <1>9, <2>1 DEF settings
<1>10. CASE SaveFails
  BY <1>9, <1>10 DEF SaveFails
<1>11. CASE Edit /\ UNCHANGED phase
  BY <1>11 DEF Edit
<1>12. CASE UNCHANGED settings /\ phase' \in {phase, "closed"}
  BY <1>9, <1>12
<1> QED
  BY <1>2, <1>3, <1>4, <1>5, <1>6, <1>7, <1>8, <1>10, <1>11, <1>12 DEF SettingsStep, Keys

\* Saving one row puts no other row's value into force, and keeps what is no row.
THEOREM SavesSpareTheRest == Spec => SaveSparesTheRest
<1>1. SettingsInv /\ RestInv =>
        [Replace /\ file \in Doc =>
           /\ read = edits => file'.other = file.other
           /\ opened = edits => \A k \in Keys \ touched :
                \/ k = "idle" /\ "sample" \in touched
                \/ InForce(file')[k] = Shown(InForce(file))[k]]_<<phase, settings>>
  BY DEF SettingsInv, RestInv, Leaves, Replace
<1>2. SettingsInv /\ RestInv /\ UNCHANGED vars => SettingsInv' /\ RestInv'
  <2> SUFFICES ASSUME SettingsInv, RestInv, UNCHANGED vars PROVE SettingsInv' /\ RestInv'
    OBVIOUS
  <2>1. SettingsStep
    BY DEF SettingsStep, vars
  <2> QED
    BY <2>1, SettingsKept, RestKept
<1> QED
  BY SettingsStart, RestStart, Projects, SettingsKept, RestKept, <1>1, <1>2, PTL
     DEF Spec, SaveSparesTheRest

-----------------------------------------------------------------------------
(* The login task.                                                         *)

LoginInv == /\ foreign \in Nat /\ seen \in Nat /\ seen <= foreign
            /\ task \in {NoTask} \cup Task /\ choice \in [tray : BOOLEAN, delay : Nat]
            /\ RowsDescribeTask

LoginStep ==
  \/ ReadLogin \/ Reread \/ ToggleRunAtLogin \/ ToggleStartInTray \/ CommitLoginDelay
  \/ ChangeTask \/ DeleteLate \/ UNCHANGED login

LEMMA LoginProjects == Next => LoginStep
<1> SUFFICES ASSUME Next PROVE LoginStep
  OBVIOUS
<1>1. CASE Open \/ FirstRun \/ Leave \/ Saves \/ ReloadKey
  BY <1>1 DEF Open, FirstRun, Leave, Saves, ReloadKey, LoginStep
<1>2. CASE Move \/ StartEditing \/ Arm \/ Erase \/ RemoveFile \/ Abandon \/ Tick
  BY <1>2 DEF Move, StartEditing, Arm, Erase, RemoveFile, Abandon, Tick, LoginStep
<1>3. CASE Toggle \/ ReadsTaskAgain
  BY <1>3 DEF Toggle, ReadsTaskAgain, LoginStep
<1>4. CASE Commit
  BY <1>4 DEF Commit, LoginStep
<1>5. CASE Elsewhere \/ ElevatedDeletion
  BY <1>5 DEF Elsewhere, ElevatedDeletion, LoginStep
<1> QED
  BY <1>1, <1>2, <1>3, <1>4, <1>5 DEF Next

\* What the rows take from a task.
LEMMA ParsedTask ==
  ASSUME NEW t \in Task
  PROVE  /\ Parsed(t) \in [tray : BOOLEAN, delay : Nat]
         /\ t # NoTask /\ Parsed(t) \notin {NoTask, Unreadable} /\ Parsed(t).tray = t.tray
         /\ Parsed(t).delay = IF t.delay = Unclear THEN 0 ELSE t.delay
<1>1. t # NoTask
  BY LoginAssumption
<1>2. Parsed(t) = [tray |-> t.tray, delay |-> IF t.delay = Unclear THEN 0 ELSE t.delay]
  BY <1>1 DEF Parsed, Task
<1>3. Parsed(t) \in [tray : BOOLEAN, delay : Nat]
  BY <1>2 DEF Task
<1>4. Parsed(t) \in Task
  BY <1>3 DEF Task
<1> QED
  BY <1>1, <1>2, <1>3, <1>4, LoginAssumption

\* Any reading of the task gives what the rows may say.
LEMMA ReadingTrue ==
  ASSUME NEW otherwise \in [tray : BOOLEAN, delay : Nat], Reading(otherwise),
         task \in {NoTask} \cup Task
  PROVE  /\ choice' \in [tray : BOOLEAN, delay : Nat] /\ seen' = foreign
         /\ UNCHANGED <<task, foreign>>
         /\ autostart' # Unreadable =>
              /\ Enabled' <=> task # NoTask
              /\ task # NoTask =>
                   /\ autostart' = choice' /\ choice'.tray = task.tray
                   /\ choice'.delay = IF task.delay = Unclear THEN 0 ELSE task.delay
<1>1. /\ autostart' \in {Parsed(task), Unreadable} /\ seen' = foreign
      /\ choice' = IF autostart' \in {NoTask, Unreadable} THEN otherwise ELSE autostart'
      /\ UNCHANGED <<task, foreign>>
  BY DEF Reading, Answers, Adopted
<1>2. CASE task = NoTask
  BY <1>1, <1>2 DEF Parsed, Enabled
<1>3. CASE task \in Task
  BY <1>1, <1>3, ParsedTask DEF Enabled
<1> QED
  BY <1>2, <1>3

\* A task that is registered from a choice is a task.
LEMMA DesiredTask ==
  ASSUME NEW wanted \in [tray : BOOLEAN, delay : Nat]
  PROVE  Desired(wanted) \in Task
<1> DEFINE whole == wanted.delay - (wanted.delay % 2)
<1>1. wanted.delay \in Nat /\ whole \in Nat /\ MaxDelay \in Nat
  BY LoginAssumption, SMTT(30)
<1>2. Desired(wanted) = [tray |-> wanted.tray,
                         delay |-> IF whole > MaxDelay THEN MaxDelay ELSE whole]
  BY DEF Desired
<1> HIDE DEF whole
<1> QED
  BY <1>1, <1>2 DEF Task

LEMMA LoginStart == Init => LoginInv
<1> SUFFICES ASSUME LoginInit PROVE LoginInv
  BY DEF Init
<1> USE DEF LoginInit, LoginInv, RowsDescribeTask, Enabled
<1>1. CASE task = NoTask
  <2>1. [tray |-> FALSE, delay |-> DefaultDelay] \in [tray : BOOLEAN, delay : Nat]
    BY LoginAssumption
  <2>2. autostart = NoTask
    BY <1>1 DEF Parsed
  <2> QED
    BY <1>1, <2>1, <2>2
<1>2. CASE task \in Autostart
  <2>1. task \in Task
    BY <1>2, LoginAssumption DEF Autostart, Task
  <2>2. task # NoTask /\ choice = autostart
    BY <2>1, ParsedTask
  <2> QED
    BY <2>1, <2>2, ParsedTask
<1> QED
  BY <1>1, <1>2 DEF LoginInit

LEMMA LoginKept == LoginInv /\ LoginStep => LoginInv'
<1> SUFFICES ASSUME LoginInv, LoginStep PROVE LoginInv'
  OBVIOUS
<1> USE DEF LoginInv, RowsDescribeTask
<1>1. CASE ReadLogin
  <2> DEFINE fresh == [tray |-> FALSE, delay |-> DefaultDelay]
  <2>1. fresh \in [tray : BOOLEAN, delay : Nat]
    BY LoginAssumption
  <2>2. Reading(fresh)
    BY <1>1 DEF ReadLogin
  <2> HIDE DEF fresh
  <2> QED
    BY <2>1, <2>2, ReadingTrue
<1>2. CASE Reread
  <2>1. Reading(choice)
    BY <1>2 DEF Reread
  <2> QED
    BY <2>1, ReadingTrue
<1>3. ASSUME NEW wanted \in {NoTask} \cup Task, Try(wanted),
             choice' \in [tray : BOOLEAN, delay : Nat], UNCHANGED <<foreign, seen>>
      PROVE  LoginInv'
  BY <1>3 DEF Try
<1>4. CASE ToggleRunAtLogin
  <2>1. (IF Enabled THEN NoTask ELSE Desired(choice)) \in {NoTask} \cup Task
    BY DesiredTask
  <2> QED
    BY <1>3, <1>4, <2>1 DEF ToggleRunAtLogin
<1>5. ASSUME NEW wanted \in [tray : BOOLEAN, delay : Nat], Choose(wanted) PROVE LoginInv'
  <2>1. CASE Enabled
    <3>1. Desired(wanted) \in {NoTask} \cup Task
      BY DesiredTask
    <3> QED
      BY <1>3, <1>5, <2>1, <3>1 DEF Choose
  <2>2. CASE ~Enabled
    BY <1>5, <2>2 DEF Choose, Enabled, Usable
  <2> QED
    BY <2>1, <2>2
<1>6. CASE ToggleStartInTray
  BY <1>5, <1>6 DEF ToggleStartInTray
<1>7. CASE CommitLoginDelay
  <2>1. PICK d \in Delays : Choose([choice EXCEPT !.delay = d])
    BY <1>7 DEF CommitLoginDelay
  <2>2. [choice EXCEPT !.delay = d] \in [tray : BOOLEAN, delay : Nat]
    BY LoginAssumption
  <2> QED
    BY <1>5, <2>1, <2>2
<1>8. CASE ChangeTask
  <2>1. task' \in {NoTask} \cup Task
    BY <1>8, LoginAssumption DEF ChangeTask, Autostart, Task
  <2>2. foreign' = foreign + 1 /\ UNCHANGED <<choice, seen>>
    BY <1>8 DEF ChangeTask
  <2> QED
    BY <2>1, <2>2
<1>9. CASE DeleteLate
  BY <1>9 DEF DeleteLate, Enabled
<1>10. CASE UNCHANGED login
  BY <1>10 DEF login, Enabled
<1> QED
  BY <1>1, <1>2, <1>4, <1>6, <1>7, <1>8, <1>9, <1>10 DEF LoginStep

\* As of the last reading the rows describe the task that is there, refusals included.
THEOREM RowsShowTheTask == Spec => []RowsDescribeTask
<1>1. LoginInv /\ UNCHANGED vars => LoginInv'
  BY DEF LoginInv, RowsDescribeTask, Enabled, vars, login
<1>2. LoginInv => RowsDescribeTask
  BY DEF LoginInv
<1> QED
  BY LoginStart, LoginProjects, LoginKept, <1>1, <1>2, PTL DEF Spec

-----------------------------------------------------------------------------
(* Erasing.                                                                *)

\* A row that waits is the selected one, the editor is closed, and the last key was the
\* Enter that armed it.
ArmedInv ==
  armed.field # NoRow =>
    /\ Field = "EraseCollectedData" /\ armed.field = Field
    /\ ~editing /\ asked = armed.age

LEMMA ArmedStart == Init => ArmedInv
  BY DEF Init, ArmedInv, Disarmed

LEMMA ArmedKept == ArmedInv /\ [Next]_vars => ArmedInv'
<1> SUFFICES ASSUME ArmedInv, [Next]_vars PROVE ArmedInv'
  OBVIOUS
<1> USE DEF ArmedInv, Field
<1>1. CASE Open \/ Move \/ ReloadKey \/ Toggle \/ Erase
  <2>1. armed' = Disarmed
    BY <1>1 DEF Open, FreshScreen, Move, ReloadKey, Toggle, Erase
  <2> QED
    BY <2>1 DEF Disarmed
<1>2. CASE FirstRun \/ Leave \/ Saves \/ ReadsTaskAgain \/ Elsewhere \/ ElevatedDeletion
  BY <1>2 DEF FirstRun, Leave, Saves, ReadsTaskAgain, Elsewhere, ElevatedDeletion, screen
<1>8. CASE RemoveFile
  BY <1>8 DEF RemoveFile
<1>3. CASE StartEditing
  <2>1. armed.field = NoRow
    BY <1>3 DEF StartEditing, Values
  <2> QED
    BY <1>3, <2>1 DEF StartEditing
<1>4. CASE Arm
  BY <1>4 DEF Arm, Takes
<1>5. CASE Abandon \/ Commit
  <2>1. armed.field = NoRow /\ UNCHANGED armed
    BY <1>5 DEF Abandon, Commit, Takes
  <2> QED
    BY <2>1
<1>6. CASE Tick
  <2>1. armed'.field = armed.field
    BY <1>6 DEF Tick
  <2> QED
    BY <1>6, <2>1 DEF Tick
<1>7. CASE UNCHANGED vars
  BY <1>7 DEF vars, screen
<1> QED
  BY <1>1, <1>2, <1>3, <1>4, <1>5, <1>6, <1>7, <1>8 DEF Next

LEMMA SwitchesKept == ASSUME switches \in Nat, [Next]_vars PROVE switches' \in Nat
<1>1. CASE Elsewhere
  BY <1>1 DEF Elsewhere, world
<1>2. CASE RemoveFile \/ Erase
  BY <1>2 DEF RemoveFile, Erase, world
<1>3. CASE Open \/ FirstRun \/ Leave \/ Saves \/ ReadsTaskAgain \/ ElevatedDeletion
           \/ UNCHANGED vars
  BY <1>3 DEF Open, FirstRun, Leave, Saves, ReadsTaskAgain, ElevatedDeletion, vars, world
<1>4. CASE Move \/ ReloadKey \/ Toggle \/ StartEditing \/ Arm \/ Abandon \/ Commit \/ Tick
  BY <1>4 DEF Move, ReloadKey, Toggle, StartEditing, Arm, Abandon, Commit, Tick, world
<1> QED
  BY <1>1, <1>2, <1>3, <1>4 DEF Next

\* Only one step begins an attempt, and only the steps of one remove a file.
LEMMA OnlyErase ==
  ASSUME ArmedInv, switches \in Nat, [Next]_vars
  PROVE  /\ ~(database \subseteq database') /\ switches' = switches => erasing # 0
         /\ erasing = 0 /\ erasing' # 0 =>
              asked < ConfirmWindow /\ asked' = 0 /\ ~collecting
<1>1. CASE Erase /\ erasing' # 0
  <2>1. Erasable /\ ~collecting
    BY <1>1 DEF Erase
  <2>2. armed.field = Field /\ armed.age < ConfirmWindow /\ Field = "EraseCollectedData"
    BY <1>1, <2>1 DEF Erase
  <2>3. asked = armed.age
    BY <2>2, ControlAssumption DEF ArmedInv, Actions
  <2>4. asked' = 0
    BY <1>1, <2>2 DEF Erase, Takes
  <2>5. database' = database
    BY <1>1 DEF Erase, world
  <2> QED
    BY <2>1, <2>2, <2>3, <2>4, <2>5
<1>2. CASE Erase /\ erasing' = 0
  BY <1>2 DEF Erase, world
<1>3. CASE Elsewhere
  <2>1. UNCHANGED erasing /\ (UNCHANGED database \/ switches' = switches + 1)
    BY <1>3 DEF Elsewhere, world, screen
  <2> QED
    BY <2>1
<1>4. CASE Open \/ FirstRun \/ Leave \/ Saves \/ ReadsTaskAgain \/ ElevatedDeletion
           \/ UNCHANGED vars
  BY <1>4 DEF Open, FreshScreen, FirstRun, Leave, Saves, ReadsTaskAgain, ElevatedDeletion,
              vars, world, screen
<1>5. CASE Move \/ ReloadKey \/ Toggle \/ StartEditing \/ Arm \/ Abandon \/ Commit \/ Tick
  BY <1>5 DEF Move, ReloadKey, Toggle, StartEditing, Arm, Abandon, Commit, Tick, world
<1>6. CASE RemoveFile
  BY <1>6 DEF RemoveFile
<1> QED
  BY <1>1, <1>2, <1>3, <1>4, <1>5, <1>6 DEF Next

\* An attempt to erase begins with two Enters in a row on its row, close together, while
\* no daemon collects; outside of one the screen removes nothing.
THEOREM ErasingIsConfirmed == Spec => EraseIsConfirmed
<1>1. ArmedInv /\ switches \in Nat /\ [Next]_vars =>
        [/\ ~(database \subseteq database') /\ switches' = switches => erasing # 0
         /\ erasing = 0 /\ erasing' # 0 =>
              asked < ConfirmWindow /\ asked' = 0 /\ ~collecting]_vars
  BY OnlyErase
<1>2. Init => switches \in Nat
  BY DEF Init
<1>3. switches \in Nat /\ [Next]_vars => (switches \in Nat)'
  BY SwitchesKept
<1> QED
  BY ArmedStart, ArmedKept, <1>1, <1>2, <1>3, PTL DEF Spec, EraseIsConfirmed

=============================================================================
