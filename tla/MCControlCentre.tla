-------------------------- MODULE MCControlCentre --------------------------
(* Intervals of half a second to one and a half, one port and the port 0;  *)
(* every kind of row; the shipped document samples every second.           *)
EXTENDS ControlCentre

MCDefaultDoc == [sample |-> 2, idle |-> 2, port |-> 1, other |-> 1]
MCFields == <<"RunAtLogin", "StartInTray", "LoginDelay", "SampleInterval",
              "SampleIntervalIdle", "ServerPort", "EraseCollectedData">>

\* The settings, the login task and the data have nothing in common but the keys that
\* reach them, so in each behaviour only one of them moves (CONSTRAINT).
AsShipped == /\ file \in {Absent, Broken, DefaultDoc} /\ edits = 0
             /\ draft = InForce(DefaultDoc) /\ phase \in {"closed", "filling", "keys"}
AsRegistered == /\ ~pending /\ ~leaving /\ foreign = 0
                /\ autostart = Parsed(task)
                /\ choice = Adopted(autostart, [tray |-> FALSE, delay |-> DefaultDelay])
AsCollected == erasing = 0 /\ switches = 0 /\ database = {}

OneMoves == \/ AsShipped /\ AsCollected
            \/ AsShipped /\ AsRegistered
            \/ AsRegistered /\ AsCollected /\ task = NoTask

=============================================================================
