------------------------------- MODULE Prober -------------------------------
(***************************************************************************)
(* The prober, watch/collect/probes: its scratch directory, and the        *)
(* reading of the machine it takes before it loads it.  What the workloads *)
(* measure is not modelled; that they may fail and leave files is.         *)
(***************************************************************************)
EXTENDS ProcessTable

CONSTANTS
  MaxRestarts,  \* bound: times the prober's thread, or its process, is started again
  MaxRemovals   \* bound: times somebody deletes the scratch directory

ASSUME ProberAssumption == MaxRestarts \in Nat /\ MaxRemovals \in Nat

VARIABLES
  prober,     \* where the loop stands
  ptable,     \* Observer.system
  ptargets,   \* Observer.targets
  warmed,     \* whether this session has taken its extra reading
  held,       \* scratch.is_some()
  dir,        \* the scratch directory
  complained, \* whether this session's last tidy reported a problem
  reading,    \* the last reading: comparable or not, and the known processes in it
  inside,     \* processes there when the last priming was done (history)
  met,        \* processes an earlier reading of this session took in (history)
  restarts, removals

proberVars == <<prober, ptable, ptargets, warmed, held, dir, complained, reading,
                inside, met, restarts, removals>>

ProberInit ==
  /\ prober = "sleep"
  /\ ptable = EmptyTable /\ ptargets = {} /\ warmed = FALSE
  /\ held = FALSE /\ complained = FALSE
  /\ dir \in {"absent", "dirty"}
  /\ reading = [comparable |-> FALSE, known |-> {}]
  /\ inside = {} /\ met = {}
  /\ restarts = 0 /\ removals = 0

-----------------------------------------------------------------------------
(* The directory                                                           *)

\* Mutant: the directory is created, and not cleared.
CreateOnly == dir' = IF dir = "absent" THEN "empty" ELSE dir

\* Scratch::prepare clears, and then creates.
Prepare == dir' = "empty"

\* Either half of it may fail: the interval goes by without a probe.
PrepareFails ==
  /\ prober = "sleep" /\ ~held
  /\ dir' \in {dir, "absent"}
  /\ UNCHANGED <<prober, ptable, ptargets, warmed, held, complained, reading, inside, met,
                 restarts, removals>>

\* Somebody deletes it.
Remove ==
  /\ removals < MaxRemovals /\ dir # "absent"
  /\ dir' = "absent"
  /\ removals' = removals + 1
  /\ UNCHANGED <<prober, ptable, ptargets, warmed, held, complained, reading, inside, met,
                 restarts>>

-----------------------------------------------------------------------------
(* The reading                                                             *)

\* Observer::prime: a walk, and a refresh of what it found.
Primed(t) == RefreshSome(RefreshAll(t), Discovered(t))

Prime ==
  LET rested == Rested(ptable)
  IN  ptable' = Primed(rested) /\ ptargets' = Discovered(rested)

\* The interval is over: get the directory, unless it is held already, and prime, for
\* the first probe of a session once more than for the others.
Begin ==
  /\ prober = "sleep"
  /\ IF held THEN UNCHANGED dir ELSE Prepare
  /\ held' = TRUE
  /\ Prime
  /\ IF warmed
       THEN prober' = "primed" /\ inside' = Alive /\ UNCHANGED met
       ELSE prober' = "warming" /\ met' = Alive /\ UNCHANGED inside
  /\ UNCHANGED <<warmed, complained, reading, restarts, removals>>

\* Mutant: the first probe is primed like any other.
WarmNothing ==
  /\ prober = "warming"
  /\ prober' = "primed"
  /\ warmed' = TRUE
  /\ inside' = Alive
  /\ UNCHANGED <<ptable, ptargets, held, dir, complained, reading, met, restarts, removals>>

Warm ==
  /\ prober = "warming"
  /\ prober' = "primed"
  /\ warmed' = TRUE
  /\ Prime
  /\ inside' = Alive
  /\ UNCHANGED <<held, dir, complained, reading, met, restarts, removals>>

\* The reading, and the workloads after it, which may fail and leave files.  Watched
\* processes are at work; whatever else loads the machine is beyond this model.
Probe ==
  /\ prober = "primed"
  /\ prober' = "working"
  /\ LET now == RefreshSome(Rested(ptable), ptargets)
         busy == \E p \in Counted(now, ptargets) : Measured(now, p)
     IN  /\ ptable' = now
         /\ \E other \in BOOLEAN :
              reading' = [comparable |-> ~(busy \/ other), known |-> inside \cap Alive \cap met]
  /\ dir' \in IF dir = "absent" THEN {"absent"} ELSE {dir, "dirty"}
  /\ met' = ptargets
  /\ UNCHANGED <<ptargets, warmed, held, complained, inside, restarts, removals>>

\* After every probe, successful or not; what cannot be removed or read is reported.
Tidy ==
  /\ prober = "working"
  /\ prober' = "sleep"
  /\ \/ dir # "absent" /\ dir' = "empty" /\ complained' = FALSE
     \/ dir # "empty" /\ UNCHANGED dir /\ complained' = TRUE
  /\ UNCHANGED <<ptable, ptargets, warmed, held, reading, inside, met, restarts, removals>>

\* A panic, or the process dies: a new session.  The daemon clears the directory when it
\* starts, and may fail to; the supervisor that starts a thread again does not.
Restart ==
  /\ restarts < MaxRestarts
  /\ restarts' = restarts + 1
  /\ prober' = "sleep"
  /\ ptable' = EmptyTable /\ ptargets' = {} /\ warmed' = FALSE
  /\ held' = FALSE /\ complained' = FALSE
  /\ dir' \in {dir, "absent"}
  /\ inside' = {} /\ met' = {}
  /\ UNCHANGED <<reading, removals>>

ProberStep == PrepareFails \/ Begin \/ Warm \/ Probe \/ Tidy \/ Remove \/ Restart

-----------------------------------------------------------------------------
\* scratch.rs: the small-file measurement starts in an empty directory, whatever the last
\* probe, a panic or a kill left there - unless this session's log says what was left.
StartsEmpty == prober = "primed" /\ dir = "dirty" => complained

\* covariates.rs: a probe is not called comparable when a watched process worked through
\* its reading that the session knew already, from the probe before or from warming up.
ComparableIsQuiet == reading.comparable => reading.known = {}

\* One probe can be held against another (the two above): same directory, same quiet.
ProbesCompare == StartsEmpty /\ ComparableIsQuiet

=============================================================================
