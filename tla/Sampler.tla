------------------------------ MODULE Sampler ------------------------------
(***************************************************************************)
(* The passive sampler, watch/collect/sampler.rs: when it looks for agent  *)
(* processes again, which of their readings it records, and how long it    *)
(* waits.  Time is what it slept, in units of sample_interval.             *)
(***************************************************************************)
EXTENDS ProcessTable

CONSTANTS
  DiscoveryInterval,  \* discovery_interval
  IdleInterval        \* sample_interval_idle

ASSUME SamplerAssumption ==
  DiscoveryInterval \in Nat \ {0} /\ IdleInterval \in Nat \ {0}

VARIABLES
  sampler,    \* where the loop stands
  table,      \* Sampler.system
  targets,    \* Sampler.targets
  since,      \* ms_since_discovery, saturating at the discovery interval
  previous,   \* whether previous_ts is there
  sample,     \* what the last tick recorded of the watched processes
  unwatched   \* how long each process has run unwatched (history)

samplerVars == <<sampler, table, targets, since, previous, sample, unwatched>>

Longest == DiscoveryInterval + IdleInterval
NoSample == [counted |-> {}, rate |-> FALSE, whole |-> {}]
Least(a, b) == IF a < b THEN a ELSE b

SamplerInit ==
  /\ sampler = "prime"
  /\ table = EmptyTable
  /\ targets = {}
  /\ since = DiscoveryInterval
  /\ previous = FALSE
  /\ sample = NoSample
  /\ unwatched = [p \in Pids |-> 0]

\* targets::refresh_watched counts the watched processes that are in the table.
Live(polled) == Cardinality(Counted(polled, targets))

Polled == RefreshSome(table, targets)

\* The schedule, or nothing left to watch.
Scheduled == since >= DiscoveryInterval
Decayed == ~Scheduled /\ targets # {} /\ Live(Polled) = 0
Rediscovers == Scheduled \/ Decayed

\* Mutant: a rate whenever there is a reading before.
RateAnyway(counted, forward) == counted # {} /\ previous /\ forward

\* A rate needs a reading of the same processes before, and a clock that moved on.
Rate(counted, forward) == ~Rediscovers /\ counted # {} /\ previous /\ forward

\* One observation.
Tick(forward) ==
  LET seen == IF Scheduled THEN table ELSE Polled
      fresh == IF Rediscovers THEN RefreshAll(seen) ELSE seen
      found == IF Rediscovers THEN Discovered(seen) ELSE targets
      counted == Counted(fresh, found)
  IN  /\ table' = fresh
      /\ targets' = found
      /\ since' = IF Rediscovers THEN 0 ELSE since
      /\ sample' = [counted |-> counted, rate |-> Rate(counted, forward),
                    whole |-> {p \in counted : fresh[p].n = 1}]
      /\ unwatched' = [p \in Pids |-> IF p \in found THEN 0 ELSE unwatched[p]]

\* advance, after a sleep of n: whatever was born is a little older.
Slept(n) ==
  /\ table' = Rested(table)
  /\ since' = Least(since + n, DiscoveryInterval)
  /\ unwatched' = [p \in Pids |->
       IF p \in Alive \ targets THEN Least(unwatched[p] + n, Longest) ELSE 0]

\* The throwaway reading, stamped with a placeholder that is not kept.
PrimeTick ==
  /\ sampler = "prime"
  /\ sampler' = "priming"
  /\ Tick(TRUE)
  /\ previous' = FALSE

PrimingWait ==
  /\ sampler = "priming"
  /\ sampler' = "tick"
  /\ Slept(1)
  /\ UNCHANGED <<targets, previous, sample>>

Observe ==
  /\ sampler = "tick"
  /\ sampler' = "sleep"
  /\ \E forward \in BOOLEAN : Tick(forward)
  /\ previous' = TRUE

\* Mutant: an idle machine is looked at less often and the time between is not counted.
SleepAsIfBusy ==
  /\ sampler = "sleep"
  /\ sampler' = "tick"
  /\ \E n \in {1, IdleInterval} :
       /\ table' = Rested(table)
       /\ since' = Least(since + 1, DiscoveryInterval)
       /\ unwatched' = [p \in Pids |->
            IF p \in Alive \ targets THEN unwatched[p] + n ELSE 0]
  /\ UNCHANGED <<targets, previous, sample>>

\* An agent that works keeps the cadence up; an idle machine lets it down.
Working == \E p \in sample.counted : Measured(table, p)

Sleep ==
  /\ sampler = "sleep"
  /\ sampler' = "tick"
  /\ \E n \in (IF Working THEN {1} ELSE {1, IdleInterval}) : Slept(n)
  /\ UNCHANGED <<targets, previous, sample>>

SamplerStep == PrimeTick \/ PrimingWait \/ Observe \/ Sleep

-----------------------------------------------------------------------------
\* The first reading of a process is the traffic of its whole life, and in no rate: neither
\* after a discovery, scheduled or early, nor at the start, while the process lives.
LivingRates == sample.rate => sample.whole \cap Alive = {}

\* The same of every process that is counted, "until two readings of the same processes
\* exist" (the test of that name in sampler.rs).
NoLifetimeRate == sample.rate => sample.whole = {}

\* targets.rs: a process that is to be watched is not missed for longer than a discovery
\* interval and the sleep that straddles it, however the cadence changes, at start as well.
SeenInTime == \A p \in Alive : unwatched[p] < Longest

=============================================================================
