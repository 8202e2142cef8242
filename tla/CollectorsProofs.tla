-------------------------- MODULE CollectorsProofs --------------------------
(***************************************************************************)
(* What the sampler and the prober promise for any number of processes     *)
(* that come and go between any two of their steps, and for any intervals. *)
(*                                                                         *)
(* Both proofs rest on how often a table has refreshed the entry of a      *)
(* process that is still there.  The sampler needs besides that its clock  *)
(* since the last walk bounds how long anybody has been unwatched; the     *)
(* prober that whom it met it has refreshed twice before it reads.         *)
(***************************************************************************)
EXTENDS Collectors, TLAPS

USE SamplerAssumption, ProberAssumption

\* A table has nothing of a process not yet born, and an entry it lacks is due.
Sound(t) == \A p \in Pids : /\ life[p] = "unborn" => t[p].n = 0
                            /\ t[p].n = 0 => t[p].due = TRUE

\* The sampler has nothing of whom is not born, and an entry of everyone alive it watches.
SamplerInv ==
  /\ Sound(table)
  /\ \A p \in Pids : life[p] = "unborn" =>
        p \notin targets /\ p \notin sample.whole /\ unwatched[p] = 0
  /\ \A p \in targets : life[p] = "alive" => table[p].n >= 1
  /\ sampler = "tick" => \A p \in Pids : table[p].due = TRUE

\* Nobody alive has been unwatched for longer than the last walk is ago, and once the
\* schedule is reached no longer than the sleep that reached it took.
Overdue ==
  /\ sampler \in {"priming", "sleep"} => since < DiscoveryInterval
  /\ sampler = "prime" => since = DiscoveryInterval
  /\ \A p \in Pids : life[p] = "alive" =>
        unwatched[p] <= IF since < DiscoveryInterval THEN since ELSE Longest - 1

\* How often the prober has refreshed whom it knows, at each place of its loop.
Acquainted ==
  /\ Sound(ptable)
  /\ \A p \in Pids : life[p] = "unborn" => p \notin ptargets /\ p \notin inside /\ p \notin met
  /\ prober \in {"primed", "working"} => warmed = TRUE
  /\ prober = "warming" => \A p \in met : life[p] = "alive" => ptable[p].n >= 1
  /\ prober = "primed" =>
        /\ \A p \in ptargets : life[p] = "alive" => ptable[p].n >= 1
        /\ \A p \in inside : life[p] = "alive" => p \in ptargets
        /\ \A p \in inside : life[p] = "alive" /\ p \in met => ptable[p].n >= 2
  /\ prober \in {"sleep", "working"} /\ warmed =>
        \A p \in met : life[p] = "alive" => ptable[p].n >= 2

\* A directory that is held and was left dirty has been complained about, but for the
\* workloads of the probe in hand.
Cleared ==
  /\ prober # "sleep" => held = TRUE
  /\ held /\ prober # "working" /\ dir = "dirty" => complained = TRUE

IInv == TypeOK /\ SamplerInv /\ Overdue /\ LivingRates /\ Acquainted /\ Cleared
             /\ ComparableIsQuiet

-----------------------------------------------------------------------------
(* The process table                                                       *)

\* A refresh keeps an entry an entry, and advances it when it is due.
LEMMA RefreshedEntry ==
  ASSUME NEW e \in Entry
  PROVE  /\ Refreshed(e) \in Entry
         /\ Refreshed(e).n >= e.n
         /\ e.n = 0 /\ e.due => Refreshed(e).n = 1
         /\ e.n >= 1 /\ e.due => Refreshed(e).n >= 2
         /\ e.n >= 2 /\ e.due => Refreshed(e).n = 3
         /\ Refreshed(e).due = FALSE
  BY DEF Refreshed, Entry

\* What resting and the two refreshes do to the table of whoever reads it.
LEMMA RestedTable ==
  ASSUME NEW t \in [Pids -> Entry]
  PROVE  /\ Rested(t) \in [Pids -> Entry]
         /\ \A p \in Pids : Rested(t)[p].n = t[p].n /\ Rested(t)[p].due = TRUE
  BY DEF Rested, Entry

LEMMA RefreshTable ==
  ASSUME NEW t \in [Pids -> Entry], NEW some \in SUBSET Pids
  PROVE  /\ RefreshAll(t) \in [Pids -> Entry]
         /\ \A p \in Pids : RefreshAll(t)[p] = IF life[p] = "alive" THEN Refreshed(t[p])
                                               ELSE [n |-> 0, due |-> TRUE]
         /\ RefreshSome(t, some) \in [Pids -> Entry]
         /\ \A p \in Pids : RefreshSome(t, some)[p] =
               IF p \in some /\ life[p] = "alive" THEN Refreshed(t[p]) ELSE t[p]
<1>1. \A p \in Pids : Refreshed(t[p]) \in Entry BY RefreshedEntry
<1>2. EmptyTable \in [Pids -> Entry] /\ \A p \in Pids : EmptyTable[p] = [n |-> 0, due |-> TRUE]
  BY DEF EmptyTable, Entry
<1> QED BY <1>1, <1>2 DEF RefreshAll, RefreshSome, Alive

\* A walk finds every process there is.
LEMMA DiscoveredAlive ==
  ASSUME NEW t \in [Pids -> Entry], Sound(t)
  PROVE  Discovered(t) = Alive
<1>1. \A p \in Pids : life[p] = "alive" => RefreshAll(t)[p].n > 0
  <2> SUFFICES ASSUME NEW p \in Pids, life[p] = "alive" PROVE RefreshAll(t)[p].n > 0 OBVIOUS
  <2>1. RefreshAll(t)[p] = Refreshed(t[p]) BY RefreshTable
  <2>2. t[p] \in Entry /\ t[p].n \in 0..3 /\ (t[p].n = 0 => t[p].due) BY DEF Sound, Entry
  <2>3. CASE t[p].n = 0
    <3>1. Refreshed(t[p]).n = 1 BY <2>2, <2>3, RefreshedEntry
    <3> QED BY <2>1, <3>1
  <2>4. CASE t[p].n > 0
    <3>1. Refreshed(t[p]).n >= t[p].n /\ Refreshed(t[p]).n \in 0..3 BY <2>2, RefreshedEntry DEF Entry
    <3> QED BY <2>1, <2>2, <2>4, <3>1
  <2> QED BY <2>2, <2>3, <2>4
<1>2. \A p \in Pids : life[p] # "alive" => RefreshAll(t)[p].n = 0 BY RefreshTable
<1> QED BY <1>1, <1>2 DEF Discovered, Has, Alive

-----------------------------------------------------------------------------
(* The sampler                                                             *)

SamplerState == <<sampler, table, targets, since, previous, sample, unwatched>>
SamplerTypes ==
  /\ sampler \in {"prime", "priming", "tick", "sleep"}
  /\ table \in [Pids -> Entry] /\ targets \subseteq Pids
  /\ since \in 0..DiscoveryInterval /\ previous \in BOOLEAN
  /\ sample \in [counted : SUBSET Pids, rate : BOOLEAN, whole : SUBSET Pids]
  /\ unwatched \in [Pids -> 0..Longest]
SamplerPart == SamplerTypes /\ SamplerInv /\ Overdue /\ LivingRates

LEMMA SinceBound ==
  ASSUME SamplerTypes
  PROVE  since \in Nat /\ since <= DiscoveryInterval /\ Longest \in Nat /\ Longest >= 1
  BY DEF SamplerTypes, Longest

\* An observation: whoever it finds is watched from now on, and a rate is one of processes
\* that were refreshed before.
LEMMA TickKeeps ==
  ASSUME SamplerPart, life \in [Pids -> {"unborn", "alive", "dead"}], UNCHANGED life,
         NEW forward \in BOOLEAN, Tick(forward), previous' \in BOOLEAN,
         \/ sampler = "prime" /\ sampler' = "priming"
         \/ sampler = "tick" /\ sampler' = "sleep"
  PROVE  SamplerPart'
<1> USE DEF SamplerPart
<1> DEFINE seen == IF Scheduled THEN table ELSE Polled
           fresh == IF Rediscovers THEN RefreshAll(seen) ELSE seen
           found == IF Rediscovers THEN Discovered(seen) ELSE targets
<1>1. table \in [Pids -> Entry] /\ targets \in SUBSET Pids /\ unwatched \in [Pids -> 0..Longest]
  BY DEF SamplerTypes
<1>2. Sound(table) BY DEF SamplerInv
<1>3. /\ Polled \in [Pids -> Entry]
      /\ \A p \in Pids : Polled[p] = IF p \in targets /\ life[p] = "alive"
                                     THEN Refreshed(table[p]) ELSE table[p]
  BY <1>1, RefreshTable DEF Polled
<1>4. \A p \in Pids : Refreshed(table[p]).n \in 0..3 /\ Refreshed(table[p]).n >= table[p].n
  BY <1>1, RefreshedEntry DEF Entry
<1>5. seen \in [Pids -> Entry] /\ Sound(seen)
  <2>1. Sound(Polled)
    <3> SUFFICES ASSUME NEW p \in Pids
                 PROVE  /\ life[p] = "unborn" => Polled[p].n = 0
                        /\ Polled[p].n = 0 => Polled[p].due = TRUE
      BY DEF Sound
    <3>1. CASE p \in targets /\ life[p] = "alive"
      <4>1. table[p] \in Entry /\ table[p].n \in 0..3 /\ table[p].n >= 1
        BY <1>1, <3>1 DEF Entry, SamplerInv
      <4>2. Refreshed(table[p]).n >= 1 BY <4>1, <1>4
      <4> QED BY <1>3, <3>1, <4>2
    <3>2. CASE ~(p \in targets /\ life[p] = "alive") BY <1>2, <1>3, <3>2 DEF Sound
    <3> QED BY <3>1, <3>2
  <2> QED BY <1>1, <1>2, <1>3, <2>1
<1>6. /\ RefreshAll(seen) \in [Pids -> Entry]
      /\ \A p \in Pids : RefreshAll(seen)[p] = IF life[p] = "alive" THEN Refreshed(seen[p])
                                               ELSE [n |-> 0, due |-> TRUE]
  BY <1>5, RefreshTable
<1>7. Discovered(seen) = Alive BY <1>5, DiscoveredAlive
<1>8. /\ table' = fresh /\ targets' = found
      /\ since' = IF Rediscovers THEN 0 ELSE since
      /\ sample' = [counted |-> Counted(fresh, found), rate |-> Rate(Counted(fresh, found), forward),
                    whole |-> {p \in Counted(fresh, found) : fresh[p].n = 1}]
      /\ unwatched' = [p \in Pids |-> IF p \in found THEN 0 ELSE unwatched[p]]
  BY DEF Tick
<1> HIDE DEF seen, fresh, found, Tick
<1>9. fresh \in [Pids -> Entry] /\ found \in SUBSET Pids
  BY <1>1, <1>5, <1>6, <1>7 DEF fresh, found, Alive
<1>10. Counted(fresh, found) \in SUBSET Pids BY <1>9 DEF Counted
<1>11. \A p \in Pids : p \in found /\ life[p] = "alive" => fresh[p].n >= 1
  <2> SUFFICES ASSUME NEW p \in Pids, p \in found, life[p] = "alive" PROVE fresh[p].n >= 1
    OBVIOUS
  <2>1. CASE Rediscovers
    <3>1. p \in Discovered(seen) /\ fresh = RefreshAll(seen) BY <2>1 DEF found, fresh
    <3>2. fresh[p].n \in 0..3 BY <1>9 DEF Entry
    <3> QED BY <3>1, <3>2 DEF Discovered, Has
  <2>2. CASE ~Rediscovers
    <3>1. p \in targets /\ fresh = Polled BY <2>2 DEF found, fresh, seen, Rediscovers
    <3>2. table[p].n >= 1 /\ table[p].n \in 0..3 BY <1>1, <3>1 DEF SamplerInv, Entry
    <3> QED BY <1>3, <1>4, <3>1, <3>2
  <2> QED BY <2>1, <2>2
<1>12. Sound(fresh)
  <2>1. CASE ~Rediscovers BY <1>5, <2>1 DEF fresh
  <2>2. CASE Rediscovers
    <3> SUFFICES ASSUME NEW p \in Pids
                 PROVE  /\ life[p] = "unborn" => fresh[p].n = 0
                        /\ fresh[p].n = 0 => fresh[p].due = TRUE
      BY DEF Sound
    <3>1. CASE life[p] = "alive"
      <4>1. p \in found BY <1>7, <2>2, <3>1 DEF found, Alive
      <4>2. fresh[p].n >= 1 BY <1>11, <3>1, <4>1
      <4> QED BY <3>1, <4>2
    <3>2. CASE life[p] # "alive" BY <1>6, <2>2, <3>2 DEF fresh
    <3> QED BY <3>1, <3>2
  <2> QED BY <2>1, <2>2
<1>13. \A p \in Pids : life[p] = "unborn" => p \notin found
  BY <1>7 DEF found, Alive, SamplerInv
<1>14. SamplerTypes'
  <2>1. sample' \in [counted : SUBSET Pids, rate : BOOLEAN, whole : SUBSET Pids]
    BY <1>8, <1>10 DEF Rate
  <2>2. unwatched' \in [Pids -> 0..Longest] BY <1>1, <1>8, SinceBound
  <2>3. since' \in 0..DiscoveryInterval BY <1>8 DEF SamplerTypes
  <2> QED BY <1>8, <1>9, <2>1, <2>2, <2>3 DEF SamplerTypes
<1>15. SamplerInv'
  <2>1. Sound(table)' BY <1>8, <1>12 DEF Sound
  <2>2. \A p \in Pids : life[p] = "unborn" =>
           p \notin targets' /\ p \notin sample'.whole /\ unwatched'[p] = 0
    BY <1>8, <1>13 DEF SamplerInv, Counted
  <2>3. \A p \in targets' : life[p] = "alive" => table'[p].n >= 1
    BY <1>8, <1>9, <1>11
  <2> QED BY <2>1, <2>2, <2>3 DEF SamplerInv
<1>16. Overdue'
  <2>1. \A p \in Pids : life[p] = "alive" =>
           unwatched'[p] <= IF since' < DiscoveryInterval THEN since' ELSE Longest - 1
    <3> SUFFICES ASSUME NEW p \in Pids, life[p] = "alive"
                 PROVE  unwatched'[p] <= IF since' < DiscoveryInterval THEN since' ELSE Longest - 1
      OBVIOUS
    <3>1. CASE Rediscovers
      <4>1. p \in found BY <1>7, <3>1 DEF found, Alive
      <4>2. unwatched'[p] = 0 /\ since' = 0 BY <1>8, <3>1, <4>1
      <4> QED BY <4>2
    <3>2. CASE ~Rediscovers
      <4>1. since' = since /\ since < DiscoveryInterval
        BY <1>8, <3>2, SinceBound DEF Rediscovers, Scheduled
      <4>2. unwatched'[p] \in {0, unwatched[p]} BY <1>8
      <4>3. unwatched[p] <= since BY <4>1 DEF Overdue
      <4> QED BY <4>1, <4>2, <4>3, SinceBound
    <3> QED BY <3>1, <3>2
  <2>2. since' < DiscoveryInterval
    <3>1. CASE Rediscovers BY <1>8, <3>1
    <3>2. CASE ~Rediscovers BY <1>8, <3>2, SinceBound DEF Rediscovers, Scheduled
    <3> QED BY <3>1, <3>2
  <2> QED BY <2>1, <2>2 DEF Overdue
<1>17. LivingRates'
  <2> SUFFICES ASSUME sample'.rate, NEW p \in sample'.whole, life[p] = "alive"
               PROVE  FALSE
    BY DEF LivingRates, Alive
  <2>1. ~Rediscovers BY <1>8 DEF Rate
  <2>2. sampler = "tick"
    <3>1. CASE sampler = "prime"
      <4>1. Scheduled BY <3>1 DEF Overdue, Scheduled
      <4> QED BY <2>1, <4>1 DEF Rediscovers
    <3> QED BY <3>1
  <2>3. p \in targets /\ p \in Pids /\ fresh = Polled /\ fresh[p].n = 1
    BY <1>1, <1>8, <2>1 DEF Counted, found, fresh, seen, Rediscovers
  <2>4. table[p] \in Entry /\ table[p].n \in 0..3 /\ table[p].n >= 1 /\ table[p].due
    BY <1>1, <2>2, <2>3 DEF SamplerInv, Entry
  <2>5. Refreshed(table[p]).n >= 2 BY <2>4, RefreshedEntry
  <2> QED BY <1>3, <2>3, <2>5
<1> QED BY <1>14, <1>15, <1>16, <1>17

\* A sleep: who is unwatched has been so for as long as the clock since the walk says.
LEMMA SleptKeeps ==
  ASSUME SamplerPart, UNCHANGED life, NEW n \in {1, IdleInterval}, Slept(n),
         sampler \in {"priming", "sleep"}, sampler' = "tick",
         UNCHANGED <<targets, previous, sample>>
  PROVE  SamplerPart'
<1> USE DEF SamplerPart
<1>1. table \in [Pids -> Entry] /\ unwatched \in [Pids -> 0..Longest] BY DEF SamplerTypes
<1>2. n \in Nat /\ 1 <= n /\ n <= IdleInterval OBVIOUS
<1>3. since \in Nat /\ since < DiscoveryInterval BY SinceBound DEF Overdue
<1>4. /\ table' \in [Pids -> Entry]
      /\ \A p \in Pids : table'[p].n = table[p].n /\ table'[p].due = TRUE
  BY <1>1, RestedTable DEF Slept
<1>5. /\ since' \in 0..DiscoveryInterval
      /\ since' < DiscoveryInterval => since' = since + n
  BY <1>2, <1>3 DEF Slept, Least
<1>6. \A p \in Pids : unwatched'[p] = IF life[p] = "alive" /\ p \notin targets
                                      THEN Least(unwatched[p] + n, Longest) ELSE 0
  BY DEF Slept, Alive
<1>7. unwatched' \in [Pids -> 0..Longest]
  <2>1. \A p \in Pids : Least(unwatched[p] + n, Longest) \in 0..Longest
    BY <1>1, <1>2, SinceBound DEF Least
  <2> QED BY <2>1, SinceBound DEF Slept
<1>8. SamplerTypes' BY <1>4, <1>5, <1>7 DEF SamplerTypes
<1>9. SamplerInv'
  <2>1. Sound(table)' BY <1>4 DEF SamplerInv, Sound
  <2>2. \A p \in targets' : life'[p] = "alive" => table'[p].n >= 1
    BY <1>4 DEF SamplerInv, SamplerTypes
  <2> QED BY <1>4, <1>6, <2>1, <2>2 DEF SamplerInv
<1>10. Overdue'
  <2> SUFFICES ASSUME NEW p \in Pids, life[p] = "alive"
               PROVE  unwatched'[p] <= IF since' < DiscoveryInterval THEN since' ELSE Longest - 1
    BY DEF Overdue
  <2>1. unwatched[p] \in Nat /\ unwatched[p] <= since BY <1>1, <1>3, SinceBound DEF Overdue
  <2>2. unwatched[p] + n <= since + n /\ since + n <= Longest - 1 BY <1>2, <1>3, <2>1 DEF Longest
  <2>3. unwatched'[p] <= since + n
    BY <1>2, <1>3, <1>6, <2>1, <2>2, SinceBound DEF Least
  <2>4. unwatched'[p] \in Nat /\ Longest \in Nat BY <1>7, SinceBound
  <2> QED BY <1>2, <1>3, <1>5, <2>2, <2>3, <2>4
<1>11. LivingRates' BY DEF LivingRates, Alive
<1> QED BY <1>8, <1>9, <1>10, <1>11

LEMMA SamplerKeeps ==
  ASSUME SamplerPart, life \in [Pids -> {"unborn", "alive", "dead"}], UNCHANGED life, SamplerStep
  PROVE  SamplerPart'
<1>0. previous \in BOOLEAN BY DEF SamplerPart, SamplerTypes
<1>1. CASE PrimeTick BY <1>1, TickKeeps DEF PrimeTick
<1>2. CASE PrimingWait BY <1>2, SleptKeeps DEF PrimingWait
<1>3. CASE Observe
  <2>1. PICK forward \in BOOLEAN : Tick(forward) BY <1>3 DEF Observe
  <2> QED BY <1>3, <2>1, TickKeeps DEF Observe
<1>4. CASE Sleep
  <2>1. PICK n \in {1, IdleInterval} : Slept(n) BY <1>4 DEF Sleep
  <2> QED BY <1>4, <2>1, SleptKeeps DEF Sleep
<1> QED BY <1>1, <1>2, <1>3, <1>4 DEF SamplerStep

-----------------------------------------------------------------------------
(* The prober                                                              *)

ProberTypes ==
  /\ prober \in {"sleep", "warming", "primed", "working"}
  /\ ptable \in [Pids -> Entry] /\ ptargets \subseteq Pids
  /\ warmed \in BOOLEAN /\ held \in BOOLEAN /\ complained \in BOOLEAN
  /\ dir \in {"absent", "empty", "dirty"}
  /\ reading \in [comparable : BOOLEAN, known : SUBSET Pids]
  /\ inside \subseteq Pids /\ met \subseteq Pids
  /\ restarts \in 0..MaxRestarts /\ removals \in 0..MaxRemovals
ProberPart == ProberTypes /\ Acquainted /\ Cleared /\ ComparableIsQuiet

\* Priming takes in everyone alive, and refreshes once more whom it had refreshed before.
LEMMA PrimeKeeps ==
  ASSUME ProberTypes, Sound(ptable), Prime, UNCHANGED life
  PROVE  /\ ptable' \in [Pids -> Entry] /\ ptargets' = Alive /\ Sound(ptable)'
         /\ \A p \in Pids : life[p] = "alive" =>
               /\ ptable'[p].n >= 1 /\ ptable'[p].n >= ptable[p].n
               /\ ptable[p].n >= 1 => ptable'[p].n >= 2
<1> DEFINE rested == Rested(ptable)
           all == RefreshAll(rested)
<1>1. /\ rested \in [Pids -> Entry] /\ Sound(rested)
      /\ \A p \in Pids : rested[p].n = ptable[p].n /\ rested[p].due = TRUE
  BY RestedTable DEF ProberTypes, Sound
<1>2. Discovered(rested) = Alive BY <1>1, DiscoveredAlive
<1>3. /\ all \in [Pids -> Entry]
      /\ \A p \in Pids : all[p] = IF life[p] = "alive" THEN Refreshed(rested[p])
                                  ELSE [n |-> 0, due |-> TRUE]
  BY <1>1, RefreshTable
<1>4. ptable' = RefreshSome(all, Alive) /\ ptargets' = Alive BY <1>2 DEF Prime, Primed
<1> HIDE DEF rested, all
<1>5. /\ ptable' \in [Pids -> Entry]
      /\ \A p \in Pids : ptable'[p] = IF life[p] = "alive" THEN Refreshed(all[p]) ELSE all[p]
  <2>1. Alive \in SUBSET Pids /\ \A p \in Pids : p \in Alive <=> life[p] = "alive" BY DEF Alive
  <2> QED BY <1>3, <1>4, <2>1, RefreshTable
<1>6. ASSUME NEW p \in Pids, life[p] = "alive"
      PROVE  /\ ptable'[p].n >= 1 /\ ptable'[p].n >= ptable[p].n
             /\ ptable[p].n >= 1 => ptable'[p].n >= 2
  <2>1. /\ rested[p] \in Entry /\ all[p] \in Entry /\ ptable'[p] \in Entry
        /\ rested[p].n = ptable[p].n /\ rested[p].due
    BY <1>1, <1>3, <1>5
  <2>2. all[p] = Refreshed(rested[p]) /\ ptable'[p] = Refreshed(all[p]) BY <1>3, <1>5, <1>6
  <2>3. rested[p].n \in 0..3 /\ all[p].n \in 0..3 /\ ptable'[p].n \in 0..3 BY <2>1 DEF Entry
  <2>4. ptable'[p].n >= all[p].n /\ all[p].n >= rested[p].n BY <2>1, <2>2, RefreshedEntry
  <2>5. rested[p].n = 0 => all[p].n = 1 BY <2>1, <2>2, RefreshedEntry
  <2>6. rested[p].n >= 1 => all[p].n >= 2 BY <2>1, <2>2, RefreshedEntry
  <2> QED BY <2>1, <2>3, <2>4, <2>5, <2>6
<1>7. Sound(ptable)'
  <2> SUFFICES ASSUME NEW p \in Pids
               PROVE  /\ life[p] = "unborn" => ptable'[p].n = 0
                      /\ ptable'[p].n = 0 => ptable'[p].due = TRUE
    BY DEF Sound
  <2>1. CASE life[p] = "alive"
    <3>1. ptable'[p].n >= 1 BY <1>6, <2>1
    <3> QED BY <2>1, <3>1
  <2>2. CASE life[p] # "alive" BY <1>3, <1>5, <2>2
  <2> QED BY <2>1, <2>2
<1> QED BY <1>4, <1>5, <1>6, <1>7

\* The reading: a process that was alive when it was primed is in it, and one the session
\* had met has a percentage.
LEMMA ProbeKeeps ==
  ASSUME ProberPart, UNCHANGED life, Probe
  PROVE  ProberPart'
<1> USE DEF ProberPart
<1> DEFINE rested == Rested(ptable)
           now == RefreshSome(rested, ptargets)
           busy == \E p \in Counted(now, ptargets) : Measured(now, p)
<1>1. /\ rested \in [Pids -> Entry]
      /\ \A p \in Pids : rested[p].n = ptable[p].n /\ rested[p].due = TRUE
  BY RestedTable DEF ProberTypes
<1>2. /\ now \in [Pids -> Entry]
      /\ \A p \in Pids : now[p] = IF p \in ptargets /\ life[p] = "alive" THEN Refreshed(rested[p])
                                  ELSE rested[p]
  <2>1. ptargets \in SUBSET Pids BY DEF ProberTypes
  <2> QED BY <1>1, <2>1, RefreshTable
<1>3. ptable' = now BY DEF Probe
<1>4. PICK other \in BOOLEAN :
         reading' = [comparable |-> ~(busy \/ other), known |-> inside \cap Alive \cap met]
  BY DEF Probe
<1> HIDE DEF rested, now
<1>5. /\ prober = "primed" /\ prober' = "working" /\ met' = ptargets
      /\ dir' \in {"absent", "empty", "dirty"}
      /\ UNCHANGED <<ptargets, warmed, held, complained, inside, restarts, removals>>
  BY DEF Probe, ProberTypes
<1>6. ASSUME NEW p \in ptargets, life[p] = "alive"
      PROVE  /\ now[p].n \in 0..3 /\ now[p].n >= 2
             /\ ptable[p].n >= 2 => now[p].n = 3
  <2>1. /\ p \in Pids /\ rested[p] \in Entry /\ rested[p].n = ptable[p].n /\ rested[p].due
        /\ now[p] = Refreshed(rested[p]) /\ now[p] \in Entry
    BY <1>1, <1>2, <1>6 DEF ProberTypes
  <2>2. ptable[p].n >= 1 BY <1>5, <1>6 DEF Acquainted
  <2>3. rested[p].n \in 0..3 /\ now[p].n \in 0..3 BY <2>1 DEF Entry
  <2> QED BY <2>1, <2>2, <2>3, RefreshedEntry
<1>7. ProberTypes'
  <2>1. reading' \in [comparable : BOOLEAN, known : SUBSET Pids] BY <1>4 DEF ProberTypes
  <2>2. met' \subseteq Pids BY <1>5 DEF ProberTypes
  <2> QED BY <1>2, <1>3, <1>5, <2>1, <2>2 DEF ProberTypes
<1>8. Acquainted'
  <2>1. Sound(ptable)'
    <3> SUFFICES ASSUME NEW p \in Pids
                 PROVE  /\ life[p] = "unborn" => now[p].n = 0
                        /\ now[p].n = 0 => now[p].due = TRUE
      BY <1>3 DEF Sound
    <3>1. CASE p \in ptargets /\ life[p] = "alive"
      <4>1. now[p].n >= 2 BY <1>6, <3>1
      <4> QED BY <3>1, <4>1
    <3>2. CASE ~(p \in ptargets /\ life[p] = "alive")
      BY <1>1, <1>2, <3>2 DEF Acquainted, Sound
    <3> QED BY <3>1, <3>2
  <2>2. \A p \in met' : life[p] = "alive" => ptable'[p].n >= 2 BY <1>3, <1>5, <1>6
  <2>3. warmed' = TRUE BY <1>5 DEF Acquainted
  <2>4. \A p \in Pids : life[p] = "unborn" => p \notin ptargets' /\ p \notin inside' /\ p \notin met'
    BY <1>5 DEF Acquainted
  <2> QED BY <1>5, <2>1, <2>2, <2>3, <2>4 DEF Acquainted
<1>9. Cleared' BY <1>5 DEF Cleared
<1>10. ComparableIsQuiet'
  <2> SUFFICES ASSUME reading'.comparable, NEW p \in reading'.known PROVE FALSE
    BY DEF ComparableIsQuiet
  <2>1. ~busy BY <1>4
  <2>2. p \in inside /\ p \in met /\ p \in Pids /\ life[p] = "alive" BY <1>4 DEF Alive
  <2>3. p \in ptargets /\ ptable[p].n >= 2 BY <1>5, <2>2 DEF Acquainted
  <2>4. now[p].n = 3 BY <1>6, <2>2, <2>3
  <2>5. p \in Counted(now, ptargets) /\ Measured(now, p) BY <2>3, <2>4 DEF Counted, Has, Measured
  <2> QED BY <2>1, <2>5
<1> QED BY <1>7, <1>8, <1>9, <1>10

\* A priming: whoever is met or inside is alive, and has just been refreshed.
LEMMA PrimingKeeps ==
  ASSUME ProberPart, UNCHANGED life, Prime,
         UNCHANGED <<complained, reading, restarts, removals>>, held' = TRUE,
         dir' \in {"absent", "empty", "dirty"}, (held /\ UNCHANGED dir) \/ dir' = "empty",
         \/ (prober = "sleep" /\ warmed /\ prober' = "primed" /\ inside' = Alive /\ UNCHANGED <<met, warmed>>)
         \/ (prober = "sleep" /\ ~warmed /\ prober' = "warming" /\ met' = Alive /\ UNCHANGED <<inside, warmed>>)
         \/ (prober = "warming" /\ prober' = "primed" /\ warmed' = TRUE /\ inside' = Alive /\ UNCHANGED met)
  PROVE  ProberPart'
<1> USE DEF ProberPart
<1>1. /\ ptable' \in [Pids -> Entry] /\ ptargets' = Alive /\ Sound(ptable)'
      /\ \A p \in Pids : life[p] = "alive" =>
            /\ ptable'[p].n >= 1 /\ ptable'[p].n >= ptable[p].n
            /\ ptable[p].n >= 1 => ptable'[p].n >= 2
  BY PrimeKeeps DEF Acquainted
<1>2. \A p : p \in Alive <=> p \in Pids /\ life[p] = "alive" BY DEF Alive
<1> HIDE DEF Prime
<1>3. ProberTypes' BY <1>1, <1>2 DEF ProberTypes
<1>4. Acquainted'
  <2>1. \A p \in Pids : life[p] = "unborn" => p \notin ptargets' /\ p \notin inside' /\ p \notin met'
    BY <1>1, <1>2 DEF Acquainted
  <2>2. prober' = "warming" => \A p \in met' : life[p] = "alive" => ptable'[p].n >= 1
    BY <1>1, <1>2
  <2>3. ASSUME prober' = "primed"
        PROVE  /\ \A p \in ptargets' : life[p] = "alive" => ptable'[p].n >= 1
               /\ \A p \in inside' : life[p] = "alive" => p \in ptargets'
               /\ \A p \in inside' : life[p] = "alive" /\ p \in met' => ptable'[p].n >= 2
    <3>1. inside' = Alive /\ met' = met BY <2>3
    <3>2. ASSUME NEW p \in Pids, life[p] = "alive", p \in met PROVE ptable'[p].n >= 2
      <4>1. ptable[p].n \in 0..3 /\ ptable'[p].n \in 0..3 BY <1>1 DEF ProberTypes, Entry
      <4>2. ptable[p].n >= 1 BY <2>3, <3>2, <4>1 DEF Acquainted
      <4> QED BY <1>1, <3>2, <4>1, <4>2
    <3> QED BY <1>1, <1>2, <3>1, <3>2
  <2>4. prober' = "primed" => warmed' = TRUE BY DEF ProberTypes
  <2> QED BY <1>1, <2>1, <2>2, <2>3, <2>4 DEF Acquainted
<1>5. Cleared' BY DEF Cleared
<1>6. ComparableIsQuiet' BY DEF ComparableIsQuiet
<1> QED BY <1>3, <1>4, <1>5, <1>6

LEMMA ProberKeeps ==
  ASSUME ProberPart, UNCHANGED life, ProberStep
  PROVE  ProberPart'
<1> USE DEF ProberPart
<1>1. CASE PrepareFails
  <2> USE <1>1 DEF PrepareFails
  <2>1. ProberTypes' BY DEF ProberTypes
  <2>2. Acquainted' BY DEF Acquainted, Sound
  <2>3. Cleared' /\ ComparableIsQuiet' BY DEF Cleared, ComparableIsQuiet
  <2> QED BY <2>1, <2>2, <2>3
<1>2. CASE Begin
  <2>1. dir' \in {"absent", "empty", "dirty"} /\ ((held /\ UNCHANGED dir) \/ dir' = "empty")
    BY <1>2 DEF Begin, Prepare, ProberTypes
  <2> QED BY <1>2, <2>1, PrimingKeeps DEF Begin
<1>3. CASE Warm
  <2>1. held /\ held' = TRUE /\ UNCHANGED dir /\ dir' \in {"absent", "empty", "dirty"}
    BY <1>3 DEF Warm, ProberTypes, Cleared
  <2> QED BY <1>3, <2>1, PrimingKeeps DEF Warm
<1>4. CASE Probe BY <1>4, ProbeKeeps
<1>5. CASE Tidy
  <2> USE <1>5 DEF Tidy
  <2>1. ProberTypes' BY DEF ProberTypes
  <2>2. Acquainted' BY DEF Acquainted, Sound
  <2>3. Cleared' /\ ComparableIsQuiet' BY DEF Cleared, ComparableIsQuiet
  <2> QED BY <2>1, <2>2, <2>3
<1>6. CASE Remove
  <2> USE <1>6 DEF Remove
  <2>1. ProberTypes' BY DEF ProberTypes
  <2>2. Acquainted' BY DEF Acquainted, Sound
  <2>3. Cleared' /\ ComparableIsQuiet' BY DEF Cleared, ComparableIsQuiet
  <2> QED BY <2>1, <2>2, <2>3
<1>7. CASE Restart
  <2> USE <1>7 DEF Restart
  <2>1. EmptyTable \in [Pids -> Entry] /\ \A p \in Pids : EmptyTable[p] = [n |-> 0, due |-> TRUE]
    BY DEF EmptyTable, Entry
  <2>2. ProberTypes'
    <3>1. restarts \in Nat /\ restarts' = restarts + 1 /\ restarts < MaxRestarts BY DEF ProberTypes
    <3>2. restarts' \in 0..MaxRestarts BY ONLY <3>1, ProberAssumption
    <3>3. ProberTypes /\ Restart BY <1>7
    <3> QED BY ONLY <2>1, <3>2, <3>3 DEF ProberTypes, Restart
  <2>3. Acquainted' BY <2>1 DEF Acquainted, Sound
  <2>4. Cleared' /\ ComparableIsQuiet' BY DEF Cleared, ComparableIsQuiet
  <2> QED BY <2>2, <2>3, <2>4
<1> QED BY <1>1, <1>2, <1>3, <1>4, <1>5, <1>6, <1>7 DEF ProberStep

-----------------------------------------------------------------------------
(* Both                                                                    *)

LEMMA Parts == TypeOK <=> /\ life \in [Pids -> {"unborn", "alive", "dead"}]
                          /\ SamplerTypes /\ ProberTypes
  BY DEF TypeOK, SamplerTypes, ProberTypes

LEMMA InitInv == Init => IInv
<1> SUFFICES ASSUME Init PROVE IInv OBVIOUS
<1> USE DEF Init, SamplerInit, ProberInit
<1>1. EmptyTable \in [Pids -> Entry] /\ \A p \in Pids : EmptyTable[p] = [n |-> 0, due |-> TRUE]
  BY DEF EmptyTable, Entry
<1>2. life \in [Pids -> {"unborn", "alive", "dead"}] /\ \A p \in Pids : life[p] = "unborn"
  BY DEF Unborn
<1>3. SamplerTypes
  <2>1. 0 \in 0..Longest BY DEF Longest
  <2>2. unwatched \in [Pids -> 0..Longest] BY <2>1
  <2>3. sample \in [counted : SUBSET Pids, rate : BOOLEAN, whole : SUBSET Pids] BY DEF NoSample
  <2>4. table \in [Pids -> Entry] BY <1>1
  <2>5. since \in 0..DiscoveryInterval OBVIOUS
  <2> QED BY <2>2, <2>3, <2>4, <2>5 DEF SamplerTypes
<1>4. ProberTypes
  <2>1. reading \in [comparable : BOOLEAN, known : SUBSET Pids] OBVIOUS
  <2>2. restarts \in 0..MaxRestarts /\ removals \in 0..MaxRemovals OBVIOUS
  <2>3. ptable \in [Pids -> Entry] BY <1>1
  <2> QED BY <2>1, <2>2, <2>3 DEF ProberTypes
<1>5. SamplerInv /\ Overdue /\ LivingRates
  BY <1>1, <1>2 DEF SamplerInv, Overdue, LivingRates, NoSample, Sound
<1>6. Acquainted /\ Cleared /\ ComparableIsQuiet
  BY <1>1, <1>2 DEF Acquainted, Cleared, ComparableIsQuiet, Sound
<1> QED BY <1>2, <1>3, <1>4, <1>5, <1>6, Parts DEF IInv

\* Whoever appears is known to nobody, and whoever exits is no longer spoken of.
LEMMA LifeKeeps ==
  ASSUME IInv, Appear \/ Exit, UNCHANGED <<samplerVars, proberVars>>
  PROVE  IInv'
<1> USE DEF IInv
<1>1. life \in [Pids -> {"unborn", "alive", "dead"}] /\ SamplerTypes /\ ProberTypes BY Parts
<1>2. UNCHANGED SamplerState /\ UNCHANGED <<prober, ptable, ptargets, warmed, held, dir, complained,
                                           reading, inside, met, restarts, removals>>
  BY DEF samplerVars, proberVars, SamplerState
<1>3. PICK q \in Pids : \/ life[q] = "unborn" /\ life' = [life EXCEPT ![q] = "alive"]
                        \/ life[q] = "alive" /\ life' = [life EXCEPT ![q] = "dead"]
  BY DEF Appear, Exit, Alive
<1>4. /\ life' \in [Pids -> {"unborn", "alive", "dead"}]
      /\ \A p \in Pids : life'[p] = "unborn" => life[p] = "unborn"
      /\ \A p \in Pids : life'[p] = "alive" => life[p] = "alive" \/ life[p] = "unborn"
  BY <1>1, <1>3
<1>5. SamplerTypes' /\ ProberTypes' BY <1>1, <1>2 DEF SamplerTypes, ProberTypes, SamplerState
<1>6. SamplerInv'
  BY <1>1, <1>2, <1>4 DEF SamplerInv, Sound, SamplerTypes, SamplerState
<1>7. Overdue'
  <2> SUFFICES ASSUME NEW p \in Pids, life'[p] = "alive"
               PROVE  unwatched[p] <= IF since < DiscoveryInterval THEN since ELSE Longest - 1
    BY <1>2 DEF Overdue, SamplerState
  <2>1. CASE life[p] = "alive" BY <2>1 DEF Overdue
  <2>2. CASE life[p] = "unborn"
    <3>1. unwatched[p] = 0 BY <2>2 DEF SamplerInv
    <3> QED BY <1>1, <3>1, SinceBound
  <2> QED BY <1>4, <2>1, <2>2
<1>8. LivingRates'
  BY <1>1, <1>2, <1>4 DEF LivingRates, SamplerInv, Alive, SamplerTypes, SamplerState
<1>9. Acquainted' BY <1>1, <1>2, <1>4 DEF Acquainted, Sound, ProberTypes
<1>10. Cleared' /\ ComparableIsQuiet' BY <1>2 DEF Cleared, ComparableIsQuiet
<1>11. TypeOK'
  <2>1. (life \in [Pids -> {"unborn", "alive", "dead"}] /\ SamplerTypes /\ ProberTypes)'
    BY <1>4, <1>5
  <2> QED BY <1>2, <1>4, <1>5 DEF TypeOK, SamplerTypes, ProberTypes
<1> QED BY <1>6, <1>7, <1>8, <1>9, <1>10, <1>11

LEMMA NextInv == IInv /\ [Next]_vars => IInv'
<1> SUFFICES ASSUME IInv, [Next]_vars PROVE IInv' OBVIOUS
<1> USE DEF IInv
<1>1. life \in [Pids -> {"unborn", "alive", "dead"}] /\ SamplerPart /\ ProberPart
  BY Parts DEF SamplerPart, ProberPart
<1>2. CASE (Appear \/ Exit) /\ UNCHANGED <<samplerVars, proberVars>> BY <1>2, LifeKeeps
<1>3. ASSUME UNCHANGED life, SamplerPart', ProberPart' PROVE IInv'
  <2>1. TypeOK' BY <1>1, <1>3 DEF TypeOK, SamplerPart, ProberPart, SamplerTypes, ProberTypes
  <2> QED BY <1>3, <2>1 DEF SamplerPart, ProberPart
<1>4. ASSUME UNCHANGED <<life, proberVars>> PROVE ProberPart'
  BY <1>1, <1>4 DEF ProberPart, ProberTypes, Acquainted, Cleared, ComparableIsQuiet, Sound, proberVars
<1>5. ASSUME UNCHANGED <<life, samplerVars>> PROVE SamplerPart'
  BY <1>1, <1>5 DEF SamplerPart, SamplerTypes, SamplerInv, Overdue, LivingRates, Sound, Alive, samplerVars
<1>6. CASE SamplerStep /\ UNCHANGED <<life, proberVars>>
  <2>1. SamplerPart' BY <1>1, <1>6, SamplerKeeps
  <2> QED BY <1>3, <1>4, <1>6, <2>1
<1>7. CASE ProberStep /\ UNCHANGED <<life, samplerVars>>
  <2>1. ProberPart' BY <1>1, <1>7, ProberKeeps
  <2> QED BY <1>3, <1>5, <1>7, <2>1
<1>8. CASE UNCHANGED vars BY <1>3, <1>4, <1>5, <1>8 DEF vars
<1> QED BY <1>2, <1>6, <1>7, <1>8 DEF Next

\* The strengthened invariant holds in every reachable state.
THEOREM Inductive == Spec => []IInv
<1>1. Init => IInv BY InitInv
<1>2. IInv /\ [Next]_vars => IInv' BY NextInv
<1> QED BY <1>1, <1>2, PTL DEF Spec

\* Every variable keeps its type.
THEOREM TypeCorrect == Spec => []TypeOK
<1>1. IInv => TypeOK BY DEF IInv
<1> QED BY <1>1, Inductive, PTL

\* The lifetime of a process that lives is in no rate.
THEOREM RatesAreOfTheLiving == Spec => []LivingRates
<1>1. IInv => LivingRates BY DEF IInv
<1> QED BY <1>1, Inductive, PTL

\* However the cadence changes, nobody runs unwatched for longer than a discovery interval
\* and the sleep that straddles it.
THEOREM NobodyIsMissed == Spec => []SeenInTime
<1>1. IInv => SeenInTime
  <2> SUFFICES ASSUME IInv, NEW p \in Pids, life[p] = "alive" PROVE unwatched[p] < Longest
    BY DEF SeenInTime, Alive
  <2>1. SamplerTypes BY Parts DEF IInv
  <2>2. unwatched[p] \in Nat BY <2>1, SinceBound DEF SamplerTypes
  <2>3. unwatched[p] <= IF since < DiscoveryInterval THEN since ELSE Longest - 1 BY DEF IInv, Overdue
  <2>4. since < DiscoveryInterval => since < Longest BY <2>1, SinceBound DEF Longest
  <2> QED BY <2>1, <2>2, <2>3, <2>4, SinceBound
<1> QED BY <1>1, Inductive, PTL

\* Probes compare: each starts in a directory that is clean or complained about, and none
\* is called comparable through which a process worked that the session knew.
THEOREM ProbesAreComparable == Spec => []ProbesCompare
<1>1. IInv => ProbesCompare
  BY DEF IInv, ProbesCompare, StartsEmpty, Cleared
<1> QED BY <1>1, Inductive, PTL

=============================================================================
