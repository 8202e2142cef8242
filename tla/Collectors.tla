----------------------------- MODULE Collectors -----------------------------
(***************************************************************************)
(* The two collectors that read the process table, each with a System of   *)
(* its own, beside processes that come and go between any two of their     *)
(* steps (watch/mod.rs starts a thread for each).                          *)
(***************************************************************************)
EXTENDS Sampler, Prober

vars == <<life, samplerVars, proberVars>>

Init == life = Unborn /\ SamplerInit /\ ProberInit

Next ==
  \/ (Appear \/ Exit) /\ UNCHANGED <<samplerVars, proberVars>>
  \/ SamplerStep /\ UNCHANGED <<life, proberVars>>
  \/ ProberStep /\ UNCHANGED <<life, samplerVars>>

Spec == Init /\ [][Next]_vars

\* Every variable keeps its type, the counters their bounds.
TypeOK ==
  /\ life \in [Pids -> {"unborn", "alive", "dead"}]
  /\ sampler \in {"prime", "priming", "tick", "sleep"}
  /\ table \in [Pids -> Entry] /\ targets \subseteq Pids
  /\ since \in 0..DiscoveryInterval /\ previous \in BOOLEAN
  /\ sample \in [counted : SUBSET Pids, rate : BOOLEAN, whole : SUBSET Pids]
  /\ unwatched \in [Pids -> 0..Longest]
  /\ prober \in {"sleep", "warming", "primed", "working"}
  /\ ptable \in [Pids -> Entry] /\ ptargets \subseteq Pids
  /\ {warmed, held, complained} \subseteq BOOLEAN /\ dir \in {"absent", "empty", "dirty"}
  /\ reading \in [comparable : BOOLEAN, known : SUBSET Pids]
  /\ inside \subseteq Pids /\ met \subseteq Pids
  /\ restarts \in 0..MaxRestarts /\ removals \in 0..MaxRemovals

=============================================================================
