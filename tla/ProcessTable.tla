---------------------------- MODULE ProcessTable ----------------------------
(***************************************************************************)
(* The processes of the machine, and what a sysinfo::System remembers of   *)
(* them, as the collectors use it (watch/collect/targets.rs,               *)
(* process_tree.rs).  A process is one the configured names match, or a    *)
(* descendant of one; it lives once, so no pid is ever used again.         *)
(***************************************************************************)
EXTENDS Naturals, FiniteSets

CONSTANT Pids

VARIABLE life

Unborn == [p \in Pids |-> "unborn"]
Alive == {p \in Pids : life[p] = "alive"}

Appear == \E p \in Pids : life[p] = "unborn" /\ life' = [life EXCEPT ![p] = "alive"]
Exit == \E p \in Alive : life' = [life EXCEPT ![p] = "dead"]

-----------------------------------------------------------------------------
(* An entry counts the refreshes of its process that were an interval apart *)
(* (MINIMUM_CPU_UPDATE_INTERVAL), to the third: the first arms the CPU      *)
(* reading and holds the disk bytes of a whole life, the second saves the   *)
(* counters, from the third on there is a percentage.  0: no entry.         *)

Entry == [n : 0..3, due : BOOLEAN]
EmptyTable == [p \in Pids |-> [n |-> 0, due |-> TRUE]]

Has(table, p) == table[p].n > 0
Measured(table, p) == table[p].n = 3

Refreshed(entry) ==
  [n |-> IF entry.due /\ entry.n < 3 THEN entry.n + 1 ELSE entry.n, due |-> FALSE]

\* Time passed, at least the minimum between two refreshes.
Rested(table) == [p \in Pids |-> [table[p] EXCEPT !.due = TRUE]]

\* Of every process there is; what has exited is removed.
RefreshAll(table) ==
  [p \in Pids |-> IF p \in Alive THEN Refreshed(table[p]) ELSE EmptyTable[p]]

\* Of these processes only.  One that has exited keeps the entry it had.
RefreshSome(table, pids) ==
  [p \in Pids |-> IF p \in pids \cap Alive THEN Refreshed(table[p]) ELSE table[p]]

\* targets::discover: what the walk found, all of it worth watching.
Discovered(table) == {p \in Pids : Has(RefreshAll(table), p)}

\* process_tree::usage: the watched processes that have an entry.
Counted(table, targets) == {p \in targets : Has(table, p)}

=============================================================================
