---------------------------- MODULE MCCollectors ----------------------------
(* Two processes; they are interchangeable. *)
EXTENDS Collectors, TLC

CONSTANTS p1, p2

MCPids == {p1, p2}
Symmetry == Permutations(MCPids)

=============================================================================
