----------------------------- MODULE MCDataDir -----------------------------
(* Processes of a kind are interchangeable: they are told apart by nothing. *)
EXTENDS DataDir, TLC
ProcessSymmetry == Permutations(Daemons)
=============================================================================
