--------------------------- MODULE MCRedTeamFlow ---------------------------
(* Instances of RedTeamFlow for TLC. *)
EXTENDS RedTeamFlow, TLC

Symmetry == Permutations(Procs) \cup Permutations(Keys)
=============================================================================
