-------------------------- MODULE MCProviderCenter --------------------------
(* Instances of ProviderCenter for TLC. *)
EXTENDS ProviderCenter, TLC

Symmetry == Permutations(Procs) \cup Permutations(Ids) \cup Permutations(Providers)
=============================================================================
