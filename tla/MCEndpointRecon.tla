-------------------------- MODULE MCEndpointRecon --------------------------
(* Instances of EndpointRecon for TLC. *)
EXTENDS EndpointRecon, TLC

Symmetry == Permutations(Callers) \cup Permutations(Plans)
=============================================================================
