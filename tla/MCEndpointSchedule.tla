------------------------- MODULE MCEndpointSchedule -------------------------
(* Instances of EndpointSchedule for TLC. *)
EXTENDS EndpointSchedule, TLC

Symmetry == Permutations(Procs)
=============================================================================
