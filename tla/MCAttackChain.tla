--------------------------- MODULE MCAttackChain ---------------------------
(* Instances of AttackChain for TLC. *)
EXTENDS AttackChain, TLC

\* The smallest graph: initial access, objective, cleanup.
Short == [a \in 1..3 |-> IF a = 1 THEN {} ELSE {a - 1}]

\* The session and the objective both depend on the initial access only.
Wide == [a \in 1..4 |-> CASE a = 1 -> {} [] a = 4 -> {3} [] OTHER -> {1}]

Symmetry == Permutations(Procs)
=============================================================================
