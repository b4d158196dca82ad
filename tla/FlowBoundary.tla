---------------------------- MODULE FlowBoundary ----------------------------
(***************************************************************************)
(* What an attack chain may rely on about the flow it was admitted under:  *)
(* the flow leaves the expected checkpoint once and for good, and a flow   *)
(* that has stopped stays stopped.  AttackChain is written against this    *)
(* specification; RedTeamFlow implements it for each of its checkpoints.   *)
(***************************************************************************)
VARIABLE
    state   \* the flow seen from one expected_flow_checkpoint_id

\* before: the checkpoint is not there yet; expected: it is the latest and
\* running; moved: a later one is running; ended: completed, failed, timed out.
Stopped == {"cancelled", "killed", "ended"}
States == {"before", "expected", "moved"} \cup Stopped

Later ==
    [before |-> {"expected", "moved"} \cup Stopped,
     expected |-> {"moved"} \cup Stopped,
     moved |-> Stopped,
     cancelled |-> {}, killed |-> {}, ended |-> {}]

Init == state = "before"
Next == state' \in Later[state]
Spec == Init /\ [][Next]_state
=============================================================================
