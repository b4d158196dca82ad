---------------------------- MODULE BoundedFlow ----------------------------
(***************************************************************************)
(* What a Red Team flow promises, without its ledger: work is taken on     *)
(* only while the flow runs and within its action budget, every piece of   *)
(* work is settled at most once, and a stopped flow takes on nothing and   *)
(* settles nothing.                                                        *)
(***************************************************************************)
EXTENDS Naturals

CONSTANTS MaxActions, Terminal

VARIABLES
    phase,  \* "absent", "planned", "running" or a member of Terminal
    used,   \* settled actions
    held    \* actions taken on and not settled

flow == <<phase, used, held>>

Init == phase = "absent" /\ used = 0 /\ held = 0

Open == phase = "absent" /\ phase' = "planned" /\ UNCHANGED <<used, held>>

Start == phase = "planned" /\ phase' = "running" /\ UNCHANGED <<used, held>>

Take(n) ==
    /\ phase = "running"
    /\ used + held + n <= MaxActions
    /\ held' = held + n
    /\ UNCHANGED <<phase, used>>

Settle ==
    /\ phase = "running" /\ held > 0
    /\ used' = used + 1 /\ held' = held - 1
    /\ phase' \in {"running"} \cup Terminal

Stop ==
    /\ phase \in {"planned", "running"}
    /\ phase' \in Terminal
    /\ UNCHANGED <<used, held>>

Next == Open \/ Start \/ Settle \/ Stop \/ \E n \in 1..MaxActions : Take(n)

Spec == Init /\ [][Next]_flow
=============================================================================
