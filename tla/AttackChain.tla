---------------------------- MODULE AttackChain ----------------------------
(***************************************************************************)
(* One sealed attack chain (src/vulnloom/red_team/attack_*.py): the ledger *)
(* AttackChainStore keeps, the pure transitions of attack_state_machine.py *)
(* and the calls of AttackChainService that read and write the ledger.     *)
(*                                                                         *)
(* The graph's actions are their ordinals: 1 is the initial access, N the  *)
(* cleanup, Objective the verification of the objective.  Processes call   *)
(* the service at once, and each may die between two database accesses.    *)
(* `with self.connection` opens its transaction at the first write, so     *)
(* _assert_latest is a step of its own before the writes it guards.        *)
(*                                                                         *)
(* The parent flow is in another database, written by other calls; what it *)
(* may do is FlowBoundary.                                                 *)
(***************************************************************************)
EXTENDS Integers, Sequences, FiniteSets

CONSTANTS
    Procs,            \* processes that call the service
    N,                \* actions of the graph
    Objective,        \* ordinal of the verify_objective action
    Prerequisites,    \* prerequisite_action_ids of each action
    None,             \* no row
    Deadline,         \* plan.deadline
    CleanupDeadline,  \* plan.cleanup_deadline
    FlowDeadline,     \* deadline of the flow plan
    MaxClock,         \* bound on the clock
    MaxRevision,      \* bound on the chain's checkpoints
    MaxCrashes,       \* bound on processes that die in a call
    Revocable,        \* whether the Scope may be revoked
    FlowMoves,        \* states the parent flow may go to
    Outcomes          \* what the adapter may report, or "interrupted"

Actions == 1..N
Cleanup == N

\* AttackGraph.sealed, AttackChainPlan.sealed, and prepare.
ASSUME ChainConstants ==
    /\ N \in Nat /\ N >= 3
    /\ Objective \in 2..(N - 1)
    /\ Prerequisites \in [Actions -> SUBSET Actions]
    /\ \A a \in Actions : Prerequisites[a] \subseteq 1..(a - 1)
    /\ \A a \in 2..N : Prerequisites[a] # {}
    /\ Objective \in Prerequisites[Cleanup]
    /\ Deadline \in Nat \ {0} /\ CleanupDeadline \in Nat /\ FlowDeadline \in Nat
    /\ Deadline < CleanupDeadline /\ CleanupDeadline <= FlowDeadline
    /\ MaxClock \in Nat /\ MaxRevision \in Nat /\ MaxCrashes \in Nat
    /\ Revocable \in BOOLEAN
    /\ Outcomes \subseteq {"succeeded", "failed", "timed_out", "interrupted"}

VARIABLES
    \* the chain's ledger
    log,        \* checkpoints in the order of their insertion
    rows,       \* row of each claimed action
    audits,     \* audit records: the action and the decision
    \* the parent flow's ledger
    flow,       \* the flow seen from expected_flow_checkpoint_id
    reserved,   \* the chain's action count is reserved in the flow
    \* the callers
    pc, call, seen, next,
    \* the environment
    scopeLive, clock, crashes,
    ran,        \* history: attempts the adapter was called for, by action
    changed     \* history: the target carries test state

ledger == <<log, rows, audits>>
parent == <<flow, reserved>>
local == <<pc, call, seen, next>>
environment == <<scopeLive, clock, crashes>>
history == <<ran, changed>>
vars == <<ledger, parent, local, environment, history>>

Flow == INSTANCE FlowBoundary WITH state <- flow

-----------------------------------------------------------------------------
MaxAttempts == 2

Active == {"running", "cleanup_required"}
Terminal == {"goal_reached", "failed", "timed_out", "killed"}
Statuses == {"planned"} \cup Active \cup Terminal

\* A rejected outcome is recorded like a failed one.
Results == {"succeeded", "failed", "timed_out"}

Checkpoint ==
    [revision : Nat, status : Statuses, nodes : [Actions -> {"pending"} \cup Results],
     objective : BOOLEAN, deferred : Results \cup {None}, failures : Nat]

\* A row of attack_chain_actions; base is the revision of the checkpoint the
\* command expects, and command_id the digest of action, base and attempt.
Row == [base : Nat, attempt : 1..MaxAttempts,
        state : {"started", "completed", "abandoned"}, outcome : Results \cup {None}]

AuditRecord == [action : Actions, decision : {"allowed", "rejected"}]

ASSUME NoneIsNothing == None \notin Results /\ None \notin Row

\* The call a process is in.  `now` and `live` are the time and the Scope it
\* was given; `outcome` is what it will record and `abandon` whether it found
\* a started action when it decided to stop the chain.
Call == [kind : {"create", "execute", "stop"}, now : Nat, live : BOOLEAN,
         action : Actions \cup {None}, base : Nat, attempt : 1..MaxAttempts,
         outcome : Results \cup {None}, abandon : BOOLEAN]

PCs == {"idle", "reserve", "store", "preflight", "authorize", "allow", "reject",
        "claim", "run", "assert", "write"}

-----------------------------------------------------------------------------
(* attack_state_machine.py *)

NextCheckpoint(c, status) == [c EXCEPT !.revision = c.revision + 1, !.status = status]

PlannedCheckpoint ==
    [revision |-> 0, status |-> "planned", nodes |-> [a \in Actions |-> "pending"],
     objective |-> FALSE, deferred |-> None, failures |-> 0]

start_attack_chain(c, now) ==
    NextCheckpoint(c, IF now >= Deadline THEN "timed_out" ELSE "running")

\* Mutant: a cleanup that succeeds always closes the chain as a success.
StatusForgetsDeferred(c, a, o) ==
    IF a # Cleanup THEN IF o = "succeeded" THEN "running" ELSE "cleanup_required"
    ELSE IF o # "succeeded" THEN "failed" ELSE "goal_reached"

StatusAfter(c, a, o) ==
    IF a # Cleanup THEN IF o = "succeeded" THEN "running" ELSE "cleanup_required"
    ELSE IF o # "succeeded" THEN "failed"
    ELSE IF c.deferred = None THEN "goal_reached"
    ELSE IF c.deferred = "timed_out" THEN "timed_out" ELSE "failed"

record_attack_observation(c, a, o) ==
    [NextCheckpoint(c, StatusAfter(c, a, o)) EXCEPT
        !.nodes[a] = o,
        !.failures = IF o = "succeeded" THEN c.failures ELSE c.failures + 1,
        !.objective = c.objective \/ (a = Objective /\ o = "succeeded"),
        !.deferred = IF a = Cleanup THEN None
                     ELSE IF o = "succeeded" THEN c.deferred ELSE o]

stop_attack_chain(c, cleanup_required) ==
    IF cleanup_required
    THEN [NextCheckpoint(c, "cleanup_required") EXCEPT !.deferred = "failed"]
    ELSE [NextCheckpoint(c, "killed") EXCEPT !.deferred = None]

-----------------------------------------------------------------------------
(* attack_store.py *)

Exists == log # <<>>
Latest == log[Len(log)]

Started == {a \in Actions : rows[a] # None /\ rows[a].state = "started"}

\* Mutant: the primary key (chain_plan_id, revision) is not declared.
RevisionUnchecked(c) == TRUE

\* The primary key (chain_plan_id, revision) of attack_chain_checkpoints.
RevisionFree(c) == \A i \in 1..Len(log) : log[i].revision # c.revision

-----------------------------------------------------------------------------
(* Calls: how they begin and end *)

Goto(p, step) == pc' = [pc EXCEPT ![p] = step]
Hold(p, c, d) == seen' = [seen EXCEPT ![p] = c] /\ next' = [next EXCEPT ![p] = d]

Begin(p, kind, step, a, b, n) ==
    /\ pc[p] = "idle"
    /\ Goto(p, step)
    /\ call' = [call EXCEPT ![p] =
          [kind |-> kind, now |-> clock, live |-> scopeLive, action |-> a, base |-> b,
           attempt |-> n, outcome |-> None, abandon |-> FALSE]]

\* The call returns, raises, or its process dies: what it held is gone.
Leave(p) ==
    /\ Goto(p, "idle")
    /\ call' = [call EXCEPT ![p] = None]
    /\ Hold(p, None, None)

Refuse(p) == Leave(p) /\ UNCHANGED <<ledger, parent, environment, history>>

Stay == UNCHANGED <<ledger, parent, environment, history>>

-----------------------------------------------------------------------------
(* AttackChainService._flow_preflight and _action_flow_preflight *)

FlowPreflight(now, live) == flow = "expected" /\ live /\ now < FlowDeadline

\* After the flow has left its checkpoint only the cleanup is admitted, and
\* only under a flow that runs or was stopped by the operator.
CleanupPreflight(c, a, now, live) ==
    /\ a = Cleanup /\ c.status = "cleanup_required"
    /\ now < CleanupDeadline /\ live
    /\ flow \in {"expected", "moved", "cancelled", "killed"}

ActionFlowPreflight(c, p) ==
    \/ FlowPreflight(call[p].now, call[p].live)
    \/ CleanupPreflight(c, call[p].action, call[p].now, call[p].live)

-----------------------------------------------------------------------------
(* AttackChainService.create_and_start *)

BeginCreate(p) ==
    /\ FlowPreflight(clock, scopeLive)
    /\ Begin(p, "create", "reserve", None, 0, 1)
    /\ UNCHANGED <<seen, next>> /\ Stay

CreateRefused(p) == pc[p] = "idle" /\ ~ FlowPreflight(clock, scopeLive) /\ UNCHANGED vars

\* RedTeamStore.reserve_external_actions.
Reserve(p) ==
    /\ pc[p] = "reserve"
    /\ reserved \/ flow = "expected"
    /\ reserved' = TRUE
    /\ Goto(p, "store")
    /\ UNCHANGED <<ledger, flow, call, seen, next, environment, history>>

\* The flow has left its checkpoint or has no budget left.
ReserveRefused(p) == pc[p] = "reserve" /\ ~ reserved /\ Refuse(p)

\* AttackChainStore.create, then the transition of a planned chain.
Store(p) ==
    LET current == IF Exists THEN Latest ELSE PlannedCheckpoint IN
    /\ pc[p] = "store"
    /\ log' = IF Exists THEN log ELSE <<PlannedCheckpoint>>
    /\ IF current.status = "planned"
       THEN /\ Goto(p, "assert") /\ UNCHANGED call
            /\ Hold(p, current, start_attack_chain(current, call[p].now))
       ELSE Leave(p)
    /\ UNCHANGED <<rows, audits, parent, environment, history>>

\* The chain ledger's own check of the flow's budget.
StoreRefused(p) == pc[p] = "store" /\ ~ Exists /\ Refuse(p)

\* _assert_latest of AttackChainStore.advance and complete.
AssertLatest(p) ==
    /\ pc[p] = "assert"
    /\ IF Latest = seen[p]
       THEN Goto(p, "write") /\ UNCHANGED <<call, seen, next>> /\ Stay
       ELSE Refuse(p)

\* The writes of a call whose checkpoint revision is taken are rolled back.
WriteRefused(p) == pc[p] = "write" /\ ~ RevisionFree(next[p]) /\ Refuse(p)

WriteStart(p) ==
    /\ pc[p] = "write" /\ call[p].kind = "create"
    /\ RevisionFree(next[p])
    /\ log' = Append(log, next[p])
    /\ Leave(p)
    /\ UNCHANGED <<rows, audits, parent, environment, history>>

-----------------------------------------------------------------------------
(* AttackChainService.execute *)

\* The checkpoint a command was sealed for.  Commands for older checkpoints
\* than the latest all fare alike, and revision 0 stands for them; a command
\* for another checkpoint than the one a row was claimed with is a conflict.
Bases(a) == IF rows[a] = None THEN {0, Latest.revision} ELSE {rows[a].base}

\* The call reads the chain and finds no completed row to replay.
BeginExecute(p, a, n) ==
    /\ Exists /\ Latest.revision < MaxRevision
    /\ rows[a] # None => rows[a].state # "completed"
    /\ \E b \in Bases(a) : Begin(p, "execute", "preflight", a, b, n)
    /\ Hold(p, Latest, None)
    /\ Stay

\* Mutant: only the status of the confirmed nodes decides.
ChangedByRecordOnly(c) == c.nodes[1] = "succeeded"

\* Mutant: a confirmed change is not looked for, only a started action.
ChangedByRowOnly(c) == Started # {}

\* Whether the target may hold test state: the initial access is the one
\* action with state-change impact besides the cleanup.
ChangedTarget(c) == c.nodes[1] = "succeeded" \/ Started # {}

\* The flow boundary is broken: the chain is to be stopped.
PreflightStops(p) ==
    /\ pc[p] = "preflight"
    /\ ~ ActionFlowPreflight(seen[p], p)
    /\ seen[p].status \in Active
    /\ call' = [call EXCEPT ![p].kind = "stop", ![p].abandon = Started # {}]
    /\ Hold(p, seen[p], stop_attack_chain(seen[p], ChangedTarget(seen[p])))
    /\ Goto(p, "assert")
    /\ Stay

\* AttackChainStore.advance with abandon_started_actions.
Abandon(p) ==
    [a \in Actions |-> IF call[p].abandon /\ a \in Started
                       THEN [rows[a] EXCEPT !.state = "abandoned"] ELSE rows[a]]

WriteStop(p) ==
    /\ pc[p] = "write" /\ call[p].kind = "stop"
    /\ RevisionFree(next[p])
    /\ log' = Append(log, next[p])
    /\ rows' = Abandon(p)
    /\ Goto(p, "reject") /\ UNCHANGED <<call, seen, next>>
    /\ UNCHANGED <<audits, parent, environment, history>>

Cutoff(a) == IF a = Cleanup THEN CleanupDeadline ELSE Deadline

\* Mutant: the order of the actions is left to their prerequisites.
AdmissibleOutOfOrder(c, k) ==
    /\ c.status \in Active /\ k.base = c.revision /\ k.now < Cutoff(k.action)
    /\ IF c.status = "cleanup_required" THEN k.action = Cleanup
       ELSE \A a \in Prerequisites[k.action] : c.nodes[a] = "succeeded"

\* _execute_preflight once the flow boundary holds.
Admissible(c, k) ==
    /\ c.status \in Active /\ k.base = c.revision /\ k.now < Cutoff(k.action)
    /\ IF c.status = "cleanup_required" THEN k.action = Cleanup
       ELSE /\ \A a \in Prerequisites[k.action] : c.nodes[a] = "succeeded"
            /\ \A a \in 1..(k.action - 1) : c.nodes[a] # "pending"

\* A chain that has stopped is left as it is.
Preflight(p) ==
    /\ pc[p] = "preflight"
    /\ \/ ActionFlowPreflight(seen[p], p)
       \/ seen[p].status \notin Active
    /\ Goto(p, IF ActionFlowPreflight(seen[p], p) /\ Admissible(seen[p], call[p])
               THEN "authorize" ELSE "reject")
    /\ UNCHANGED <<call, seen, next>> /\ Stay

\* authorization reads chain and flow again; then the approvals given to the
\* call and the policy decide.
Authorize(p) ==
    /\ pc[p] = "authorize"
    /\ \E approved \in BOOLEAN :
          Goto(p, IF approved /\ ActionFlowPreflight(Latest, p) THEN "allow" ELSE "reject")
    /\ UNCHANGED <<call, seen, next>> /\ Stay

Audit(p, decision) ==
    audits' = audits \cup {[action |-> call[p].action, decision |-> decision]}

Reject(p) ==
    /\ pc[p] = "reject"
    /\ Audit(p, "rejected")
    /\ Leave(p)
    /\ UNCHANGED <<log, rows, parent, environment, history>>

Allow(p) ==
    /\ pc[p] = "allow"
    /\ Audit(p, "allowed")
    /\ Goto(p, "claim")
    /\ UNCHANGED <<log, rows, call, seen, next, parent, environment, history>>

-----------------------------------------------------------------------------
(* AttackChainStore.claim *)

NewRow(k) == [base |-> k.base, attempt |-> k.attempt, state |-> "started", outcome |-> None]

FirstClaim(a, k) == rows[a] = None /\ k.attempt = 1 /\ Started = {}

\* Mutant: the UPDATE does not ask for state='started'.
NextClaimOfAnyState(a, k) ==
    /\ rows[a] # None /\ rows[a].base = k.base /\ rows[a].state # "completed"
    /\ k.attempt = rows[a].attempt + 1

\* Mutant: the attempt a command carries is not compared with the row's.
NextClaimOfAnyAttempt(a, k) ==
    rows[a] # None /\ rows[a].base = k.base /\ rows[a].state = "started"

NextClaim(a, k) ==
    /\ rows[a] # None /\ rows[a].base = k.base /\ rows[a].state = "started"
    /\ k.attempt = rows[a].attempt + 1

Claim(p) ==
    LET a == call[p].action
        k == call[p]
    IN /\ pc[p] = "claim"
       /\ FirstClaim(a, k) \/ NextClaim(a, k)
       /\ rows' = [rows EXCEPT ![a] = NewRow(k)]
       /\ Goto(p, "run")
       /\ UNCHANGED <<log, audits, parent, call, seen, next, environment, history>>

\* A conflict, a claim that was overtaken, or the replay of a completed row.
ClaimRefused(p) ==
    LET a == call[p].action
        k == call[p]
    IN /\ pc[p] = "claim"
       /\ ~ FirstClaim(a, k) /\ ~ NextClaim(a, k)
       /\ Refuse(p)

-----------------------------------------------------------------------------
(* The adapter, and the recording of what it reports *)

\* What the adapter may do to the target: an initial access and a cleanup
\* that do not succeed may still have taken effect.
Effect(a, o) ==
    CASE a = 1 -> IF o = "succeeded" THEN {TRUE} ELSE {changed, TRUE}
      [] a = Cleanup -> IF o = "succeeded" THEN {FALSE} ELSE {changed, FALSE}
      [] OTHER -> {changed}

Dispatch(p, o) ==
    /\ ran' = [ran EXCEPT ![call[p].action] = Append(@, call[p].attempt)]
    /\ changed' \in Effect(call[p].action, o)
    /\ UNCHANGED <<ledger, parent, environment>>

\* The adapter is interrupted, or its observation is not of this command and
\* time.  The last attempt records that as a failure; an earlier one raises.
Interrupted(p, o, at) == o = "interrupted" \/ at >= Cutoff(call[p].action)

RunInterrupted(p) ==
    /\ pc[p] = "run" /\ call[p].attempt < MaxAttempts
    /\ \E o \in Outcomes, at \in call[p].now..clock :
          Interrupted(p, o, at) /\ Dispatch(p, o)
    /\ Leave(p)

Run(p) ==
    /\ pc[p] = "run"
    /\ \E o \in Outcomes, at \in call[p].now..clock :
          LET r == IF Interrupted(p, o, at) THEN "failed" ELSE o IN
          /\ Interrupted(p, o, at) => call[p].attempt = MaxAttempts
          /\ Dispatch(p, o)
          /\ call' = [call EXCEPT ![p].outcome = r]
          /\ Hold(p, seen[p], record_attack_observation(seen[p], call[p].action, r))
    /\ Goto(p, "assert")

\* The claim is still this command's.
OwnsClaim(p) ==
    LET r == rows[call[p].action] IN
    /\ r # None /\ r.state = "started"
    /\ r.base = call[p].base /\ r.attempt = call[p].attempt

\* AttackChainStore.complete.
WriteComplete(p) ==
    /\ pc[p] = "write" /\ call[p].kind = "execute"
    /\ RevisionFree(next[p])
    /\ IF OwnsClaim(p)
       THEN /\ log' = Append(log, next[p])
            /\ rows' = [rows EXCEPT ![call[p].action].state = "completed",
                                    ![call[p].action].outcome = call[p].outcome]
            /\ Leave(p)
            /\ UNCHANGED <<audits, parent, environment, history>>
       ELSE Refuse(p)

-----------------------------------------------------------------------------
(* The environment *)

Tick ==
    /\ clock < MaxClock
    /\ clock' = clock + 1
    /\ UNCHANGED <<ledger, parent, local, scopeLive, crashes, history>>

RevokeScope ==
    /\ Revocable /\ scopeLive
    /\ scopeLive' = FALSE
    /\ UNCHANGED <<ledger, parent, local, clock, crashes, history>>

FlowStep ==
    /\ Flow!Next /\ flow' \in FlowMoves
    /\ UNCHANGED <<ledger, reserved, local, environment, history>>

Crash(p) ==
    /\ pc[p] # "idle" /\ crashes < MaxCrashes
    /\ crashes' = crashes + 1
    /\ Leave(p)
    /\ UNCHANGED <<ledger, parent, scopeLive, clock, history>>

\* A process that dies while the adapter runs: the request may have left.
CrashInRun(p) ==
    /\ pc[p] = "run" /\ crashes < MaxCrashes
    /\ crashes' = crashes + 1
    /\ ran' = [ran EXCEPT ![call[p].action] = Append(@, call[p].attempt)]
    /\ changed' \in Effect(call[p].action, "interrupted")
    /\ Leave(p)
    /\ UNCHANGED <<ledger, parent, scopeLive, clock>>

-----------------------------------------------------------------------------
Init ==
    /\ log = <<>>
    /\ rows = [a \in Actions |-> None]
    /\ audits = {}
    /\ flow = "expected" /\ reserved = FALSE
    /\ pc = [p \in Procs |-> "idle"]
    /\ call = [p \in Procs |-> None]
    /\ seen = [p \in Procs |-> None]
    /\ next = [p \in Procs |-> None]
    /\ scopeLive = TRUE /\ clock = 0 /\ crashes = 0
    /\ ran = [a \in Actions |-> <<>>]
    /\ changed = FALSE

CreateNext(p) ==
    \/ BeginCreate(p) \/ CreateRefused(p)
    \/ Reserve(p) \/ ReserveRefused(p)
    \/ Store(p) \/ StoreRefused(p) \/ WriteStart(p)

ExecuteNext(p) ==
    \/ \E a \in Actions, n \in 1..MaxAttempts : BeginExecute(p, a, n)
    \/ PreflightStops(p) \/ Preflight(p) \/ WriteStop(p)
    \/ Authorize(p) \/ Allow(p) \/ Reject(p)
    \/ Claim(p) \/ ClaimRefused(p)
    \/ RunInterrupted(p) \/ Run(p) \/ WriteComplete(p)

Next ==
    \/ \E p \in Procs :
          \/ CreateNext(p) \/ ExecuteNext(p)
          \/ AssertLatest(p) \/ WriteRefused(p)
          \/ Crash(p) \/ CrashInRun(p)
    \/ Tick \/ RevokeScope \/ FlowStep

Spec == Init /\ [][Next]_vars

-----------------------------------------------------------------------------
(* Properties *)

\* Type invariant of the ledgers and of what a call of the service holds.
TypeOK ==
    /\ log \in Seq(Checkpoint)
    /\ rows \in [Actions -> Row \cup {None}]
    /\ audits \subseteq AuditRecord
    /\ flow \in Flow!States /\ reserved \in BOOLEAN
    /\ pc \in [Procs -> PCs]
    /\ call \in [Procs -> Call \cup {None}]
    /\ seen \in [Procs -> Checkpoint \cup {None}]
    /\ next \in [Procs -> Checkpoint \cup {None}]
    /\ scopeLive \in BOOLEAN /\ clock \in Nat /\ crashes \in Nat
    /\ ran \in [Actions -> Seq(1..MaxAttempts)]
    /\ changed \in BOOLEAN

Failed(c) == {a \in Actions : c.nodes[a] \in {"failed", "timed_out"}}

\* Every checkpoint a transition makes passes the validator that reads apply
\* (AttackChainCheckpoint.sealed), so the ledger never becomes unreadable: the
\* failure count is that of the nodes, a deferred outcome goes with pending
\* cleanup, and success means that every action, the cleanup too, succeeded.
Sealed ==
    \A i \in 1..Len(log) :
        LET c == log[i] IN
        /\ c.failures = Cardinality(Failed(c))
        /\ (c.status = "cleanup_required") <=> (c.deferred # None)
        /\ c.status = "cleanup_required" => c.nodes[Cleanup] = "pending"
        /\ c.objective => c.nodes[Objective] = "succeeded"
        /\ c.status = "goal_reached" =>
              c.objective /\ \A a \in Actions : c.nodes[a] = "succeeded"

\* The two tables agree, whatever calls of execute overlap: an action is done
\* in the latest checkpoint exactly when its claim is completed, with the same
\* outcome.  No completion is lost to a stop, and none is recorded twice.
LedgerAgrees ==
    Exists => \A a \in Actions, o \in Results :
        (Latest.nodes[a] = o) <=>
            (rows[a] # None /\ rows[a].state = "completed" /\ rows[a].outcome = o)

\* The adapter is never called for an action before every earlier one has
\* succeeded; the cleanup may also be called in a chain that requires it.
NoSkippedStep ==
    \A a \in Actions : ran[a] # <<>> =>
        \/ \A b \in 1..(a - 1) : Latest.nodes[b] = "succeeded"
        \/ a = Cleanup /\ \E i \in 1..Len(log) : log[i].status = "cleanup_required"

\* An attempt reaches the adapter at most once, across processes and restarts:
\* the claim of an attempt is not given out twice.
AttemptsOnce ==
    \A a \in Actions : \A i, j \in 1..Len(ran[a]) : ran[a][i] = ran[a][j] => i = j

\* No chain is in the chain ledger without its budget in the flow ledger,
\* wherever create_and_start is cut off between the two databases.
ReservedFirst == Exists => reserved

\* The adapter is only called for an action whose admission is in the audit
\* table already: a crash cannot leave a run that was not audited.
AuditedRuns ==
    \A a \in Actions : ran[a] # <<>> => [action |-> a, decision |-> "allowed"] \in audits

\* A chain that ends other than by a stop, after the adapter was called, has
\* called it for the cleanup too.
EndsThroughCleanup ==
    Exists /\ Latest.status \in {"goal_reached", "failed", "timed_out"} /\ ran[1] # <<>>
        => ran[Cleanup] # <<>>

\* A change of the target that the ledger records is never closed as killed,
\* whichever call of execute finds the flow boundary broken.
ConfirmedChangeNotKilled ==
    Exists /\ Latest.status = "killed" => Latest.nodes[1] # "succeeded"

\* A change of the target is not forgotten, however the chain ends: it is not
\* closed as killed, and no other end is reached without trying the cleanup.
ChangesAreCleanedUp == ConfirmedChangeNotKilled /\ EndsThroughCleanup

\* A chain is written in the order its safety rests on, wherever a call dies:
\* budget, chain, audit record, claim, request, and no request out of turn.
WrittenInOrder == TypeOK /\ ReservedFirst /\ AuditedRuns /\ NoSkippedStep

\* A chain is only closed as killed when it left no test state on the target.
KilledIsClean == Exists /\ Latest.status = "killed" => ~ changed

\* The checkpoints of a chain only grow, one revision at a time, and a chain
\* that has ended gets no further checkpoint, not even from a call that read
\* the chain before it ended.
StopsAreFinal ==
    [][log' # log =>
          /\ Len(log') = Len(log) + 1 /\ SubSeq(log', 1, Len(log)) = log
          /\ log'[Len(log')].revision = Len(log)
          /\ Exists => Latest.status \notin Terminal]_vars

\* A stop that meets a claim left open by a call that was interrupted or died
\* does not close the chain as killed: the action may have changed the target.
\* It holds of calls that do not overlap: a claim between the look at the
\* claims and the write of the stop is not seen.
UncertainNotKilled ==
    [][log' # log /\ log'[Len(log')].status = "killed" => Started = {}]_vars

\* A claim that was completed or abandoned is never taken up again, not even
\* by a call that was admitted before.
ClosedClaimsStayClosed ==
    [][\A a \in Actions :
          rows[a] # None /\ rows[a].state # "started" => rows'[a] = rows[a]]_vars

\* What has ended stays ended: the chain, and each claim of it.
EndsAreFinal == StopsAreFinal /\ ClosedClaimsStayClosed
=============================================================================
