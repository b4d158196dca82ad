---------------------------- MODULE RedTeamFlow ----------------------------
(***************************************************************************)
(* One authorized Red Team flow (src/vulnloom/red_team): the ledger        *)
(* RedTeamStore keeps in SQLite, the pure transitions of state_machine.py, *)
(* and the operations of RedTeamService and RedTeamReplanningService that  *)
(* read and write the ledger.                                              *)
(*                                                                         *)
(* The ledger belongs to one sealed plan.  Several processes (CLI calls)   *)
(* work on it at once.  An operation is a sequence of short database       *)
(* accesses with an adapter call in the middle, and its process may die    *)
(* between any two of them.  Only the writes that begin with BEGIN         *)
(* IMMEDIATE check and write in one step; `with self.connection` opens its *)
(* transaction at the first write, so the SELECT of _assert_latest is a    *)
(* step of its own before the INSERT it guards.                            *)
(*                                                                         *)
(* Ids are digests of contents, so records are compared as values.  A call *)
(* that is refused before it writes leaves the ledger as it is; such calls *)
(* are the missing disjuncts of the operation that begins, and Refuse once *)
(* it has begun.                                                           *)
(***************************************************************************)
EXTENDS Integers, Sequences, FiniteSets

CONSTANTS
    Procs,        \* processes that call the services
    Keys,         \* idempotency keys of operator-prepared recon actions
    Proposals,    \* idempotency keys of replan proposals
    Chains,       \* reservation ids: attack chains that draw on this flow
    None,         \* no row
    MaxActions,   \* stop_conditions.max_actions
    MaxFailures,  \* stop_conditions.max_consecutive_failures
    Deadline,     \* plan.deadline
    Ttl,          \* life of a prepared action and of a tool view
    MaxClock,     \* bound on the clock
    MaxPrepared,  \* bound on prepared operator actions
    MaxCrashes,   \* bound on processes that die in an operation
    Revocable,    \* whether the Scope may be revoked
    Outcomes, Cleanups  \* what the adapter may report

ASSUME FlowConstants ==
    /\ IsFiniteSet(Keys) /\ IsFiniteSet(Proposals) /\ IsFiniteSet(Chains)
    /\ Keys \cap Proposals = {}
    /\ MaxActions \in Nat \ {0}
    /\ MaxFailures \in Nat \ {0}
    /\ Deadline \in Nat \ {0}
    /\ Ttl \in Nat \ {0}
    /\ MaxClock \in Nat
    /\ MaxPrepared \in Nat
    /\ MaxCrashes \in Nat
    /\ Revocable \in BOOLEAN
    /\ Outcomes \subseteq {"succeeded", "timed_out", "failed"}
    /\ Cleanups \subseteq BOOLEAN

VARIABLES
    \* the ledger
    log,         \* checkpoints in the order of their insertion
    actions,     \* row of each claimed action, by idempotency key
    views,       \* issued replan tool views
    admissions,  \* row of each admitted replan proposal
    external,    \* action budget reserved by attack chains
    receipts,    \* execution receipt of each replan proposal
    \* the callers
    prepared,    \* sealed operator actions
    pc, call, seen, next, found,  \* each process: see Call
    \* the environment
    scopeLive,   \* the Scope is approved; its window ends after the Deadline
    clock, crashes,
    ran          \* history: the attempts the adapter was called for, by key

ledger == <<log, actions, views, admissions, external, receipts>>
local == <<pc, call, seen, next, found>>
environment == <<scopeLive, clock, crashes>>
vars == <<ledger, prepared, local, environment, ran>>

-----------------------------------------------------------------------------
MaxAttempts == 3

Terminal == {"completed", "cancelled", "timed_out", "failed", "killed"}
Statuses == {"planned", "running"} \cup Terminal

\* The key of a replanned action is made from its proposal's key.
ActionKeys == Keys \cup Proposals

\* A sealed RedTeamReconAction: base is the revision of expected_checkpoint_id.
Action == [key : ActionKeys, base : Nat, created : Nat, deadline : Nat]

\* What the adapter reports.  A rejected and a failed outcome count alike.
\* A successful observation cannot be sealed without its cleanup proof.
Observation == {o \in [key : ActionKeys, outcome : {"succeeded", "timed_out", "failed"},
                       cleanup : BOOLEAN, at : Nat] :
                   o.outcome = "succeeded" => o.cleanup}

Checkpoint == [revision : Nat, status : Statuses, used : Nat, failures : Nat,
               observations : SUBSET Observation, at : Nat]

\* A row of red_team_actions; command_id is the digest of action and attempt.
ActionRow == [action : Action, attempt : 1..MaxAttempts,
              state : {"started", "completed"}, observation : Observation \cup {None}]

ToolView == [base : Nat, issued : Nat, expires : Nat]

\* An admitted proposal: the action sealed for it and the state of its budget.
Admission == [action : Action,
              state : {"reserved", "consumed", "cancelled", "expired"}]

Reservation == [base : Nat, count : 1..MaxActions]

Receipt == [source : Nat, result : Nat, observation : Observation]

\* The operation a process is in: `now` is the argument all its checks use,
\* `live` whether the Scope it was given is approved.
\* seen: the checkpoint it read; next: the one it will insert; found: the
\* observation it records or replays.
Call == [kind : {"start", "stop", "recon", "replan", "admit"}, now : Nat,
         live : BOOLEAN, action : Action \cup {None}, attempt : 1..MaxAttempts]

PCs == {"idle", "create", "assert", "insert", "admit",
        "replay", "claim", "run", "record", "complete", "receipt"}

ASSUME NoneIsNoRow ==
    /\ None \notin Action /\ None \notin Observation /\ None \notin Checkpoint
    /\ None \notin ActionRow /\ None \notin Admission /\ None \notin Reservation
    /\ None \notin Receipt /\ None \notin Call

EarlierOf(a, b) == IF a <= b THEN a ELSE b

-----------------------------------------------------------------------------
(* state_machine.py *)

NextCheckpoint(c, status, now) ==
    [c EXCEPT !.revision = c.revision + 1, !.status = status, !.at = now]

PlannedCheckpoint(now) ==
    [revision |-> 0, status |-> "planned", used |-> 0, failures |-> 0,
     observations |-> {}, at |-> now]

start_flow(c, now) ==
    NextCheckpoint(c, IF now >= Deadline THEN "timed_out" ELSE "running", now)

FailuresAfter(c, o) == IF o.outcome = "succeeded" THEN 0 ELSE c.failures + 1

\* The stop conditions in the order they are tried.
StatusAfter(c, o) ==
    IF ~ o.cleanup THEN "failed"
    ELSE IF o.outcome = "timed_out" THEN "timed_out"
    ELSE IF FailuresAfter(c, o) >= MaxFailures THEN "failed"
    ELSE IF c.used + 1 >= MaxActions THEN "completed" ELSE "running"

CanRecord(c, o) ==
    c.status = "running" /\ o.at < Deadline /\ o \notin c.observations

\* Mutant: only successful actions are charged to the budget.
RecordedUnchargedFailure(c, o) ==
    [NextCheckpoint(c, StatusAfter(c, o), o.at) EXCEPT
        !.used = IF o.outcome = "succeeded" THEN c.used + 1 ELSE c.used,
        !.failures = FailuresAfter(c, o),
        !.observations = c.observations \cup {o}]

record_observation(c, o) ==
    [NextCheckpoint(c, StatusAfter(c, o), o.at) EXCEPT
        !.used = c.used + 1,
        !.failures = FailuresAfter(c, o),
        !.observations = c.observations \cup {o}]

cancel_flow(c, now) == NextCheckpoint(c, "cancelled", now)
activate_kill_switch(c, now) == NextCheckpoint(c, "killed", now)
expire_flow(c, now) == NextCheckpoint(c, "timed_out", now)

-----------------------------------------------------------------------------
(* store.py *)

Exists == log # <<>>
Latest == log[Len(log)]
Running == Exists /\ Latest.status = "running"
Stopped == Exists /\ Latest.status \in Terminal

Started == {k \in ActionKeys : actions[k] # None /\ actions[k].state = "started"}
Completed == {k \in ActionKeys : actions[k] # None /\ actions[k].state = "completed"}
ReservedReplans == {q \in Proposals : admissions[q] # None /\ admissions[q].state = "reserved"}

\* The actions the external reservations stand for: SUM(action_count) many.
ExternalSlots ==
    {s \in Chains \X (1..MaxActions) :
        external[s[1]] # None /\ s[2] <= external[s[1]].count}

\* What an action may cost the target: done, claimed, or promised to a chain.
Committed == Latest.used + Cardinality(Started) + Cardinality(ExternalSlots)
Budgeted == Committed + Cardinality(ReservedReplans)

\* Mutant: the primary key (plan_id, revision) is not declared.
RevisionFreeUnchecked(c) == TRUE

\* The primary key (plan_id, revision) of red_team_checkpoints.
RevisionFree(c) == \A i \in 1..Len(log) : log[i].revision # c.revision

InsertCheckpoint(c) == log' = Append(log, c)

-----------------------------------------------------------------------------
(* Operations: how they begin and end *)

Begin(p, kind, step, act, n) ==
    /\ pc[p] = "idle"
    /\ pc' = [pc EXCEPT ![p] = step]
    /\ call' = [call EXCEPT ![p] = [kind |-> kind, now |-> clock, live |-> scopeLive,
                                    action |-> act, attempt |-> n]]

Goto(p, step) == pc' = [pc EXCEPT ![p] = step] /\ UNCHANGED call
Read(p, c) == seen' = [seen EXCEPT ![p] = c]
Plan(p, c) == next' = [next EXCEPT ![p] = c]
Find(p, o) == found' = [found EXCEPT ![p] = o]

\* The call returns, raises, or its process dies: what it held is gone.
Leave(p) ==
    /\ pc' = [pc EXCEPT ![p] = "idle"]
    /\ call' = [call EXCEPT ![p] = None]
    /\ Read(p, None) /\ Plan(p, None) /\ Find(p, None)

Refuse(p) == Leave(p) /\ UNCHANGED <<ledger, prepared, environment, ran>>

\* _execute_bound_recon returns checkpoint c and observation o; a replanned
\* execution with a proven cleanup goes on to its receipt.
Return(p, c, o) ==
    IF call[p].kind = "replan" /\ o.cleanup
    THEN Goto(p, "receipt") /\ Read(p, c) /\ Find(p, o) /\ Plan(p, None)
    ELSE Leave(p)

Act(p) == call[p].action
Key(p) == Act(p).key
Row(p) == actions[Key(p)]

-----------------------------------------------------------------------------
(* RedTeamService.create_and_start, cancel, kill, expire *)

\* _scope and the deadline check of _preflight_plan.
Authorized == scopeLive /\ clock < Deadline

BeginCreate(p) ==
    /\ Authorized /\ ~ Exists
    /\ Begin(p, "start", "create", None, 1)
    /\ Plan(p, PlannedCheckpoint(clock))
    /\ UNCHANGED <<ledger, prepared, seen, found, environment, ran>>

\* The plan is already stored.  Only a planned flow is started again.
BeginStart(p) ==
    /\ Authorized /\ Exists
    /\ Latest.status = "planned"
    /\ Begin(p, "start", "assert", None, 1)
    /\ Read(p, Latest)
    /\ Plan(p, start_flow(Latest, clock))
    /\ UNCHANGED <<ledger, prepared, found, environment, ran>>

\* create_and_start of a flow that is past planned returns the checkpoint;
\* a plan that was never stored is refused once its deadline has passed.
NothingToStart(p) ==
    /\ pc[p] = "idle"
    /\ IF Exists THEN Authorized /\ Latest.status # "planned" ELSE ~ Authorized
    /\ UNCHANGED vars

\* RedTeamStore.create.  What it returns is not used: the caller goes on with
\* the planned checkpoint it made, even when another call stored the plan.
Create(p) ==
    /\ pc[p] = "create"
    /\ log' = IF Exists THEN log ELSE <<next[p]>>
    /\ Goto(p, "assert")
    /\ Read(p, next[p])
    /\ Plan(p, start_flow(next[p], call[p].now))
    /\ UNCHANGED <<actions, views, admissions, external, receipts, prepared, found,
                   environment, ran>>

\* Its SELECT found no plan and its INSERT hits the one stored since.
CreateRaced(p) == pc[p] = "create" /\ Exists /\ Refuse(p)

\* Mutant: only a running flow expires.
StopsRunningOnly(c, now) ==
    {cancel_flow(c, now), activate_kill_switch(c, now)}
        \cup (IF now >= Deadline /\ c.status = "running" THEN {expire_flow(c, now)} ELSE {})

\* What the operator may turn a flow into that has not stopped.
Stops(c, now) ==
    {cancel_flow(c, now), activate_kill_switch(c, now)}
        \cup (IF now >= Deadline THEN {expire_flow(c, now)} ELSE {})

BeginStop(p) ==
    /\ Exists /\ ~ Stopped
    /\ Begin(p, "stop", "assert", None, 1)
    /\ Read(p, Latest)
    /\ \E c \in Stops(Latest, clock) : Plan(p, c)
    /\ UNCHANGED <<ledger, prepared, found, environment, ran>>

\* expire returns the checkpoint of a flow that has stopped.
ExpireStopped(p) == pc[p] = "idle" /\ Stopped /\ UNCHANGED vars

\* RedTeamStore.advance: _assert_latest, then _insert_checkpoint.
AssertLatest(p) ==
    /\ pc[p] = "assert"
    /\ IF Latest = seen[p]
       THEN Goto(p, "insert") /\ UNCHANGED <<ledger, prepared, seen, next, found, environment, ran>>
       ELSE Refuse(p)

Insert(p) ==
    /\ pc[p] = "insert"
    /\ IF RevisionFree(next[p])
       THEN /\ InsertCheckpoint(next[p])
            /\ Leave(p)
            /\ UNCHANGED <<actions, views, admissions, external, receipts, prepared,
                           environment, ran>>
       ELSE Refuse(p)

-----------------------------------------------------------------------------
(* RedTeamService.prepare_recon and _execute_bound_recon *)

\* The sealed command is kept by the caller; the ledger does not know it.
PrepareRecon(k) ==
    /\ Authorized /\ Running
    /\ Cardinality(prepared) < MaxPrepared
    /\ prepared' = prepared \cup
          {[key |-> k, base |-> Latest.revision, created |-> clock,
            deadline |-> EarlierOf(clock + Ttl, Deadline)]}
    /\ UNCHANGED <<ledger, local, environment, ran>>

\* execute_recon: the first read of the latest checkpoint.
BeginRecon(p, a, n) ==
    /\ Begin(p, "recon", "replay", a, n)
    /\ Read(p, Latest)
    /\ UNCHANGED <<ledger, prepared, next, found, environment, ran>>

\* RedTeamReplanningService.execute with the exact Approval of the action.
BeginReplan(p, q, n) ==
    /\ scopeLive
    /\ admissions[q] # None
    /\ admissions[q].state \in {"reserved", "consumed"}
    /\ Begin(p, "replan", "replay", admissions[q].action, n)
    /\ Read(p, Latest)
    /\ UNCHANGED <<ledger, prepared, next, found, environment, ran>>

\* completed_action, then _preflight_running and the binding of the action to
\* the checkpoint read before.
Preflight(p) ==
    /\ call[p].live /\ call[p].now < Deadline
    /\ Latest = seen[p] /\ seen[p].status = "running"
    /\ Act(p).base = seen[p].revision
    /\ call[p].now < Act(p).deadline

Replay(p) ==
    /\ pc[p] = "replay"
    /\ \/ /\ Row(p) # None /\ Row(p).action = Act(p) /\ Row(p).state = "completed"
          /\ Return(p, seen[p], Row(p).observation)
       \/ /\ Row(p) # None => Row(p).action = Act(p) /\ Row(p).state = "started"
          /\ Preflight(p)
          /\ Goto(p, "claim")
          /\ UNCHANGED <<seen, next, found>>
       \/ /\ \/ Row(p) # None /\ Row(p).action # Act(p)
             \/ (Row(p) # None => Row(p).state = "started") /\ ~ Preflight(p)
          /\ Leave(p)
    /\ UNCHANGED <<ledger, prepared, environment, ran>>

-----------------------------------------------------------------------------
(* RedTeamStore.claim_action: one BEGIN IMMEDIATE transaction *)

\* Mutant: the same attempt may be claimed again.
IsNextAttemptOrSame(p) == call[p].attempt \in {Row(p).attempt, Row(p).attempt + 1}

IsNextAttempt(p) == call[p].attempt = Row(p).attempt + 1

\* A started action is taken over by its next attempt.  Neither the latest
\* checkpoint nor the budget is looked at again.
Reclaim(p) ==
    /\ Row(p) # None /\ Row(p).action = Act(p) /\ Row(p).state = "started"
    /\ IsNextAttempt(p)
    /\ actions' = [actions EXCEPT ![Key(p)].attempt = call[p].attempt]
    /\ Goto(p, "run")
    /\ UNCHANGED <<admissions, seen, next, found>>

ClaimReplay(p) ==
    /\ Row(p) # None /\ Row(p).action = Act(p) /\ Row(p).state = "completed"
    /\ Return(p, Latest, Row(p).observation)
    /\ UNCHANGED <<actions, admissions>>

\* Mutant: the checkpoint the action was prepared for need not be the latest.
IsBoundToAny(p) == TRUE

IsBoundToLatest(p) == Latest.revision = Act(p).base

\* Mutant: reservations of attack chains are not counted.
ClaimFitsWithoutChains(p) ==
    Latest.used + Cardinality(Started) + Cardinality(ReservedReplans)
        + (IF Key(p) \in Proposals THEN 0 ELSE 1) <= MaxActions

\* A replanned action was counted when its proposal was admitted.
ClaimFits(p) == Budgeted + (IF Key(p) \in Proposals THEN 0 ELSE 1) <= MaxActions

\* The partial unique index red_team_one_started_action.
NoneStarted == Started = {}

CanFirstClaim(p) ==
    /\ Row(p) = None /\ call[p].attempt = 1
    /\ IsBoundToLatest(p) /\ ClaimFits(p) /\ NoneStarted
    /\ Key(p) \in Proposals =>
          admissions[Key(p)].state = "reserved" /\ admissions[Key(p)].action = Act(p)

FirstClaim(p) ==
    /\ CanFirstClaim(p)
    /\ actions' = [actions EXCEPT ![Key(p)] =
          [action |-> Act(p), attempt |-> 1, state |-> "started", observation |-> None]]
    /\ admissions' = IF Key(p) \in Proposals
                     THEN [admissions EXCEPT ![Key(p)].state = "consumed"]
                     ELSE admissions
    /\ Goto(p, "run")
    /\ UNCHANGED <<seen, next, found>>

CanClaim(p) ==
    IF Row(p) = None THEN CanFirstClaim(p)
    ELSE Row(p).action = Act(p) /\ (Row(p).state = "completed" \/ IsNextAttempt(p))

Claim(p) ==
    /\ pc[p] = "claim"
    /\ \/ FirstClaim(p) \/ Reclaim(p) \/ ClaimReplay(p)
       \/ ~ CanClaim(p) /\ Leave(p) /\ UNCHANGED <<actions, admissions>>
    /\ UNCHANGED <<log, views, external, receipts, prepared, environment, ran>>

-----------------------------------------------------------------------------
(* The adapter call, record_observation and RedTeamStore.complete_action *)

Called(p) == ran' = [ran EXCEPT ![Key(p)] = Append(@, call[p].attempt)]

AdapterReturns(p) ==
    /\ pc[p] = "run"
    /\ Called(p)
    /\ \E outcome \in Outcomes, cleanup \in Cleanups,
          at \in {call[p].now, clock} :
          /\ outcome = "succeeded" => cleanup
          /\ at < Act(p).deadline
          /\ Find(p, [key |-> Key(p), outcome |-> outcome, cleanup |-> cleanup, at |-> at])
    /\ Goto(p, "record")
    /\ UNCHANGED <<ledger, prepared, seen, next, environment>>

\* RedTeamAdapterInterrupted before the last attempt, or an observation that
\* the provenance check refuses (late, or not what the action asked for).
AdapterFails(p) ==
    /\ pc[p] = "run"
    /\ Called(p)
    /\ Leave(p)
    /\ UNCHANGED <<ledger, prepared, environment>>

\* RedTeamAdapterInterrupted in the last attempt.
AdapterExhausted(p) ==
    /\ pc[p] = "run"
    /\ call[p].attempt = MaxAttempts
    /\ Called(p)
    /\ Find(p, [key |-> Key(p), outcome |-> "failed", cleanup |-> FALSE, at |-> call[p].now])
    /\ Goto(p, "record")
    /\ UNCHANGED <<ledger, prepared, seen, next, environment>>

\* The transition is computed from the checkpoint read before the claim;
\* _assert_latest of complete_action.
Record(p) ==
    /\ pc[p] = "record"
    /\ IF CanRecord(seen[p], found[p]) /\ Latest = seen[p]
       THEN /\ Plan(p, record_observation(seen[p], found[p]))
            /\ Goto(p, "complete")
            /\ UNCHANGED <<ledger, prepared, seen, found, environment, ran>>
       ELSE Refuse(p)

HoldsClaim(p) == Row(p).state = "started" /\ Row(p).attempt = call[p].attempt

Complete(p) ==
    /\ pc[p] = "complete"
    /\ IF HoldsClaim(p) /\ RevisionFree(next[p])
       THEN /\ actions' = [actions EXCEPT ![Key(p)].state = "completed",
                                          ![Key(p)].observation = found[p]]
            /\ InsertCheckpoint(next[p])
            /\ Return(p, next[p], found[p])
            /\ UNCHANGED <<views, admissions, external, receipts, prepared, environment, ran>>
       ELSE Refuse(p)

\* The end of RedTeamReplanningService.execute: a receipt is stored once; a
\* stored one is compared with what this call returns.
PutReceipt(p) ==
    /\ pc[p] = "receipt"
    /\ receipts' = IF receipts[Key(p)] # None THEN receipts
                   ELSE [receipts EXCEPT ![Key(p)] =
                           [source |-> Act(p).base, result |-> seen[p].revision,
                            observation |-> found[p]]]
    /\ Leave(p)
    /\ UNCHANGED <<log, actions, views, admissions, external, prepared, environment, ran>>

-----------------------------------------------------------------------------
(* Replanning and the budget that attack chains reserve *)

IssueToolView ==
    /\ Authorized /\ Running
    /\ Latest.observations # {}
    /\ Budgeted < MaxActions
    /\ views' = views \cup {[base |-> Latest.revision, issued |-> clock,
                             expires |-> EarlierOf(clock + Ttl, Deadline)]}
    /\ UNCHANGED <<log, actions, admissions, external, receipts, prepared, local,
                   environment, ran>>

\* RedTeamReplanningService.admit up to its transaction.
BeginAdmit(p, q, v) ==
    /\ admissions[q] = None
    /\ Authorized /\ Running
    /\ v.base = Latest.revision /\ clock < v.expires
    /\ Begin(p, "admit", "admit",
             [key |-> q, base |-> v.base, created |-> clock,
              deadline |-> EarlierOf(clock + Ttl, v.expires)], 1)
    /\ UNCHANGED <<ledger, prepared, seen, next, found, environment, ran>>

\* RedTeamStore.admit_replan.
Admit(p) ==
    /\ pc[p] = "admit"
    /\ admissions' =
          IF /\ admissions[Key(p)] = None
             /\ Running /\ Latest.revision = Act(p).base
             /\ Budgeted < MaxActions
          THEN [admissions EXCEPT ![Key(p)] = [action |-> Act(p), state |-> "reserved"]]
          ELSE admissions
    /\ Leave(p)
    /\ UNCHANGED <<log, actions, views, external, receipts, prepared, environment, ran>>

\* Mutant: a consumed reservation can be released too.
ReleasableOnceConsumed(q) == admissions[q].state \in {"reserved", "consumed"}

Releasable(q) == admissions[q].state = "reserved"

\* RedTeamReplanningService.cancel and expire.
Release(q, state) ==
    /\ admissions[q] # None
    /\ Releasable(q)
    /\ state = "expired" => clock >= admissions[q].action.deadline
    /\ admissions' = [admissions EXCEPT ![q].state = state]
    /\ UNCHANGED <<log, actions, views, external, receipts, prepared, local, environment, ran>>

\* RedTeamStore.reserve_external_actions, called before a chain is created.
\* A reservation that is stored already is left as it is.
ReserveExternal(c, n) ==
    /\ external[c] = None
    /\ Running
    /\ Committed + n <= MaxActions
    /\ external' = [external EXCEPT ![c] = [base |-> Latest.revision, count |-> n]]
    /\ UNCHANGED <<log, actions, views, admissions, receipts, prepared, local, environment, ran>>

-----------------------------------------------------------------------------
(* The environment *)

Revoke ==
    /\ Revocable /\ scopeLive
    /\ scopeLive' = FALSE
    /\ UNCHANGED <<ledger, prepared, local, clock, crashes, ran>>

Tick ==
    /\ clock < MaxClock
    /\ clock' = clock + 1
    /\ UNCHANGED <<ledger, prepared, local, scopeLive, crashes, ran>>

Crash(p) ==
    /\ pc[p] # "idle" /\ crashes < MaxCrashes
    /\ crashes' = crashes + 1
    /\ Leave(p)
    /\ UNCHANGED <<ledger, prepared, scopeLive, clock, ran>>

-----------------------------------------------------------------------------
Init ==
    /\ log = <<>>
    /\ actions = [k \in ActionKeys |-> None]
    /\ views = {}
    /\ admissions = [q \in Proposals |-> None]
    /\ external = [c \in Chains |-> None]
    /\ receipts = [q \in Proposals |-> None]
    /\ prepared = {}
    /\ pc = [p \in Procs |-> "idle"]
    /\ call = [p \in Procs |-> None]
    /\ seen = [p \in Procs |-> None]
    /\ next = [p \in Procs |-> None]
    /\ found = [p \in Procs |-> None]
    /\ scopeLive = TRUE
    /\ clock = 0
    /\ crashes = 0
    /\ ran = [k \in ActionKeys |-> <<>>]

\* What a process does once its operation has begun.
Step(p) ==
    \/ Create(p) \/ CreateRaced(p) \/ AssertLatest(p) \/ Insert(p)
    \/ Replay(p) \/ Claim(p)
    \/ AdapterReturns(p) \/ AdapterFails(p) \/ AdapterExhausted(p)
    \/ Record(p) \/ Complete(p) \/ PutReceipt(p) \/ Admit(p)

BeginOperation(p) ==
    \/ BeginCreate(p) \/ BeginStart(p) \/ NothingToStart(p)
    \/ BeginStop(p) \/ ExpireStopped(p)
    \/ \E n \in 1..MaxAttempts :
          \/ \E a \in prepared : BeginRecon(p, a, n)
          \/ \E q \in Proposals : BeginReplan(p, q, n)
    \/ \E q \in Proposals, v \in views : BeginAdmit(p, q, v)

\* Calls that read and write in one step.
Atomic ==
    \/ \E k \in Keys : PrepareRecon(k)
    \/ IssueToolView
    \/ \E q \in Proposals, s \in {"cancelled", "expired"} : Release(q, s)
    \/ \E c \in Chains, n \in 1..MaxActions : ReserveExternal(c, n)

Next ==
    \/ \E p \in Procs : Step(p) \/ BeginOperation(p) \/ Crash(p)
    \/ Atomic
    \/ Revoke \/ Tick

Spec == Init /\ [][Next]_vars

-----------------------------------------------------------------------------
(* Properties *)

\* Every ledger row and every value a process holds has the shape its
\* pydantic model and its table give it.
TypeOK ==
    /\ log \in Seq(Checkpoint)
    /\ actions \in [ActionKeys -> ActionRow \cup {None}]
    /\ views \in SUBSET ToolView
    /\ admissions \in [Proposals -> Admission \cup {None}]
    /\ external \in [Chains -> Reservation \cup {None}]
    /\ receipts \in [Proposals -> Receipt \cup {None}]
    /\ prepared \in SUBSET Action
    /\ pc \in [Procs -> PCs]
    /\ call \in [Procs -> Call \cup {None}]
    /\ seen \in [Procs -> Checkpoint \cup {None}]
    /\ next \in [Procs -> Checkpoint \cup {None}]
    /\ found \in [Procs -> Observation \cup {None}]
    /\ scopeLive \in BOOLEAN /\ clock \in Nat /\ crashes \in Nat
    /\ ran \in [ActionKeys -> Seq(1..MaxAttempts)]

\* d is what one transition of the state machine makes of c.
Follows(c, d) ==
    /\ d.revision = c.revision + 1
    /\ c.status \notin Terminal
    /\ \/ /\ d.used = c.used /\ d.observations = c.observations
          /\ d.status = "running" => c.status = "planned"
          /\ d.status # "planned"
       \/ \E o \in d.observations : CanRecord(c, o) /\ d = record_observation(c, o)

\* The checkpoints of a flow are one chain of state-machine transitions from
\* planned, whatever calls raced: advance and complete_action insert a
\* checkpoint computed from an earlier read, and only the stale check and the
\* primary key stand between that read and a fork or a revived flow.
CheckpointsFollow ==
    /\ Exists => log[1].revision = 0 /\ log[1].status = "planned"
    /\ \A i \in 1..(Len(log) - 1) : Follows(log[i], log[i + 1])

\* While a claim is open, the checkpoint it was prepared for is the latest, or
\* the flow was stopped on top of it.  So complete_action may compute the next
\* checkpoint from what was read before the claim, and no other action's
\* observation is recorded while one is outstanding.
StartedOwnsTheFlow ==
    \A k \in Started :
        \/ actions[k].action.base = Latest.revision
        \/ Stopped /\ actions[k].action.base + 1 = Latest.revision

\* Whoever stops, claims and records at the same time, the checkpoints are one
\* chain, and an open claim keeps it where its action was prepared for.
OneChain == CheckpointsFollow /\ StartedOwnsTheFlow

\* The action table and the checkpoint tell the same story: the latest
\* checkpoint lists the observation of each completed action, and charges
\* each of them once (complete_action, record_observation).
LedgerAgrees ==
    Exists =>
        /\ Latest.observations = {actions[k].observation : k \in Completed}
        /\ Latest.used = Cardinality(Completed)

\* Actions done, claimed and promised to attack chains never exceed
\* max_actions (claim_action, reserve_external_actions).
BudgetHonoured == Exists => Committed <= MaxActions

\* The adapter is called at most once for each numbered attempt of an action,
\* even when two processes execute the same command or a process that was
\* given up comes back (claim_action hands out each attempt once).
AttemptsRunOnce ==
    \A k \in ActionKeys : \A i, j \in 1..Len(ran[k]) : ran[k][i] = ran[k][j] => i = j

\* An admission is consumed exactly when its action was claimed: a release
\* never frees budget that a claim has used, and a released admission is never
\* executed (claim_action, release_replan_admission).
ConsumedIffClaimed ==
    \A q \in Proposals :
        actions[q] # None <=> admissions[q] # None /\ admissions[q].state = "consumed"

\* A stopped flow stays stopped: no checkpoint follows, no action is claimed
\* for the first time or completed, and nothing more is promised, although
\* calls that passed their preflight before the stop are still under way.
StopIsFinal ==
    [][Stopped =>
        /\ log' = log /\ external' = external
        /\ Completed' = Completed
        /\ \A k \in ActionKeys : actions[k] = None => actions'[k] = None
        /\ \A q \in Proposals : admissions[q] = None => admissions'[q] = None]_vars

\* The flow as its contract sees it: claims and chain reservations hold budget,
\* completed actions have used it.
Bounded == INSTANCE BoundedFlow WITH
    phase <- IF Exists THEN Latest.status ELSE "absent",
    used <- IF Exists THEN Latest.used ELSE 0,
    held <- Cardinality(Started) + Cardinality(ExternalSlots)

\* The ledger, with every interleaving, crash and retry, implements the bounded
\* flow: budget is taken only while the latest checkpoint runs, each open claim
\* is settled at most once, and nothing is taken or settled after a stop.
BoundedFlowSpec == Bounded!Spec

\* The flow seen from the checkpoint of revision e, as an attack chain that
\* was admitted at it sees the flow in _flow_preflight.
SeenFrom(e) ==
    IF ~ Exists \/ Latest.revision < e \/ Latest.status = "planned" THEN "before"
    ELSE IF Latest.status = "running" THEN IF Latest.revision = e THEN "expected" ELSE "moved"
    ELSE IF Latest.status \in {"cancelled", "killed"} THEN Latest.status ELSE "ended"

Boundary(e) == INSTANCE FlowBoundary WITH state <- SeenFrom(e)

\* The flow keeps what AttackChain relies on, seen from every checkpoint it may
\* run at: whatever calls overlap, it never comes back to a checkpoint it has
\* left, and never runs again once it was stopped.
KeepsBoundary ==
    [][\A e \in 1..(MaxActions + 1) : Boundary(e)!Next \/ UNCHANGED SeenFrom(e)]_vars

\* Every admitted proposal holds the budget of its one action until it is
\* released: what is done, claimed, promised and admitted fits max_actions.
\* docs/AUTHORIZED-RED-TEAM.md:345 says that admission reserves the budget of
\* exactly one action; reserve_external_actions does not count admissions.
AdmissionsKeepTheirBudget == Exists => Budgeted <= MaxActions

\* The operator calls expire once the deadline has passed.
BeginExpire(p) == BeginStop(p) /\ next'[p].status = "timed_out"

\* Running processes go on, time passes, and the operator keeps calling expire.
FairSpec ==
    /\ Spec
    /\ \A p \in Procs : WF_vars(Step(p))
    /\ WF_vars(Tick)
    /\ SF_vars(\E p \in Procs : BeginExpire(p))

\* A flow that was created comes to a stop, whichever calls crash between two
\* transactions (a flow left planned, a claim left started) and whoever wins
\* the races for the next revision.
FlowStops == Exists ~> Stopped
=============================================================================
