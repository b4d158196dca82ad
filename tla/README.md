# VulnLoom: TLA+ models, model checks and proofs

VulnLoom is a control plane for authorized security testing. Its own logic is not the testing
but the bookkeeping around it: which action was authorized by which Scope and Approval, who
claimed it, what it reported, whether its cleanup is proven, and whether the record of all this
can be trusted afterwards. The bookkeeping lives in SQLite ledgers and a few files, and it is
shared by short-lived processes (each CLI call is one) that may race, die, and be retried. This
directory models that bookkeeping in TLA+, checks it with TLC on small instances and proves the
most important parts with TLAPS for all instances.

Source paths below are relative to `src/src/vulnloom/`, documents to `src/`.

## 1. Inventory

### The recurring shape

Almost every component is a *service* over a *store*:

* the service loads sealed records (pydantic models whose id is the digest of their contents),
  checks them against the Scope, the Policy and an exact Approval, calls an adapter or a runner,
  and seals an outcome;
* the store keeps these records in SQLite. Writes that must check and write in one step open the
  transaction with `BEGIN IMMEDIATE`; others use `with self.connection`, where sqlite3 opens the
  transaction only at the first write, so a `SELECT` before it is a step of its own;
* an execution is `claim` (row `started`, attempt *n*) -> external work -> `complete` (row
  `completed` with its outcome). A process that dies leaves a started row; attempt *n + 1* takes
  it over, up to a fixed number of attempts, or nobody does.

The hard part is what happens *between* these transactions. No component has threads of its own;
concurrency is between processes, and the state that races is the ledger.

### Components

| Component (files) | State it keeps | Operations | Interacts with | What is hard | Correct when | Module |
|---|---|---|---|---|---|---|
| Event log (`storage/events.py`, `audit_chain.py`, `checkpoints.py`) | events, hash-chained records and head per engagement; one checkpoint file per stream outside the database | `append`, `list_for_engagement` | called by the CLI and every audited service | four steps per operation, crash between commit and `advance`, restored database, lost rows, races for the file, the record limit | no acknowledged event is forgotten or replaced; a retry finishes an interrupted append | AuditChain |
| Red Team flow (`red_team/state_machine.py`, `store.py`, `service.py`, `replan_service.py`) | checkpoints, actions, tool views, admissions, external reservations, receipts | start, cancel, kill, expire, prepare and execute recon, issue view, admit, release, execute replan, reserve for a chain | adapters; attack chains reserve its budget; Endpoint Recon runs through it | stale reads around the adapter call, three attempts, stop versus claim, one budget drawn from three sides | one chain of checkpoints, budget honoured, a stop is final, each attempt runs once | RedTeamFlow |
| Attack chains (`attack_*.py`) | chain checkpoints, action rows, budget reservation, audit records | create and start, execute (the cleanup too), stop on a broken flow boundary | reserves budget in the flow, checks the flow before each action | two ledgers without a common transaction; cleanup must survive a stop | every state-changing action is cleaned up or reported as not | AttackChain |
| Endpoint seeds and recon (`seed_*.py`) | seed sets, reservations, runs | seal, reserve, cancel, expire, execute and recover (offline, or through the flow) | executes its steps as flow actions | sum read outside the transaction, two databases, recovery overtaking a live run | flow budget kept, an outcome is a contiguous stretch of the flow's log | EndpointRecon |
| Schedules (`schedule_*.py`) | schedule checkpoints, one run per slot | trigger, recover, pause, resume, cancel, expire | creates a flow and a reservation per run | three ledgers, deadlines, partial cleanup | one run per slot, no overlap, nothing left behind | EndpointSchedule |
| Provider center and routing (`provider_center/`, `domain/model_routing.py`) | profile revisions, life cycle, manifests, catalogs, routes | register, update, probe, bind, sync, enable, disable, set route | probe ledger, agent runtime | comparisons outside the transaction, replays | admitted only with evidence of its own; a route leads to an admitted profile | ProviderCenter |
| Surface inventory, drift, asset discovery | snapshots, comparisons, reviews, query phases | prepare, execute, recover | the flow's checkpoints | the flow moves on; a run of several queries dies half way | on the checkpoint it names; no phase lost | StageRun / ReconServices |
| OpenAPI and GraphQL discovery and promotion | documents, promotions | execute, promote | create seeds | promotion after expiry, replays | only what was observed is promoted | ReconServices |
| Test identities, credential sessions, role observation, business flows | sessions, observations | execute, recover | identity registry | identity withdrawn | never on a withdrawn identity | ReconServices |
| Materialization, replay validation, attack reports | outcomes, artefacts | execute, publish | Validation, Critic, Reporting | crash between artefact and row | row only with its artefact | ReconServices |
| Adaptive and campaign qualification, orchestration, candidates | traces, phases, gates | qualify, orchestrate, gate | flow receipts | phases across attempts, a looser fence | one outcome per plan, every phase | CampaignServices |
| Validation, Critic, Findings, Hybrid (`validation/`, `critic/`, `findings/`, `hybrid/`) | intakes, executions, outcome bindings, pilots | intake, execute, bind, promote, correlate, route, release | each other, in this order | wrappers over another ledger, rows closed by a late recover | a finding passed every gate | GateServices |
| Reporting | drafts, reviews, exports | intake, execute | Findings | wrappers, artefacts | a report is stored before its row | ReportServices |
| Recommendations, review assist, benchmarks | generations, selections, results | generate, select, evaluate | provider egress | model asked once | one answer per plan | StudyServices |
| Agent runtime, source hunt, project recipes | runs, handoffs, continuations, sessions, stages, egress grants | run, hand off, continue, resume, execute stage, grant, revoke | provider transport, Broker | approval pauses, shared rows, revoked grants | a tool call is executed once | AgentServices |
| Broker, Runners, live adapters | none between requests | fetch, run a container | Policy, Docker | one exchange | every hop authorized, no container left | not modelled |
| Domain state machine, Policy, workflow modes, analyzers, hypotheses, ingestion, evidence, redaction | none, or content-addressed files | decide, parse, store | all | - | pure functions | not modelled |

`PROJECT.json` lists each with its files, and under `hazards` the lines where interleavings,
crashes and bounds bite.

## 2. Plan

Done: 1. **AuditChain**, the trust anchor of every audited operation, which implements the abstract
**EventHistory**. 2. **RedTeamFlow** with the
abstract **BoundedFlow** it refines. 3. **AttackChain** over the abstract **FlowBoundary**, which
RedTeamFlow implements. 4. **EndpointRecon** and **EndpointSchedule**, over the part of the flow
they use. 5. **StageRun**, the claim/work/complete outline of all other services, with the
catalogue of services in six modules. 6. **ProviderCenter**.

7. The proofs: every safety property that a passing run checks is also a theorem (section 6).

Next, in this order:

* an abstract specification of what StageRun promises (one answer per key), with the module shown
  to implement it: the facts this refinement needs are in its invariant already;
* publication of duplicate checks, the crash catalogue and the investigation checkpoints of
  source hunting;
* the provider's worker process and the container runner, if they grow state of their own.

## 3. Modules

| Module | Models |
|---|---|
| `AuditChain`, `AuditChainProofs`, `MCAuditChain` | the event log (`storage/`); its theorems; requests and symmetry for TLC |
| `EventHistory` | what the log promises its callers, without database, chain or checkpoint file |
| `RedTeamFlow`, `RedTeamFlowProofs`, `RedTeamLedgerProofs`, `MCRedTeamFlow` | the flow's ledger, state machine and services; budget, stops and refinements proved; what its tables say about each other proved; symmetry |
| `BoundedFlow` | what a flow promises, without ledger |
| `AttackChain`, `AttackChainProofs`, `MCAttackChain` | one attack chain over its own ledger and the flow's; its theorems; graphs and symmetry |
| `FlowBoundary` | what a chain may rely on about its flow |
| `EndpointRecon`, `EndpointReconProofs`, `MCEndpointRecon` | endpoint recon plans on one flow; its theorems |
| `EndpointSchedule`, `EndpointScheduleProofs`, `MCEndpointSchedule` | a recurring endpoint check; its theorems |
| `ProviderCenter`, `ProviderCenterProofs`, `MCProviderCenter` | the registry of model providers; its theorems |
| `StageRun`, `StageRunProofs`, `MCStageRun` | one run of one service over its ledger; its theorems; the union of the catalogue |
| `ServiceShape` | how a service is described to StageRun, and the kinds of ledger |
| `ReconServices`, `CampaignServices`, `GateServices`, `ReportServices`, `StudyServices`, `AgentServices` | the catalogue, one record per service |

`PROJECT.json` maps each definition to its lines. Definitions marked *Mutant* are plausible bugs:
one for each checked property, and TLC finds the property violated when the mutant takes the
place of the definition it alters.

### AuditChain

State: `db` is the database (`events`, `rows`, `head` per engagement), `custody` the checkpoint
file of each stream, `backups` the copies an operator keeps. A process is at one of the points
where `CheckpointedEventStore` hands control to the database or the file system:

    load -> (empty -> genesis -> initialize ->) txn -> seal -> advance

`Load`, `CheckEmpty`, `IssueGenesis` and `Initialize` are `_trusted_checkpoint`; `AppendTxn` and
`ListTxn` are the one transaction each operation runs; `IssueLatest` and `Advance` are
`checkpoint()` and `FileAuditCheckpointStore.advance`. Every step has its failing branch.

Abstractions. Digests are collision free, so a digest is the sequence of what it seals: a chain
that was cut, reordered or replaced has another value, as it has another digest in the code. An
event's id stands for `event_id` and `occurred_at`. Payloads, bindings and keys are model values.

Environment. `Crash` ends an operation anywhere. `Restore` puts a complete older copy of the
database in place, `LoseEvent`, `LoseRecord` and `LoseHead` drop a row. These happen while no
operation runs: the documented recovery stops writes and queries first, and SQLite's own locking
keeps a file from changing under an open transaction.

`EventHistory` is the contract: one history of events per engagement, and calls that `Ask`, are
told an `Answer` or are forgotten (`Forget`). The refinement maps the history to the events the
trusted checkpoint seals, not to the database: rows come and go there, and a commit without
`advance` has promised nobody anything. A call waits from its first step to its last one; `Advance`
is the `Answer`, `Initialize` and every other step inside an operation stutter, and so does
anything that happens to the database.

### RedTeamFlow

The ledger of one sealed plan: `log` (checkpoints), `actions`, `views`, `admissions`, `external`,
`receipts`. `prepared` holds the sealed commands callers keep. A process in an operation is at
the next database access it will make:

    create -> assert -> insert                        create_and_start, cancel, kill, expire
    replay -> claim -> run -> record -> complete (-> receipt)      execute_recon, execute (replan)
    admit                                                          admit

`assert` and `insert` are the two halves of `advance`: `_assert_latest` reads before the
transaction begins, and the primary key `(plan_id, revision)` is what refuses a checkpoint that
was overtaken. `claim` and `admit` are `BEGIN IMMEDIATE` transactions and one step. `record` is
`record_observation` with the stale check of `complete_action`, `complete` its writes. The
checkpoint in `seen` is the one read before the claim, and `next` is computed from it after the
adapter returned.

Abstractions. One ledger, one plan; other plans share no row. Scope, Policy and Approval checks
are the flag `scopeLive` and the plan's deadline: the decision itself is pure and the calls of the
model present an exact Approval, as a refused call writes nothing. Observations carry the fields
the state machine looks at: outcome, cleanup proof, time. The time an adapter reports is the
call's `now` or the present. A rejected and a failed outcome count alike and are one. The
budget of chains is kept as the set of promised slots, whose cardinality is the
`SUM(action_count)` of the code.

`BoundedFlow` is the contract: `Open`, `Start`, `Take(n)`, `Settle`, `Stop`. The refinement
mapping is `phase` = status of the latest checkpoint, `used` = its `actions_used`, `held` =
started actions + promised slots.

### AttackChain

One sealed chain: `log` (checkpoints), `rows` (claimed actions) and `audits` are the chain's
database, `flow` and `reserved` what it reads and writes of the flow's. Actions are their
ordinals: 1 is the initial access, `N` the cleanup, and the two are the only actions with
state-change impact (`AttackAction.sealed`). A process in a call is at the next access:

    reserve -> store -> assert -> write                                create_and_start
    preflight -> authorize -> allow -> claim -> run -> assert -> write        execute
    preflight -> assert -> write -> reject                    execute, broken flow boundary

`assert` and `write` are the two halves of `advance` and `complete`, as in RedTeamFlow. `claim` is
one step although its `SELECT` is outside the transaction: the primary key, the unique index and
the condition of the `UPDATE` decide again, and a claim they refuse writes nothing. Reading the
chain and looking for a completed row are one step too, since a row that is completed in between
only ends the call. `changed` is the target's side: whether it carries test state. A request that
is reported as failed, or whose process dies, may or may not have had its effect.

Abstractions. Rejected and failed outcomes are recorded alike and are one; stop reasons are left
out, and with them `cleanup_complete`, which only chooses between two reasons once a success
without it cannot be sealed. An audit record is its action and decision. Approvals and the policy
decision are a free choice in `Authorize`; the budget refusals of both ledgers are free choices
(`ReserveRefused`, `StoreRefused`), and RedTeamFlow has the arithmetic. A command for an older
checkpoint is represented by one for revision 0: all of them fare alike.

Composition. The chain reads the flow's latest checkpoint and compares it with the one it was
admitted at. `FlowBoundary` says what that comparison may see over time, `FlowStep` takes its
steps, and `KeepsBoundary` of RedTeamFlow (checked in `flow_replan`, proved as
`ImplementsFlowBoundary`) says that the real flow takes no others. The provenance checks of
`_action_flow_preflight` (revision, actions used and observations never shrink) follow from the
same log and are always true.

### EndpointRecon

Two databases: `source`, `reservation` and `run` are `EndpointReconStore`'s, `flow`, `log` and
`actions` the part of the flow's ledger that a run through the flow writes. A call is at its next
access:

    reserve -> insert                                                      prepare
    release                                                    cancel_reservation
    claim -> take -> offline -> finish                          execute, recover
    claim -> take -> check -> act -> send -> record -> progress -> consume -> judge
          (-> check, the next step) -> verify -> finish     execute/recover via flow

`claim` reads the reservation and the row, `take` is the write that compares only the row.
`record` is the flow's `complete_action`, `progress` and `consume` are the read of the reservation
and `consume_request`, which reads it again. `OtherAction` and `FlowEnds` are the flow's other
users, `Die` ends a call anywhere. An observation is the pair of plan and step, so the log says
who added each checkpoint; Scope, Policy and Approval are as in RedTeamFlow, and the plan's
deadline is the flag `late`.

### EndpointSchedule

`cp` is the latest schedule checkpoint, `runs` one row per slot, known by the time it is due;
`flow`, `resv` and `recon` say for each slot what its materialization left in the two other
databases. A command takes the time and the checkpoint it reads, and is then at

    claim -> create -> start -> bind -> reserve -> finish                 trigger
    take -> create -> ...        or   cleanup -> release -> clean_flow
                                          -> cancel_flow -> close         recover
    (resume ->) advance                      pause, resume, cancel, expire

No step but the first reads the clock, so time passes between the starts of commands only.
`_assert_latest` and the insert it guards are one step because the key (schedule, revision)
refuses a second successor. `ReconMoves`, `FlowEnds` and `ReservationEnds` are the operations of
EndpointRecon and RedTeamFlow on what was materialized. `overtaken` is history: slots that were
cleaned up while another command still worked on them. It is read by properties only.

### ProviderCenter

`stored` and `current` are the revisions of each profile, `manifests`, `bound`, `catalog` and
`route` the other tables, `ledger` the three idempotency ledgers. A mutation is `apply` after its
read: its transaction begins with an INSERT, so the comparison of the profile is inside. A probe
or catalog sync is `claim -> adapter -> compare -> complete`: `compare` is a step of its own,
since the transaction has not written yet. Init is any registry that earlier commands can have
left for each provider. Models, capabilities and what a route requires are data: a profile has a
manifest or not. `degraded` and `revoked` are left out of the life cycle, as no command leads
there.

### StageRun and the catalogue

Eighty-two services follow one outline with different steps in different orders. StageRun
interprets a service's *program*: a sequence of the steps listed in its header (`bind`, `load`,
`current`, `claim`, `recover`, `derive`, `effect`, `publish`, `save`, `finish`, ...), each one
atomic access. The catalogue gives, per service, its ledger kind (the store class), the ledgers
its plan is bound to, and its `prepare`, `execute` and `recover` programs, built from parts that
keep the names of the methods they stand for. So a service is compared with its source by reading
a few short sequences against a few methods. `ServiceShape` has the kinds of ledger:

| Kind | A started row ... | Completion |
|---|---|---|
| `Recoverable` | waits for an explicit recover | asks for state and attempt |
| `SelfRecovering` | is taken over by the next claim | asks for state and attempt |
| `LooselyFenced` | the same | asks for the state; the attempt only in a read before it |
| `Once` | stays for good: nothing recovers it | asks for the state |
| `Closing(ends)` | is closed when its last attempt is to be recovered | asks for state and attempt |
| `Shared(ends)` | is handed to whoever asks | compares the row with what the caller saw |

What a service promises beyond the ledger is written down per service (`promises`), from what its
code checks or its documents say, and never derived from its program: `fresh` (not on a fact
withdrawn before the attempt), `upstream` (on finished records), `sealed` (artefact before row),
`gated` (a wrapper binds no run that began before it held its row), `timed` (it binds one made at
the time of its claim). Only the three services that compare the times of the two outcomes have
more than one instant to pass as `now` (`Times`). A behaviour studies one service and one key, for which
plans compete; Init chooses the service. Services with equal records are one, which leaves 49
control shapes.

The `*Reads` sets say on which ledgers a service's plan rests. MCStageRun checks them by two
assumptions: no ledger rests on itself through any number of others (`ProvenanceAcyclic`), and an
exported report rests on a validation, a review and a check for duplicates
(`ExportsAreReviewed`).

Abstractions. A check that can only repeat an earlier result of the same call (arguments, finished
records) stands once. An adapter, a sandbox, a model or a tool is one `effect`; whether its
outcome is good is data, except where the service ends the row differently (`catches`). Other
services called within the work are `nested`, except where the caller binds the other's row
(`wrap`, `settle`). A source hunt's optional load of a project recipe binding is left out; its end
as cancelled, and a hybrid validation's as out of its own time budget, appear as `failed`. The
`approval_required` reply of a paused agent session is no answer in the sense of `OneAnswer`: the
resumed session replaces it.

## 4. Runs

| Run | Instance | Shows |
|---|---|---|
| `audit_faults` | 1 process, 5 requests (two keys, and one reused with another payload, other bindings and for another engagement), 1 fault, 2 backups, 1 crash, moving clock | `KnownEventsListed`: a query fails or lists all known events; `ListsAgree`; `ReplyMatchesRequest`: an append returns its own event or fails |
| `audit_replay` | 2 processes, 1 crash, fair | `KnownEventsAnchored`: acknowledged events are under the trusted checkpoint in every interleaving; the refinement `OneHistory`; `ReplayAdvancesCheckpoint`: a committed and unacknowledged append is acknowledged by a retry |
| `flow_replan` | 2 processes, operator action, proposal and chain, budget 2; views, admissions and actions expire before the flow | `BudgetHonoured`, `OneChain`, `ConsumedIffClaimed`, the refinement `BoundedFlowSpec`, and `KeepsBoundary` for AttackChain |
| `flow_recovery` | 2 processes, 1 action, 3 attempts, 1 crash, all outcomes, revocation, fair | `AttemptsRunOnce`, `LedgerAgrees`: recorded and charged once; `FlowStops`: a created flow is stopped in the end |
| `flow_admission_budget` (violation) | proposal and chain, budget 2 | finding 1 |
| `chain_races` | 2 processes, 3 actions, interrupted adapter calls and second attempts, flow killed or ended at any time | `LedgerAgrees`, `ChangesAreCleanedUp`, `AttemptsOnce`, `EndsAreFinal` |
| `chain_recovery` | 1 process, 1 crash, 4 actions of which two depend on the first only, every order of commands, the deadline, revocation, a flow that moves on or is killed | `WrittenInOrder`, `Sealed`: every checkpoint passes its validator, `UncertainNotKilled` |
| `chain_killed_unclean` (violation) | 1 process | finding 2 |
| `endpoint_recon` | 2 plans of 2 steps, 2 callers, 2 attempts, budget 2, 1 foreign checkpoint; 1.7 million states | `FlowKept` (budget, each request once), `OutcomeIsLineage`, `OneLineage`, `ReservationFollows` |
| `endpoint_schedule` | 2 commands at a time, 4 in all, 4 slots; 1.7 million states | `TablesAgree`, `NoOverlap`, `UnprovenIsLast`, `CleanIsClean` |
| `provider_center` | 2 callers, 2 providers, 2 revisions, 3 commands, 2 finished probes of which 1 passed; 510 thousand states | `RegistryKept`, `ProvenBeforeAdmitted`, `RouteIsAdmitted`, `LifeCycleForward` |
| `stage_runs` | all 49 shapes, 2 plans, 2 callers, 3 attempts, 2 instants; 660 thousand states | `OneAnswer`, `WorkOnce`, `LastAttemptDecides`, `FreshOutcome`, `RestsOnFinished`, `SealedOutcome`, `RunUnderGate` |

Some properties are conjunctions of named parts, each explained where it is defined: the type
invariant of AttackChain, StageRun, EndpointRecon, EndpointSchedule and ProviderCenter is part of
`WrittenInOrder`, `RestsOnFinished`, `FlowKept`, `TablesAgree` and `RegistryKept`; those of
AuditChain and RedTeamFlow are theorems of their own.

Why the bounds are enough. Races in these ledgers are between the read of one operation and the
write of another, so two processes show them; a third would only repeat the second. Attempts are
the code's own three, except in EndpointRecon, where two are one recovery and its overtaken
predecessor. A budget of two lets two claimants compete for the last action, and two plans of two
steps both fit it alone and never together. One crash leaves one half-done operation; in the newer
modules calls may die at any step, any number of times. The clock needs a value before and one
after each deadline. Two operator actions that are
both first claims do not meet in `flow_replan` (one key, and the admitted proposal holds the rest of
the budget), so what the unique index on started actions adds to `OneChain` is not exercised there;
the race it does exercise is a stop against an observation. Backups and faults: one restored copy or one lost row, two copies to choose
from. `audit_replay` keeps the clock still (`MaxClock = 0`) so that liveness can be checked over
the whole graph; two processes with clocks that disagree are left to the theorems, which hold for
every `MaxClock`.

A schedule needs three slots to tell "the previous run" from "an earlier run", and one beyond to
be next; four commands are a trigger, a recovery that times out while it lives, and two commands
after it. `Interval` and `RunTtl` of one make every tick matter. Three provider commands are the
shortest sequence in which a completion loses against a change and a third command relies on the
result; Init supplies the longer histories. In StageRun two plans are the owner of a key and a
competitor, and a third call would have to wait for one of the two to leave the row.

The bounds are constants: `MaxClock`, `MaxCommits`, `MaxBackups`, `MaxFaults`, `MaxCrashes`,
`MaxPrepared`, `MaxRevision`, `MaxCommands`, `MaxOthers`, `Ids`; the limits of the code are
constants too (`MaxRecords`, `MaxActions`, `MaxFailures`, `MaxAttempts`, `Deadline`, `Ttl`,
`RunTtl`, `ActiveUntil`). Process symmetry is used in runs without liveness properties.

For chains, `MaxRevision` stops new calls at that revision: three covers a chain from creation
through two actions or through a failure and its cleanup with both processes, and five, with one
process, a full graph of four actions or a stop with its cleanup. The outcomes of a run are those
its question needs: an interrupted second attempt is recorded as failed, and a crash while the
adapter runs leaves the same open claim as an interrupted first attempt.

Deadlock is checked for the event log, the flow and the chains: a caller may always call again.
It is off in the four newer runs, where nothing is left to do once the bound on commands is
reached or the one key is finished.

Fairness. `LiveSpec` of AuditChain assumes that a running process takes its next step
(`WF(Step)`: steps are plain code after a call returned, and a process that stops for good is a
`Crash`) and that a caller keeps retrying its append (`SF(BeginAppend)`: the documented response
to an error; strong, because the process it would run in may be busy again and again).
`FairSpec` of RedTeamFlow assumes the same of running processes, `WF(Tick)` for time, and that the
operator calls `expire` again and again (`SF(BeginExpire)`): nothing in the code expires a flow by
itself. The newer modules state no liveness: attempts are bounded and callers may die in each, so
a row that stays started is a legal end, and nothing in the code drives a schedule or a recovery
without an operator.

## 5. Findings

Runs that end in a violation:

1. **Admissions are not counted by chain reservations** (`red_team/store.py:386`, run
   `flow_admission_budget`). `reserve_external_actions` adds used, started and external actions
   and leaves out reserved admissions, which `claim_action` and `remaining_action_budget` count.
   The total stays within `max_actions` - `BudgetHonoured` is proved - but an admitted proposal
   can lose the action that was reserved for it.
2. **Killed without cleanup** (`red_team/attack_service.py:385`, run `chain_killed_unclean`). A
   stop decides between `cleanup_required` and `killed` by a succeeded state-changing node or a
   started row. A chain that already requires its cleanup because the initial access *failed*, or
   because an earlier stop abandoned it, has neither; a call for any other action then closes it
   as killed.

Behaviours the models have, or that were met while reading, and no run is spent on. The first
group disagrees with a document:

* **Record limit** (`storage/audit_chain.py:522`). The limit is tested before the insert, so a
  chain of exactly the maximum accepts one more record, whose checkpoint is then refused, and so
  is every retry. `audit_replay` with `MaxRecords = 1` refutes `ReplayAdvancesCheckpoint`, against
  `docs/ARCHITECTURE.md:77-78`.
* **A request consumed twice** (`red_team/seed_service.py:468`). A recovery and the run it overtook
  both find the reservation one request behind and both call `consume_request`, which reads again
  and takes one more; the reservation then counts a request no action made
  (`docs/AUTHORIZED-RED-TEAM.md:185-186`: each action "consumes exactly one request").
  `ReservationFollows` says what still holds.
* **Overlapping scheduled runs** (`red_team/schedule_service.py:168`). A command past a run's
  deadline cleans up and closes the run while the command that claimed it is still materializing;
  that one creates its flow afterwards, and the next slot is claimed beside it
  (`docs/AUTHORIZED-RED-TEAM.md:221-222`). `NoOverlap` and `CleanIsClean` except exactly these
  slots (`overtaken`).
* **A completion over a disabled profile** (`provider_center/store.py:330`). `complete_probe` and
  `complete_catalog_sync` compare before their transaction's first write, so a disable that commits
  in between is overwritten and the profile is back where it was (`docs/PROVIDER-CENTER.md:32`).
  `LifeCycleForward` excepts exactly these (`overtaken`).
* **Orchestration refused on resume** (`red_team/campaign_orchestration_service.py:198`). A resumed
  orchestration is compared with a plan derived at its own later time, so it is refused as drifted
  and uses up its attempts (`docs/DEVELOPMENT-PLAN.md:561`, `docs/ROADMAP.md:1668`). Depends on
  the plan's contents, which StageRun does not tell apart.
* **Accept beside reject** (`recommendations/selection_store.py:69`). The search for a prior
  decision is not in the transaction of the insert, so both can be recorded
  (`docs/CANDIDATE-RECOMMENDATIONS.md:118`). StageRun studies one key.
* **Adopted inner runs**. A wrapper accepts an inner run it did not start, if that run began after
  its second probe (`docs/ARCHITECTURE.md:1235`, `docs/PHASE3-ADMISSION.md:576`); where the times
  are compared (`validation/pilot_outcome.py:198`, `critic/pilot_execution.py:318`,
  `findings/pilot_promotion.py:172`), only if its caller passed the same `now`. So `RunUnderGate`
  says when the bound run began and at what time it was made, not who made it.

The others contradict nothing that is written down:

* a receipt added by a replay after a crash names the checkpoint that is latest by then, not the
  one its action produced (`red_team/replan_service.py:213`, `PutReceipt`);
* a crash in the third attempt of a flow action, or an observation refused as late, leaves it
  started with no attempt left (`red_team/service.py:473`);
* `claim` does not look at the chain's latest checkpoint, so a call that passed its checks may
  claim and run its action after another call closed the chain as killed
  (`red_team/attack_store.py:193`, `Claim`). `EndsAreFinal` holds - the result is refused - but
  the claim stays open in a closed chain, which is why `UncertainNotKilled` is about stops;
* a stop abandons every started row, an interrupted cleanup's too, and that cleanup can then never
  be claimed again (`red_team/attack_store.py:184`, `Abandon`);
* nothing closes a chain at its deadline (`red_team/attack_service.py:414`);
* an endpoint run that dies after its last request was consumed cannot be recovered, since recover
  wants an active reservation (`red_team/seed_store.py:269`); a recovered run uses its own attempt
  number for actions never claimed before, which must begin with one (`seed_service.py:453`); and
  where two plans send their requests at one checkpoint, the loser's action stays started;
* resume counts from a due time still to come, so a pause and a resume pass over a slot
  (`red_team/schedule_state_machine.py:180`);
* enable compares only the profile it admits: its route may lead, or fall back, to another that
  was disabled meanwhile (`provider_center/service.py:655`); `RouteIsAdmitted` is therefore about
  routes set with the profile they lead to;
* the looser fence of an orchestration lets an overtaken attempt end the row
  (`red_team/campaign_orchestration_store.py:160`); `OneAnswer` holds but for the attempt number;
* rows of the `Once` kind stay started after a crash (`validation/store.py:51` and the like);
* the crash catalogue can lose an update (`source_hunt/dynamic_store.py:47`), and the duplicate
  check an intake loaded can be superseded before its claim (`findings/intake.py:214`).

## 6. Proofs

Every invariant and every action property that a passing run checks is proved for any sets of
processes, keys, proposals, chains, engagements and requests, and for any bounds that satisfy the
named assumptions, which TLC evaluates on the instances it runs:

| Assumption | Says | Because |
|---|---|---|
| `AuditConstants`, `FlowConstants`, `ChainConstants`, `TimeAssumption`, `CountsAssumption`, `RevisionAssumption` | limits are positive, sets of keys finite, an attack graph is ordered | the models' field constraints and `sealed()` checks |
| `NoneIsFresh`, `NoneIsNoRow`, `NoneIsNothing`, `NoneIsNoProfile` | `None` is no row, checkpoint, result or profile | it stands for an absent one |
| `SourcesAssumption` | command identities, finished probes and `None` are different | they are digests of different records |
| `ServicesWellFormed` | a service's programs are ordered and contain the steps its promises rest on | `MCStageRun` has TLC evaluate it on the whole catalogue, so a service whose program lost a check would fail there |
| `SomePlan`, `SomeTime` | some plan asks for the key, at some time | a key is made of a plan; every call passes `now` |

The shape is the same everywhere: an invariant of two halves, what the tables say of each other
and, per call, what the call may rely on at the step it has reached; a lemma that says what any
step leaves for the other calls to rely on (`LedgerGrows`, `Grows`, `RowGrows`, `Forward`,
`StaysFree`), so that each action is proved for the call that takes it only; and one lemma per
action. Each of these invariants was checked by TLC on the runs' instances before it was proved.
Induction over numbers is replaced by the least element of a set of numbers (`LeastNumber`, from
the library's well-founded relations).

**AuditChainProofs.** `TypeCorrect`; `KnownEventsAreListed`; `KnownEventsAreAnchored`;
`KeysNameOneEvent`; `CustodyAlwaysExtends`; `RepliesMatchRequests`; `ListsNeverDisagree`;
`ImplementsHistory`. What callers know is a fact about the past, while the
database may be replaced by any backup, so the invariant `LogInv` speaks of three places at once:
every database that exists or can be restored has rows from one lineage with distinct keys
(`Lineage`), the checkpoint file seals distinct keys (`CustodyInv`) and covers what was
acknowledged, and each process between two steps relies on facts that no other process can undo
(`ProcessInv`): the checkpoint it trusts is a genuine one, and from `seal` on the database extends
it. Restores happen while no process is in an operation, which is what keeps the last fact true.
The last three theorems add `ReplyInv`. Events and records are numbered upwards, also in every
copy (`OrderInv`); so when the pair check of a query passes, which compares only sets of keys and
the existence of a record per event, the i-th event is that of the i-th record (`PairsInOrder`: a
first event out of place would have to share its number with one in place). While an operation
runs records are only added, so what it is about to return stays stored (`ReturnKept`); and the
longest list given out follows the checkpoint file (`ServedInv`), which only extends.
`ImplementsHistory` rests on all of it: at `advance` the events of the checkpoint to be written
continue the history (`CustodyStep`), have distinct keys (`SealedOnce`), contain the appended event
(`ProcessInv`) or begin with the list returned (`ReturnInv`), which holds what was known at the
call (`ListsFloor`). A failure or a crash is a `Forget`; lost rows and restored copies stutter.

**RedTeamFlowProofs.** `TypeCorrect`; `BudgetIsHonoured`; `StopsAreFinal`;
`ImplementsBoundedFlow`; `ImplementsFlowBoundary`. The invariant `Inv` has two halves. `LedgerOK`: revisions number the
log; at most one action is started; rows exist only once the plan does; whatever was sealed for a
checkpoint (prepared actions, admissions, views) names a *stored* checkpoint, and actions name one
that was *running*; and the budget. `ProcOK(p)`: what process p knows at each step, above all that
the checkpoint it read is stored from `insert` or `complete` on (`Stored`). The central argument is
`FreeRevisionIsNext`: if a checkpoint is stored and the revision after it is free, it is the latest
one - so the primary key alone makes a stale insert fail, and both stops and completions build on
the latest checkpoint although they read it long before. `BoundToLatestRuns` gives the same for
claims: an action sealed for the latest checkpoint is claimed in a running flow. `StepOf` says what
other processes may rely on (`LedgerGrows`), so each action is proved for the process that takes
it and `ProcGrows` carries all others. The theorems about stops and about the two refinements follow
from one classification of all steps (`NextFlow`).

**RedTeamLedgerProofs.** `CheckpointsAreOneChain`; `TablesTellOneStory`;
`ClaimsConsumeTheirAdmission`; `NoAttemptRunsTwice`; `LedgerInvariantHolds`. The invariant adds to
`Inv` that starting or stopping a flow observes nothing (`MovesObserveNothing`) and that an open
claim was prepared for the latest checkpoint while the flow runs, or for the one it was stopped on
(`ClaimHeld`): this is what makes the receipt, the row and the checkpoint of one action tell the
same story although three calls may have worked on it. For the adapter, `RunInv`: attempts that ran
were handed out, the one a process is about to run has not run, and no other process holds it.

**StageRunProofs.** `StageTypes`; `CallersHearOneAnswer`; `WorkIsDoneOnce`;
`TheLastAttemptDecides`; `OutcomesAreFresh`; `OutcomesAreSealed`; `RowsRestOnFinished`;
`RunsBeginUnderTheGate`: for any well-formed service, any plans that compete for its key and any number of
calls. Three layers. `StageType`: a call is at a step of its program and has an attempt exactly if
it is past the step that takes the row. `CallInv`: a call with an attempt has it of the row of its
own plan, no later than the row's, and no two calls have the same one unless rows are shared; the
work of an attempt lies behind the step its call has reached - from which `LedgerInv` follows.
`PastInv` and `RowInv` say what each step a call has behind it has established and what of it
stays true (`Forward`), so that at `finish` the promises of the service can be read off its program. For the wrapped run
this is `InnerStays`: a run keeps its time and its place, before the row's claim or under it; so a
probe after the claim that finds no run leaves only runs under the claim (`PastVacant`).

**ProviderCenterProofs.** `RegistryInvariant`; `RegistryIsKept`; `AdmissionIsProven`;
`RoutesLeadToAdmitted`; `LifeCyclesGoForward`. A command decides on the profile it saw and writes
later; `CallOK` keeps what it saw (`Decided`) and that a profile once seen as proven has its
manifest. `EvidenceKept` ties each manifest to the completed command or the bound probe that
proves it, `AdapterKept` each call of the adapter to one claimed identity.

**EndpointScheduleProofs.** `ScheduleInvariant`; `ScheduleTablesAgree`; `RunsDoNotOverlap`;
`NothingFollowsTheUnproven`; `CleanMeansQuiet`. `StoryOK` orders the tables (the claimed slot is
the one that is due, the last run the latest that ended), `LeftOK` says what an ended run left in
the two other ledgers, `CleanerOK` what a cleanup has done by each of its steps provided no
command at work was overtaken. `FlowsGo`, `RunsGo` and `StaysFree` are what a step leaves to the
other commands: a flow or reservation that is gone comes back only while a command materializes
its slot, and no command starts to without a new attempt.

**EndpointReconProofs.** `ReconInvariant`; `FlowIsKept`; `OutcomesAreLineages`;
`OnePlanPerCheckpoint`; `ReservationsFollow`. `LogOK` gives each recorded step its place in the
flow's log, counted from the revision the plan's seeds were sealed at, in both directions: from
it follow the contiguous outcome and the one plan per checkpoint. `ActionsOK` and `CallOK` bound
how far a plan may be ahead of its reservation, including a run that was overtaken by its recovery;
the budget is a cardinality of started steps (`BudgetOK`).

**AttackChainProofs.** `ChainInvariant`; `ChainTablesAgree`; `AttemptsReachTheAdapterOnce`;
`CheckpointsAreSealed`; `ChainsAreWrittenInOrder`; `ChangesAreNotForgotten`; `EndsStayEnded`;
`UncertainIsNotKilled`. `CheckpointOK` is what each checkpoint satisfies by itself; `LogOK` that
revisions count, only the last one ends the chain, and what one records the last one records;
`Decided` what a call is about to write follows from the checkpoint it read. As in the flow, the
primary key decides (`FreeIsNext`): if a read checkpoint is stored and the revision after it is
free, the call has read the latest. `ChangesAreNotForgotten` then follows from `CheckpointOK` of
the end and from `RowsOK`. `UncertainIsNotKilled` is proved for calls that do not overlap
(`OneCaller`), as its property says and as `chain_recovery` checks it. With two callers it is
false, and TLC shows it: a stop decides to kill on a look at the claims, and another call claims
its action before the stop is written.

**Only model-checked.** Liveness (`ReplayAdvancesCheckpoint` of AuditChain, `FlowStops` of
RedTeamFlow), which is out of reach of the prover. The two properties of the violation runs are
false. `OneEventPerKey`, `CustodyOnlyExtends` (in `CustodyAlwaysExtends`) and `StopIsFinal` are proved and no
longer part of a run.

## 7. Not modelled

* In the modelled components: `AuthoritativeAuditStore.append` used alone and the unaudited
  `EventStore.append`, which no caller of the program uses; sealing of plans (`prepare`,
  `prepare_attack_flow`), which has no state.
* SQLite and the file system are taken at their word: a transaction is atomic and durable,
  `os.replace` is atomic, a lock goes with its process.
* The contents of plans and outcomes: the pydantic models, digests and validators are the data
  that StageRun abstracts to "bound", "derived" and "refused". Whether a derivation computes the
  right inventory, score or verdict is not a question the models ask.
* Broker, runners and live adapters: one exchange with the network or with Docker and no state of
  their own between two; the ledgers see an effect with an outcome.
* Analyzers, hypotheses, ingestion, parsing, rendering, redaction, provider codecs, the policy
  decision, workflow modes and the transition table of the domain state machine: pure functions
  over text and records.
* Publication of duplicate checks, the crash catalogue and investigation checkpoints of source
  hunting, registering and revoking test identities (the latter only as a fact that is withdrawn).
