------------------------- MODULE RedTeamLedgerProofs -------------------------
(***************************************************************************)
(* What the tables of a Red Team flow say about each other: checkpoints,   *)
(* actions, admissions and the calls of the adapter.  The proofs rest on   *)
(* the invariant of RedTeamFlowProofs.                                     *)
(***************************************************************************)
EXTENDS RedTeamFlowProofs

-----------------------------------------------------------------------------
(* The inductive invariant of the ledger *)

\* A checkpoint that starts or stops the flow observes nothing new.
MovesObserveNothing ==
    \A p \in Procs :
        pc[p] \in {"assert", "insert"} => next[p].observations = seen[p].observations

\* An open claim was prepared for the latest checkpoint while it runs, or for
\* the one it was stopped on.
ClaimHeld ==
    \A k \in Started :
        \/ Running /\ actions[k].action.base = Latest.revision
        \/ Stopped /\ actions[k].action.base + 1 = Latest.revision

LedgerStory == ConsumedIffClaimed /\ CheckpointsFollow /\ ClaimHeld /\ LedgerAgrees

StoryInv == MovesObserveNothing /\ LedgerStory

\* Calls that write none of the three tables.
LEMMA SameStory ==
  ASSUME LedgerStory, UNCHANGED <<log, actions, admissions>>
  PROVE  LedgerStory'
<1>1. ConsumedIffClaimed' BY DEF LedgerStory, ConsumedIffClaimed
<1>2. CheckpointsFollow' BY DEF LedgerStory, CheckpointsFollow, Exists
<1>3. ClaimHeld' BY DEF LedgerStory, ClaimHeld, Started, Running, Stopped, Exists, Latest
<1>4. LedgerAgrees' BY DEF LedgerStory, LedgerAgrees, Completed, Exists, Latest
<1> QED BY <1>1, <1>2, <1>3, <1>4 DEF LedgerStory

\* A checkpoint that follows the latest one makes the chain longer.
LEMMA ChainGrows ==
  ASSUME TypeOK, LogOK, Exists, CheckpointsFollow, NEW d \in Checkpoint, d.revision = Len(log),
         InsertCheckpoint(d), Follows(Latest, d)
  PROVE  CheckpointsFollow'
<1>1. Len(log) \in Nat \ {0} BY LatestType
<1>2. Len(log') = Len(log) + 1 /\ \A i \in 1..Len(log) : log'[i] = log[i] BY InsertGrows
<1>3. log'[Len(log) + 1] = d
  <2>1. Latest' = d BY InsertGrows
  <2> QED BY <1>2, <2>1 DEF Latest
<1>4. log'[1].revision = 0 /\ log'[1].status = "planned" BY <1>1, <1>2 DEF CheckpointsFollow
<1>5. ASSUME NEW i \in 1..(Len(log') - 1) PROVE Follows(log'[i], log'[i + 1])
  <2>1. CASE i \in 1..(Len(log) - 1)
    <3>1. i \in 1..Len(log) /\ i + 1 \in 1..Len(log) BY <1>1, <2>1
    <3>2. Follows(log[i], log[i + 1]) BY <2>1 DEF CheckpointsFollow
    <3> QED BY <1>2, <3>1, <3>2
  <2>2. CASE i = Len(log)
    <3>1. i \in 1..Len(log) BY <1>1, <2>2
    <3> QED BY <1>2, <1>3, <2>2, <3>1 DEF Latest
  <2> QED BY <1>1, <1>2, <2>1, <2>2
<1> QED BY <1>4, <1>5 DEF CheckpointsFollow

\* RedTeamStore.create.
LEMMA CreateStory ==
  ASSUME Inv, LedgerStory, NEW p \in Procs, Create(p)
  PROVE  LedgerStory'
<1>1. UNCHANGED <<actions, admissions>> BY DEF Create
<1>2. CASE Exists
  <2>1. log' = log BY <1>2 DEF Create
  <2> QED BY <1>1, <2>1, SameStory
<1>3. CASE ~ Exists
  <2>1. next[p] = PlannedCheckpoint(call[p].now) BY DEF Create, Inv, ProcOK
  <2>2. log' = <<next[p]>> BY <1>3 DEF Create
  <2>3. Exists' /\ Latest' = next[p] /\ Len(log') = 1 /\ log'[1] = next[p]
    BY <2>2 DEF Exists, Latest
  <2>4. \A k \in ActionKeys : actions[k] = None
    BY <1>3 DEF Inv, LedgerOK, RowsOK
  <2>5. Started' = {} /\ Completed' = {} BY <1>1, <2>4 DEF Started, Completed
  <2>6. Cardinality(Completed') = 0 BY <2>5, FS_EmptySet
  <2>7. LedgerAgrees' BY <2>1, <2>3, <2>5, <2>6 DEF LedgerAgrees, PlannedCheckpoint
  <2>8. ClaimHeld' BY <2>5 DEF ClaimHeld
  <2>9. CheckpointsFollow' BY <2>1, <2>3 DEF CheckpointsFollow, PlannedCheckpoint
  <2>10. ConsumedIffClaimed' BY <1>1 DEF LedgerStory, ConsumedIffClaimed
  <2> QED BY <2>7, <2>8, <2>9, <2>10 DEF LedgerStory
<1> QED BY <1>2, <1>3

\* _insert_checkpoint of advance starts the flow or stops it.
LEMMA InsertStory ==
  ASSUME Inv, StoryInv, NEW p \in Procs, Insert(p)
  PROVE  LedgerStory'
<1>1. CASE RevisionFree(next[p])
  <2>1. pc[p] = "insert" /\ InsertCheckpoint(next[p]) /\ UNCHANGED <<actions, admissions>>
    BY <1>1 DEF Insert
  <2>2. /\ Exists /\ Latest = seen[p] /\ next[p] \in Checkpoint /\ Moves(Latest, next[p])
        /\ next[p].revision = Len(log)
    BY <1>1, <2>1, InsertEffect
  <2>3. TypeOK /\ LogOK BY DEF Inv, LedgerOK
  <2>4. Exists' /\ Latest' = next[p] BY <2>1, <2>2, <2>3, InsertGrows
  <2>5. next[p].observations = Latest.observations
    BY <2>1, <2>2 DEF StoryInv, MovesObserveNothing
  <2>6. Follows(Latest, next[p])
    BY <2>2, <2>5 DEF Moves, Follows, Terminal
  <2>7. CheckpointsFollow' BY <2>1, <2>2, <2>3, <2>6, ChainGrows DEF StoryInv, LedgerStory
  <2>8. ConsumedIffClaimed' BY <2>1 DEF StoryInv, LedgerStory, ConsumedIffClaimed
  <2>9. Started' = Started /\ Completed' = Completed BY <2>1 DEF Started, Completed
  <2>10. LedgerAgrees'
    BY <2>1, <2>2, <2>4, <2>5, <2>9 DEF StoryInv, LedgerStory, LedgerAgrees, Moves
  <2>11. ClaimHeld'
    <3> SUFFICES ASSUME NEW k \in Started
                 PROVE  Stopped' /\ actions[k].action.base + 1 = Latest'.revision
      BY <2>1, <2>9 DEF ClaimHeld
    <3>1. Running /\ actions[k].action.base = Latest.revision
      BY <2>2 DEF StoryInv, LedgerStory, ClaimHeld, Moves, Stopped, Terminal
    <3> QED BY <2>2, <2>4, <3>1 DEF Moves, Running, Stopped, Terminal
  <2> QED BY <2>7, <2>8, <2>10, <2>11 DEF LedgerStory
<1>2. CASE ~ RevisionFree(next[p])
  <2>1. UNCHANGED <<log, actions, admissions>> BY <1>2 DEF Insert, Refuse, ledger
  <2> QED BY <2>1, SameStory DEF StoryInv
<1> QED BY <1>1, <1>2

\* complete_action charges the observation it adds.
LEMMA CompleteStory ==
  ASSUME Inv, LedgerStory, NEW p \in Procs, Complete(p)
  PROVE  LedgerStory'
<1>1. CASE HoldsClaim(p) /\ RevisionFree(next[p])
  <2>1. /\ actions' = [actions EXCEPT ![Key(p)].state = "completed",
                                      ![Key(p)].observation = found[p]]
        /\ InsertCheckpoint(next[p]) /\ admissions' = admissions /\ pc[p] = "complete"
    BY <1>1 DEF Complete
  <2>2. /\ Running /\ next[p] \in Checkpoint /\ next[p].revision = Len(log)
        /\ \A k \in ActionKeys : actions'[k] = None <=> actions[k] = None
        /\ actions' \in [ActionKeys -> ActionRow \cup {None}]
        /\ Key(p) \in Started /\ Started' = Started \ {Key(p)}
    BY <1>1, <2>1, CompleteEffect
  <2>3. TypeOK /\ LogOK /\ RowsOK /\ ProcOK(p) BY DEF Inv, LedgerOK
  <2>4. /\ seen[p] \in Checkpoint /\ Stored(seen[p]) /\ found[p] \in Observation
        /\ CanRecord(seen[p], found[p]) /\ next[p] = record_observation(seen[p], found[p])
    BY <2>1, <2>3 DEF ProcOK, Executing
  <2>5. /\ next[p].revision = seen[p].revision + 1 /\ next[p].used = seen[p].used + 1
        /\ next[p].observations = seen[p].observations \cup {found[p]}
    BY <2>4, RecordType DEF record_observation, NextCheckpoint, Checkpoint
  <2>6. Exists /\ Latest = seen[p] BY <1>1, <2>2, <2>3, <2>4, <2>5, FreeRevisionIsNext
  <2>7. Exists' /\ Latest' = next[p] BY <2>1, <2>2, <2>3, InsertGrows
  <2>8. Follows(Latest, next[p])
    <3>1. Latest.status \notin Terminal BY <2>4, <2>6 DEF CanRecord, Terminal
    <3>2. found[p] \in next[p].observations BY <2>5
    <3> QED BY <2>4, <2>5, <2>6, <3>1, <3>2 DEF Follows
  <2>9. CheckpointsFollow' BY <2>1, <2>2, <2>3, <2>6, <2>8, ChainGrows DEF LedgerStory
  <2>10. ConsumedIffClaimed'
    BY <2>1, <2>2 DEF LedgerStory, ConsumedIffClaimed, ActionKeys
  <2>11. ClaimHeld'
    <3>1. Started' = {} BY <2>2, <2>3 DEF RowsOK
    <3> QED BY <3>1 DEF ClaimHeld
  <2>12. /\ actions'[Key(p)].state = "completed" /\ actions'[Key(p)].observation = found[p]
         /\ \A k \in ActionKeys \ {Key(p)} : actions'[k] = actions[k]
         /\ Key(p) \in ActionKeys /\ actions[Key(p)] # None /\ actions[Key(p)].state = "started"
    <3>1. Key(p) \in ActionKeys /\ actions[Key(p)] # None /\ actions[Key(p)].state = "started"
      BY <2>2 DEF Started
    <3>2. actions[Key(p)] \in ActionRow BY <2>3, <3>1 DEF TypeOK
    <3>3. actions' = [actions EXCEPT ![Key(p)] = [actions[Key(p)] EXCEPT !.state = "completed",
                                                            !.observation = found[p]]]
      BY <2>1, <2>3, <3>1 DEF TypeOK
    <3> QED BY <2>3, <3>1, <3>2, <3>3 DEF TypeOK, ActionRow
  <2>13. Completed' = Completed \cup {Key(p)} /\ Key(p) \notin Completed
    BY <2>2, <2>12 DEF Completed
  <2>14. Cardinality(Completed') = Cardinality(Completed) + 1
    <3>1. IsFiniteSet(Completed)
      <4>1. IsFiniteSet(ActionKeys) BY FlowConstants, FS_Union DEF ActionKeys
      <4> QED BY <4>1, FS_Subset DEF Completed
    <3> QED BY <2>13, <3>1, FS_AddElement
  <2>15. {actions'[k].observation : k \in Completed'} =
            {actions[k].observation : k \in Completed} \cup {found[p]}
    <3>1. \A k \in Completed : actions'[k] = actions[k] BY <2>12, <2>13 DEF Completed
    <3> QED BY <2>12, <2>13, <3>1
  <2>16. LedgerAgrees'
    BY <2>5, <2>6, <2>7, <2>14, <2>15 DEF LedgerStory, LedgerAgrees
  <2> QED BY <2>9, <2>10, <2>11, <2>16 DEF LedgerStory
<1>2. CASE ~ (HoldsClaim(p) /\ RevisionFree(next[p]))
  <2>1. UNCHANGED <<log, actions, admissions>> BY <1>2 DEF Complete, Refuse, ledger
  <2> QED BY <2>1, SameStory
<1> QED BY <1>1, <1>2

\* claim_action claims for the checkpoint that is the latest, and consumes the
\* admission of a replanned action.
LEMMA ClaimStory ==
  ASSUME Inv, LedgerStory, NEW p \in Procs, Claim(p)
  PROVE  LedgerStory'
<1>1. TypeOK /\ ProcOK(p) BY DEF Inv
<1>2. pc[p] = "claim" /\ UNCHANGED <<log, external>> BY DEF Claim
<1>3. Latest' = Latest /\ (Exists' <=> Exists) /\ (Running' <=> Running) /\ (Stopped' <=> Stopped)
  BY <1>2 DEF Latest, Exists, Running, Stopped
<1>4. CheckpointsFollow' BY <1>2 DEF LedgerStory, CheckpointsFollow, Exists
<1>5. CASE FirstClaim(p)
  <2>1. /\ Running /\ Key(p) \in ActionKeys /\ actions[Key(p)] = None
        /\ actions'[Key(p)] # None
        /\ \A k \in ActionKeys \ {Key(p)} : actions'[k] = actions[k]
        /\ Started' = {Key(p)} /\ Completed' = Completed
    BY <1>2, <1>5, FirstClaimEffect
  <2>2. actions'[Key(p)].action = Act(p) /\ Latest.revision = Act(p).base
    BY <1>1, <1>5, <2>1 DEF FirstClaim, CanFirstClaim, IsBoundToLatest, TypeOK
  <2>3. ClaimHeld' BY <1>3, <2>1, <2>2 DEF ClaimHeld
  <2>4. \A k \in Completed : actions'[k] = actions[k] BY <2>1 DEF Completed
  <2>5. LedgerAgrees' BY <1>3, <2>1, <2>4 DEF LedgerStory, LedgerAgrees
  <2>6. ConsumedIffClaimed'
    <3> SUFFICES ASSUME NEW q \in Proposals
                 PROVE  actions'[q] # None <=> admissions'[q] # None
                                               /\ admissions'[q].state = "consumed"
      BY DEF ConsumedIffClaimed
    <3>1. CASE q = Key(p)
      <4>1. admissions[q] # None
        <5>1. CallOK(p) BY <1>1, <1>2 DEF ProcOK, Executing
        <5> QED BY <1>2, <3>1, <5>1, FlowConstants DEF CallOK, Executing
      <4>2. admissions' = [admissions EXCEPT ![q].state = "consumed"]
        BY <1>5, <3>1 DEF FirstClaim
      <4>3. admissions[q] \in Admission BY <1>1, <4>1 DEF TypeOK
      <4>4. admissions'[q] = [admissions[q] EXCEPT !.state = "consumed"]
        BY <1>1, <4>2 DEF TypeOK
      <4>5. admissions'[q] \in Admission /\ admissions'[q].state = "consumed"
        BY <4>3, <4>4 DEF Admission
      <4> QED BY <2>1, <3>1, <4>5, NoneIsNoRow
    <3>2. CASE q # Key(p)
      <4>1. actions'[q] = actions[q] BY <2>1, <3>2 DEF ActionKeys
      <4>2. admissions'[q] = admissions[q] BY <1>1, <1>5, <3>2 DEF FirstClaim, TypeOK
      <4> QED BY <4>1, <4>2 DEF LedgerStory, ConsumedIffClaimed
    <3> QED BY <3>1, <3>2
  <2> QED BY <1>4, <2>3, <2>5, <2>6 DEF LedgerStory
<1>6. CASE Reclaim(p)
  <2>1. /\ Key(p) \in ActionKeys /\ \A k \in ActionKeys : actions'[k] = None <=> actions[k] = None
        /\ Started' = Started /\ Completed' = Completed
        /\ \A k \in Completed : actions'[k] = actions[k]
    BY <1>2, <1>6, ReclaimEffect
  <2>2. admissions' = admissions BY <1>6 DEF Reclaim
  <2>3. ConsumedIffClaimed' BY <2>1, <2>2 DEF LedgerStory, ConsumedIffClaimed, ActionKeys
  <2>4. LedgerAgrees' BY <1>3, <2>1 DEF LedgerStory, LedgerAgrees
  <2>5. \A k \in Started : actions'[k].action = actions[k].action
    <3>1. actions' = [actions EXCEPT ![Key(p)].attempt = call[p].attempt]
          /\ actions[Key(p)] # None
      BY <1>6 DEF Reclaim, Row
    <3>2. actions[Key(p)] \in ActionRow BY <1>1, <2>1, <3>1 DEF TypeOK
    <3> QED BY <1>1, <2>1, <3>1, <3>2 DEF TypeOK, ActionRow, Started
  <2>6. ClaimHeld' BY <1>3, <2>1, <2>5 DEF LedgerStory, ClaimHeld
  <2> QED BY <1>4, <2>3, <2>4, <2>6 DEF LedgerStory
<1>7. CASE UNCHANGED <<actions, admissions>> BY <1>2, <1>7, SameStory
<1> QED BY <1>5, <1>6, <1>7 DEF Claim, ClaimReplay

\* Proposals are admitted before their action is claimed, and released only
\* while it is not.
LEMMA AdmissionStory ==
  ASSUME Inv, LedgerStory,
         \/ \E p \in Procs : Admit(p)
         \/ \E q \in Proposals, s \in {"cancelled", "expired"} : Release(q, s)
  PROVE  LedgerStory'
<1>1. UNCHANGED <<log, actions, external>> BY DEF Admit, Release
<1>2. TypeOK BY DEF Inv
<1>3. ConsumedIffClaimed'
  <2>1. ASSUME NEW p \in Procs, Admit(p) PROVE ConsumedIffClaimed'
    <3>1. CallOK(p) BY <2>1 DEF Inv, ProcOK, Admit
    <3>2. Key(p) \in Proposals BY <2>1, <3>1 DEF CallOK, Admit, Executing
    <3>3. \/ admissions' = admissions
          \/ /\ admissions[Key(p)] = None
             /\ admissions' = [admissions EXCEPT ![Key(p)] =
                                  [action |-> Act(p), state |-> "reserved"]]
      BY <2>1 DEF Admit
    <3>4. \A q \in Proposals : \/ admissions'[q] = admissions[q]
                               \/ admissions[q] = None /\ admissions'[q].state = "reserved"
      BY <1>2, <3>2, <3>3 DEF TypeOK
    <3> QED BY <1>1, <3>4 DEF LedgerStory, ConsumedIffClaimed
  <2>2. ASSUME NEW r \in Proposals, NEW s \in {"cancelled", "expired"}, Release(r, s)
        PROVE  ConsumedIffClaimed'
    <3>1. /\ admissions[r] # None /\ admissions[r].state = "reserved"
          /\ admissions' = [admissions EXCEPT ![r].state = s]
      BY <2>2 DEF Release, Releasable
    <3>2. admissions[r] \in Admission BY <1>2, <3>1 DEF TypeOK
    <3>3. admissions'[r].state = s BY <1>2, <3>1, <3>2 DEF TypeOK, Admission
    <3>4. \A q \in Proposals \ {r} : admissions'[q] = admissions[q] BY <1>2, <3>1 DEF TypeOK
    <3>5. s # "consumed" BY <2>2
    <3> QED BY <1>1, <3>1, <3>3, <3>4, <3>5 DEF LedgerStory, ConsumedIffClaimed
  <2> QED BY <2>1, <2>2
<1>4. CheckpointsFollow' BY <1>1 DEF LedgerStory, CheckpointsFollow, Exists
<1>5. ClaimHeld' BY <1>1 DEF LedgerStory, ClaimHeld, Started, Running, Stopped, Exists, Latest
<1>6. LedgerAgrees' BY <1>1 DEF LedgerStory, LedgerAgrees, Completed, Exists, Latest
<1> QED BY <1>3, <1>4, <1>5, <1>6 DEF LedgerStory

-----------------------------------------------------------------------------
(* What a process is about to insert *)

\* The checkpoints that start or stop a flow are made from the one it has.
LEMMA MoveObserves ==
  ASSUME NEW c \in Checkpoint, NEW now
  PROVE  /\ start_flow(c, now).observations = c.observations
         /\ \A d \in Stops(c, now) : d.observations = c.observations
  BY DEF start_flow, Stops, cancel_flow, activate_kill_switch, expire_flow, NextCheckpoint, Checkpoint

\* Only create_and_start, cancel, kill and expire come to insert a checkpoint
\* of advance, and each makes it from the one it has read.
LEMMA MovesStep ==
  ASSUME Inv, MovesObserveNothing, NEW p \in Procs, Step(p) \/ BeginOperation(p) \/ Crash(p)
  PROVE  MovesObserveNothing'
<1>1. TypeOK /\ ProcOK(p) BY DEF Inv
<1>2. \A r \in Procs \ {p} : Keeps(r) BY ProcessStep DEF StepOf, Keeps, vars, local
<1>3. pc \in [Procs -> PCs] /\ seen \in [Procs -> Checkpoint \cup {None}]
      /\ next \in [Procs -> Checkpoint \cup {None}] /\ (Exists => Latest \in Checkpoint)
  BY <1>1, LatestType DEF TypeOK
<1>4. pc'[p] \in {"assert", "insert"} => next'[p].observations = seen'[p].observations
  <2>1. CASE Step(p)
    <3>1. CASE Create(p)
      <4>1. next[p] = PlannedCheckpoint(call[p].now) /\ call[p] \in Call
        BY <1>1, <3>1 DEF Create, ProcOK
      <4>2. next[p] \in Checkpoint BY <4>1, PlannedType DEF Call
      <4>3. next'[p] = start_flow(next[p], call[p].now) /\ seen'[p] = next[p]
        BY <1>3, <3>1 DEF Create, Read, Plan
      <4> QED BY <4>2, <4>3, MoveObserves
    <3>2. CASE AssertLatest(p)
      <4>1. CASE Latest = seen[p]
        BY <1>3, <3>2, <4>1 DEF AssertLatest, Goto, MovesObserveNothing
      <4>2. CASE Latest # seen[p]
        BY <1>3, <3>2, <4>2 DEF AssertLatest, Refuse, Leave
      <4> QED BY <4>1, <4>2
    <3>3. CASE ~ Create(p) /\ ~ AssertLatest(p)
      <4>1. pc'[p] \notin {"assert", "insert"}
        <5>1. Leave(p) => pc'[p] = "idle" BY <1>3 DEF Leave
        <5>2. CASE Replay(p) \/ Claim(p)
          BY <1>3, <5>1, <5>2 DEF Replay, Claim, FirstClaim, Reclaim, ClaimReplay, Return, Goto
        <5>3. CASE Complete(p)
          BY <1>3, <5>1, <5>3 DEF Complete, Return, Goto, Refuse
        <5>4. CASE AdapterReturns(p) \/ AdapterFails(p) \/ AdapterExhausted(p) \/ Record(p)
          BY <1>3, <5>1, <5>4
             DEF AdapterReturns, AdapterFails, AdapterExhausted, Record, Goto, Refuse
        <5>5. CASE CreateRaced(p) \/ Insert(p) \/ PutReceipt(p) \/ Admit(p)
          BY <5>1, <5>5 DEF CreateRaced, Insert, PutReceipt, Admit, Refuse
        <5> QED BY <2>1, <3>3, <5>2, <5>3, <5>4, <5>5 DEF Step
      <4> QED BY <4>1
    <3> QED BY <3>1, <3>2, <3>3
  <2>2. CASE BeginOperation(p)
    <3>1. CASE BeginStart(p)
      BY <1>3, <3>1, MoveObserves DEF BeginStart, Read, Plan
    <3>2. CASE BeginStop(p)
      BY <1>3, <3>2, MoveObserves DEF BeginStop, Read, Plan
    <3>3. CASE NothingToStart(p) \/ ExpireStopped(p)
      BY <3>3 DEF NothingToStart, ExpireStopped, vars, local
    <3>4. CASE BeginCreate(p) \/ \E n \in 1..MaxAttempts :
                  \/ \E a \in prepared : BeginRecon(p, a, n)
                  \/ \E q \in Proposals : BeginReplan(p, q, n)
      BY <1>3, <3>4 DEF BeginCreate, BeginRecon, BeginReplan, Begin
    <3>5. CASE \E q \in Proposals, v \in views : BeginAdmit(p, q, v)
      BY <1>3, <3>5 DEF BeginAdmit, Begin
    <3> QED BY <2>2, <3>1, <3>2, <3>3, <3>4, <3>5 DEF BeginOperation
  <2>3. CASE Crash(p) BY <1>3, <2>3 DEF Crash, Leave
  <2> QED BY <2>1, <2>2, <2>3
<1> QED BY <1>2, <1>4 DEF MovesObserveNothing, Keeps

-----------------------------------------------------------------------------
(* The attempts the adapter is called for *)

\* An attempt that was run was handed out, the one a process is about to run
\* was not run yet, and no other process has it.
RunInv ==
    /\ \A k \in ActionKeys : \A i \in 1..Len(ran[k]) :
          actions[k] # None /\ ran[k][i] <= actions[k].attempt
    /\ \A p \in Procs : pc[p] = "run" =>
          /\ call[p].attempt <= Row(p).attempt
          /\ \A i \in 1..Len(ran[Key(p)]) : ran[Key(p)][i] # call[p].attempt
    /\ \A p, q \in Procs :
          p # q /\ pc[p] = "run" /\ pc[q] = "run" /\ Key(p) = Key(q) =>
              call[p].attempt # call[q].attempt
    /\ AttemptsRunOnce

\* No row loses an attempt.
RowsAge ==
    \A k \in ActionKeys : actions[k] # None =>
        actions'[k] # None /\ actions'[k].attempt >= actions[k].attempt

\* The attempts of the rows are numbers.
LEMMA RowAttempt ==
  ASSUME NEW table \in [ActionKeys -> ActionRow \cup {None}], NEW k \in ActionKeys,
         table[k] # None
  PROVE  table[k].attempt \in Nat
<1>1. table[k] \in ActionRow OBVIOUS
<1>2. table[k].attempt \in 1..MaxAttempts BY <1>1 DEF ActionRow
<1> QED BY <1>2 DEF MaxAttempts

\* A process at the adapter works on a row of the table.
LEMMA AtAdapter ==
  ASSUME Inv, NEW p \in Procs, pc[p] = "run"
  PROVE  /\ Key(p) \in ActionKeys /\ actions[Key(p)] \in ActionRow /\ Row(p) = actions[Key(p)]
         /\ call[p].attempt \in Nat /\ Row(p) # None /\ Row(p).attempt \in Nat
<1>1. ProcOK(p) /\ TypeOK BY DEF Inv
<1>2. CallOK(p) /\ Row(p) # None BY <1>1 DEF ProcOK, Executing
<1>3. Key(p) \in ActionKeys /\ call[p].attempt \in 1..MaxAttempts
  BY <1>2 DEF CallOK, Act, Key, Action, Call
<1>4. actions[Key(p)] \in ActionRow BY <1>1, <1>2, <1>3 DEF TypeOK, Row
<1> QED BY <1>2, <1>3, <1>4 DEF Row, ActionRow, MaxAttempts

\* Steps that neither hand out an attempt nor run one.
LEMMA RunQuiet ==
  ASSUME Inv, Inv', RunInv, RowsAge, ran' = ran,
         \A r \in Procs : pc'[r] = "run" => pc[r] = "run" /\ call'[r] = call[r]
  PROVE  RunInv'
<1>1. /\ actions \in [ActionKeys -> ActionRow \cup {None}] /\ ran \in [ActionKeys -> Seq(1..MaxAttempts)]
      /\ actions' \in [ActionKeys -> ActionRow \cup {None}]
  BY DEF Inv, TypeOK
<1>2. ASSUME NEW k \in ActionKeys, NEW i \in 1..Len(ran'[k])
      PROVE  actions'[k] # None /\ ran'[k][i] <= actions'[k].attempt
  <2>1. actions[k] # None /\ ran[k][i] <= actions[k].attempt BY DEF RunInv
  <2>2. actions'[k] # None /\ actions'[k].attempt >= actions[k].attempt BY <2>1 DEF RowsAge
  <2>3. ran[k][i] \in Nat
    <3>1. ran[k] \in Seq(1..MaxAttempts) BY <1>1
    <3>2. ran[k][i] \in 1..MaxAttempts BY <3>1, ElementOfSeq, Zenon
    <3> QED BY <3>2 DEF MaxAttempts
  <2>4. actions[k].attempt \in Nat /\ actions'[k].attempt \in Nat
    BY <1>1, <2>1, <2>2, RowAttempt
  <2> QED BY <2>1, <2>2, <2>3, <2>4
<1>3. ASSUME NEW r \in Procs, pc'[r] = "run"
      PROVE  /\ Key(r)' = Key(r) /\ call'[r] = call[r] /\ pc[r] = "run"
             /\ call'[r].attempt <= Row(r)'.attempt
             /\ \A i \in 1..Len(ran'[Key(r)']) : ran'[Key(r)'][i] # call'[r].attempt
  <2>1. pc[r] = "run" /\ call'[r] = call[r] BY <1>3
  <2>2. Key(r)' = Key(r) BY <2>1 DEF Key, Act
  <2>3. /\ Key(r) \in ActionKeys /\ Row(r) = actions[Key(r)] /\ call[r].attempt \in Nat
        /\ Row(r) # None /\ Row(r).attempt \in Nat
    BY <2>1, AtAdapter
  <2>4. Row(r)' = actions'[Key(r)] BY <2>2 DEF Row
  <2>5. actions'[Key(r)] # None /\ actions'[Key(r)].attempt >= actions[Key(r)].attempt
    BY <2>3 DEF RowsAge
  <2>6. actions'[Key(r)].attempt \in Nat BY <1>1, <2>3, <2>5, RowAttempt
  <2>7. /\ call[r].attempt <= Row(r).attempt
        /\ \A i \in 1..Len(ran[Key(r)]) : ran[Key(r)][i] # call[r].attempt
    BY <2>1 DEF RunInv
  <2> QED BY <2>1, <2>2, <2>3, <2>4, <2>5, <2>6, <2>7
<1>4. AttemptsRunOnce' BY DEF RunInv, AttemptsRunOnce
<1>5. \A p, q \in Procs :
          p # q /\ pc'[p] = "run" /\ pc'[q] = "run" /\ Key(p)' = Key(q)' =>
              call'[p].attempt # call'[q].attempt
  BY <1>3 DEF RunInv
<1> QED BY <1>2, <1>3, <1>4, <1>5 DEF RunInv

\* claim_action hands out an attempt that nobody has and nobody ran.
LEMMA HandedOut ==
  ASSUME Inv, Inv', RunInv, RowsAge, ran' = ran, NEW p \in Procs, pc'[p] = "run",
         call'[p] = call[p], \A r \in Procs \ {p} : Keeps(r),
         Key(p) \in ActionKeys, Row(p)' # None, Row(p)'.attempt = call[p].attempt,
         Row(p) # None => call[p].attempt > Row(p).attempt
  PROVE  RunInv'
<1>1. /\ actions \in [ActionKeys -> ActionRow \cup {None}] /\ ran \in [ActionKeys -> Seq(1..MaxAttempts)]
      /\ actions' \in [ActionKeys -> ActionRow \cup {None}]
  BY DEF Inv, TypeOK
<1>2. Key(p)' = Key(p) /\ Row(p)' = actions'[Key(p)] /\ Row(p) = actions[Key(p)]
  BY DEF Key, Act, Row
<1>3. actions'[Key(p)].attempt \in Nat BY <1>1, <1>2, RowAttempt
<1>4. ASSUME NEW k \in ActionKeys, NEW i \in 1..Len(ran[k])
      PROVE  /\ actions'[k] # None /\ ran[k][i] <= actions'[k].attempt
             /\ k = Key(p) => ran[k][i] # call[p].attempt
  <2>1. actions[k] # None /\ ran[k][i] <= actions[k].attempt BY DEF RunInv
  <2>2. actions'[k] # None /\ actions'[k].attempt >= actions[k].attempt BY <2>1 DEF RowsAge
  <2>3. ran[k][i] \in Nat
    <3>1. ran[k] \in Seq(1..MaxAttempts) BY <1>1
    <3>2. ran[k][i] \in 1..MaxAttempts BY <3>1, ElementOfSeq, Zenon
    <3> QED BY <3>2 DEF MaxAttempts
  <2>4. actions[k].attempt \in Nat /\ actions'[k].attempt \in Nat
    BY <1>1, <2>1, <2>2, RowAttempt
  <2> QED BY <1>2, <1>3, <2>1, <2>2, <2>3, <2>4
<1>5. ASSUME NEW r \in Procs, r # p, pc'[r] = "run"
      PROVE  /\ Key(r)' = Key(r) /\ call'[r] = call[r] /\ pc[r] = "run"
             /\ call'[r].attempt <= Row(r)'.attempt
             /\ \A i \in 1..Len(ran[Key(r)]) : ran[Key(r)][i] # call'[r].attempt
             /\ Key(r) = Key(p) => call[r].attempt < call[p].attempt
  <2>1. pc[r] = "run" /\ call'[r] = call[r] /\ Keeps(r) BY <1>5 DEF Keeps
  <2>2. Key(r)' = Key(r) BY <2>1 DEF Key, Act
  <2>3. /\ Key(r) \in ActionKeys /\ Row(r) = actions[Key(r)] /\ call[r].attempt \in Nat
        /\ Row(r) # None /\ Row(r).attempt \in Nat
    BY <2>1, AtAdapter
  <2>4. Row(r)' = actions'[Key(r)] BY <2>2 DEF Row
  <2>5. actions'[Key(r)] # None /\ actions'[Key(r)].attempt >= actions[Key(r)].attempt
    BY <2>3 DEF RowsAge
  <2>6. actions'[Key(r)].attempt \in Nat BY <1>1, <2>3, <2>5, RowAttempt
  <2>7. /\ call[r].attempt <= Row(r).attempt
        /\ \A i \in 1..Len(ran[Key(r)]) : ran[Key(r)][i] # call[r].attempt
    BY <2>1 DEF RunInv
  <2>8. Key(r) = Key(p) => call[r].attempt < call[p].attempt
    BY <1>2, <1>3, <2>3, <2>7
  <2> QED BY <2>1, <2>2, <2>3, <2>4, <2>5, <2>6, <2>7, <2>8
<1>6. AttemptsRunOnce' BY DEF RunInv, AttemptsRunOnce
<1>7. call[p].attempt \in Nat BY <1>2, <1>3
<1>8. \A q, r \in Procs :
          q # r /\ pc'[q] = "run" /\ pc'[r] = "run" /\ Key(q)' = Key(r)' =>
              call'[q].attempt # call'[r].attempt
  <2> SUFFICES ASSUME NEW q \in Procs, NEW r \in Procs, q # r, pc'[q] = "run", pc'[r] = "run",
                      Key(q)' = Key(r)'
               PROVE  call'[q].attempt # call'[r].attempt
    OBVIOUS
  <2>0. \A s \in Procs : s # p /\ pc'[s] = "run" => call[s].attempt \in Nat
    BY <1>5, AtAdapter
  <2>1. CASE q = p
    <3>1. r # p /\ Key(r)' = Key(r) /\ Key(p)' = Key(p) BY <1>2, <1>5, <2>1
    <3>2. Key(r) = Key(p) BY <2>1, <3>1, Zenon
    <3>3. call[r].attempt < call[p].attempt /\ call'[r] = call[r] /\ call'[q] = call[p]
      BY <1>5, <2>1, <3>1, <3>2
    <3>4. call[r].attempt \in Nat BY <2>0, <3>1
    <3> QED BY <1>7, <3>3, <3>4
  <2>2. CASE r = p BY <1>2, <1>5, <1>7, <2>0, <2>2
  <2>3. CASE q # p /\ r # p
    <3>1. /\ Key(q)' = Key(q) /\ call'[q] = call[q] /\ pc[q] = "run"
          /\ Key(r)' = Key(r) /\ call'[r] = call[r] /\ pc[r] = "run"
      BY <1>5, <2>3
    <3>2. Key(q) = Key(r) BY <3>1, Zenon
    <3>3. call[q].attempt # call[r].attempt BY <3>1, <3>2 DEF RunInv
    <3> QED BY <3>1, <3>3
  <2> QED BY <2>1, <2>2, <2>3
<1>9. ASSUME NEW r \in Procs, pc'[r] = "run"
      PROVE  /\ call'[r].attempt <= Row(r)'.attempt
             /\ \A i \in 1..Len(ran'[Key(r)']) : ran'[Key(r)'][i] # call'[r].attempt
  <2>1. CASE r = p BY <1>2, <1>3, <1>4, <2>1
  <2>2. CASE r # p BY <1>5, <1>9, <2>2
  <2> QED BY <2>1, <2>2
<1> QED BY <1>4, <1>6, <1>8, <1>9 DEF RunInv

\* The adapter is called for the attempt of the process.
LEMMA AdapterRun ==
  ASSUME Inv, Inv', RunInv, NEW p \in Procs, pc[p] = "run", Called(p), actions' = actions,
         pc'[p] # "run", \A r \in Procs \ {p} : Keeps(r)
  PROVE  RunInv'
<1> DEFINE k == Key(p)
           n == call[p].attempt
<1>1. /\ k \in ActionKeys /\ n \in Nat /\ Row(p) = actions[k] /\ Row(p) # None
      /\ n <= Row(p).attempt /\ \A i \in 1..Len(ran[k]) : ran[k][i] # n
  BY AtAdapter DEF RunInv
<1>2. ran \in [ActionKeys -> Seq(1..MaxAttempts)] BY DEF Inv, TypeOK
<1>3. ran' = [ran EXCEPT ![k] = Append(ran[k], n)] BY <1>1, <1>2 DEF Called
<1> HIDE DEF k, n
<1>4. /\ ran'[k] = Append(ran[k], n) /\ Len(ran'[k]) = Len(ran[k]) + 1 /\ Len(ran[k]) \in Nat
      /\ \A i \in 1..Len(ran[k]) : ran'[k][i] = ran[k][i]
      /\ ran'[k][Len(ran[k]) + 1] = n
      /\ \A j \in ActionKeys \ {k} : ran'[j] = ran[j]
  <2>1. ran[k] \in Seq(1..MaxAttempts) BY <1>1, <1>2
  <2> QED BY <1>1, <1>2, <1>3, <2>1
<1>5. ASSUME NEW j \in ActionKeys, NEW i \in 1..Len(ran'[j])
      PROVE  actions'[j] # None /\ ran'[j][i] <= actions'[j].attempt
  <2>1. CASE j = k /\ i = Len(ran[k]) + 1 BY <1>1, <1>4, <2>1
  <2>2. CASE j = k /\ i # Len(ran[k]) + 1
    <3>1. i \in 1..Len(ran[k]) BY <1>4, <2>2
    <3> QED BY <1>1, <1>4, <2>2, <3>1 DEF RunInv
  <2>3. CASE j # k BY <1>4, <2>3 DEF RunInv
  <2> QED BY <2>1, <2>2, <2>3
<1>6. ASSUME NEW r \in Procs, pc'[r] = "run"
      PROVE  /\ r # p /\ Keeps(r) /\ pc[r] = "run" /\ Key(r)' = Key(r) /\ Row(r)' = Row(r)
             /\ call'[r] = call[r]
             /\ call'[r].attempt <= Row(r)'.attempt
             /\ \A i \in 1..Len(ran'[Key(r)']) : ran'[Key(r)'][i] # call'[r].attempt
  <2>1. r # p /\ Keeps(r) BY <1>6
  <2>2. pc[r] = "run" /\ call'[r] = call[r] BY <1>6, <2>1 DEF Keeps
  <2>3. Key(r)' = Key(r) /\ Row(r)' = Row(r) BY <2>2 DEF Key, Act, Row
  <2>4. Key(r) \in ActionKeys BY <2>2, AtAdapter
  <2>5. /\ call[r].attempt <= Row(r).attempt
        /\ \A i \in 1..Len(ran[Key(r)]) : ran[Key(r)][i] # call[r].attempt
    BY <2>2 DEF RunInv
  <2>6. ASSUME NEW i \in 1..Len(ran'[Key(r)]) PROVE ran'[Key(r)][i] # call[r].attempt
    <3>1. CASE Key(r) # k BY <1>4, <2>4, <2>5, <3>1
    <3>2. CASE Key(r) = k /\ i = Len(ran[k]) + 1
      <4>1. call[p].attempt # call[r].attempt BY <2>1, <2>2, <3>2 DEF RunInv, k
      <4> QED BY <1>4, <3>2, <4>1 DEF n
    <3>3. CASE Key(r) = k /\ i # Len(ran[k]) + 1
      <4>1. i \in 1..Len(ran[k]) BY <1>4, <3>3
      <4> QED BY <1>4, <2>5, <3>3, <4>1
    <3> QED BY <3>1, <3>2, <3>3
  <2> QED BY <2>1, <2>2, <2>3, <2>5, <2>6
<1>7. AttemptsRunOnce'
  <2> SUFFICES ASSUME NEW j \in ActionKeys, NEW a \in 1..Len(ran'[j]), NEW b \in 1..Len(ran'[j]),
                      ran'[j][a] = ran'[j][b]
               PROVE  a = b
    BY DEF AttemptsRunOnce
  <2>1. CASE j # k BY <1>4, <2>1 DEF RunInv, AttemptsRunOnce
  <2>2. CASE j = k
    <3>1. ASSUME NEW i \in 1..Len(ran'[k]), i # Len(ran[k]) + 1
          PROVE  i \in 1..Len(ran[k]) /\ ran'[k][i] # n
      <4>1. i \in 1..Len(ran[k]) BY <1>4, <3>1
      <4> QED BY <1>1, <1>4, <4>1
    <3>2. CASE a = Len(ran[k]) + 1 BY <1>4, <2>2, <3>1, <3>2
    <3>3. CASE b = Len(ran[k]) + 1 BY <1>4, <2>2, <3>1, <3>3
    <3>4. CASE a # Len(ran[k]) + 1 /\ b # Len(ran[k]) + 1
      <4>1. a \in 1..Len(ran[k]) /\ b \in 1..Len(ran[k]) BY <2>2, <3>1, <3>4
      <4> QED BY <1>1, <1>4, <2>2, <4>1 DEF RunInv, AttemptsRunOnce
    <3> QED BY <3>2, <3>3, <3>4
  <2> QED BY <2>1, <2>2
<1>8. \A q, r \in Procs :
          q # r /\ pc'[q] = "run" /\ pc'[r] = "run" /\ Key(q)' = Key(r)' =>
              call'[q].attempt # call'[r].attempt
  BY <1>6 DEF RunInv
<1> QED BY <1>5, <1>6, <1>7, <1>8 DEF RunInv

\* Rows whose attempt does not change.
LEMMA AttemptsKept ==
  ASSUME Inv, \A k \in ActionKeys : actions'[k] = None <=> actions[k] = None,
         \A k \in ActionKeys : actions'[k].attempt = actions[k].attempt
  PROVE  RowsAge
<1>1. actions \in [ActionKeys -> ActionRow \cup {None}] BY DEF Inv, TypeOK
<1> SUFFICES ASSUME NEW k \in ActionKeys, actions[k] # None
             PROVE  actions'[k] # None /\ actions'[k].attempt >= actions[k].attempt
  BY DEF RowsAge
<1>2. actions[k].attempt \in Nat BY <1>1, RowAttempt
<1> QED BY <1>2

\* No row changes.
LEMMA SameAge ==
  ASSUME Inv, actions' = actions
  PROVE  RowsAge
<1>1. \A k \in ActionKeys : actions'[k].attempt = actions[k].attempt OBVIOUS
<1> QED BY <1>1, AttemptsKept

\* Closing a row leaves its attempt.
LEMMA ClosedRow ==
  ASSUME NEW row \in ActionRow, NEW o
  PROVE  [row EXCEPT !.state = "completed", !.observation = o].attempt = row.attempt
  BY DEF ActionRow

\* complete_action closes a row and keeps its attempt.
LEMMA CompleteAges ==
  ASSUME Inv, NEW p \in Procs, pc[p] = "complete",
         actions' = [actions EXCEPT ![Key(p)].state = "completed",
                                    ![Key(p)].observation = found[p]],
         \A k \in ActionKeys : actions'[k] = None <=> actions[k] = None
  PROVE  RowsAge
<1>1. TypeOK /\ ProcOK(p) BY DEF Inv
<1>2. CallOK(p) /\ Row(p) # None BY <1>1 DEF ProcOK, Executing
<1>3. Key(p) \in ActionKeys BY <1>2 DEF CallOK, Key, Act, Action
<1>4. actions[Key(p)] \in ActionRow BY <1>1, <1>2, <1>3 DEF TypeOK, Row
<1>5. actions' = [actions EXCEPT ![Key(p)] = [actions[Key(p)] EXCEPT !.state = "completed",
                                                          !.observation = found[p]]]
  BY <1>1, <1>3 DEF TypeOK
<1>6. actions'[Key(p)] = [actions[Key(p)] EXCEPT !.state = "completed", !.observation = found[p]]
  BY <1>1, <1>3, <1>5 DEF TypeOK
<1>7. actions'[Key(p)].attempt = actions[Key(p)].attempt
  <2>1. [actions[Key(p)] EXCEPT !.state = "completed", !.observation = found[p]].attempt
           = actions[Key(p)].attempt
    BY <1>4, ClosedRow, Zenon
  <2> QED BY <1>6, <2>1
<1>8. \A k \in ActionKeys \ {Key(p)} : actions'[k] = actions[k] BY <1>1, <1>5 DEF TypeOK
<1>9. \A k \in ActionKeys : actions'[k].attempt = actions[k].attempt BY <1>7, <1>8, Zenon
<1> QED BY <1>9, AttemptsKept

\* claim_action hands out the first attempt of a new row, or the next one of a
\* row that is started.
LEMMA ClaimRun ==
  ASSUME Inv, Inv', RunInv, NEW p \in Procs, Claim(p), \A r \in Procs \ {p} : Keeps(r)
  PROVE  RunInv'
<1>1. TypeOK /\ ProcOK(p) /\ pc[p] = "claim" /\ UNCHANGED <<log, external>> /\ ran' = ran
  BY DEF Inv, Claim
<1>2. CallOK(p) BY <1>1 DEF ProcOK, Executing
<1>3. Key(p) \in ActionKeys /\ call[p] \in Call BY <1>2 DEF CallOK, Key, Act, Action
<1>4. pc \in [Procs -> PCs] /\ actions \in [ActionKeys -> ActionRow \cup {None}] BY <1>1 DEF TypeOK
<1>5. CASE FirstClaim(p)
  <2>1. /\ actions[Key(p)] = None /\ actions'[Key(p)] # None
        /\ \A k \in ActionKeys \ {Key(p)} : actions'[k] = actions[k]
    BY <1>1, <1>5, FirstClaimEffect
  <2>2. /\ actions' = [actions EXCEPT ![Key(p)] =
              [action |-> Act(p), attempt |-> 1, state |-> "started", observation |-> None]]
        /\ call[p].attempt = 1 /\ Goto(p, "run")
    BY <1>5 DEF FirstClaim, CanFirstClaim
  <2>3. actions'[Key(p)].attempt = 1 BY <1>3, <1>4, <2>2
  <2>4. pc'[p] = "run" /\ call'[p] = call[p] BY <1>4, <2>2 DEF Goto
  <2>5. RowsAge
    <3> SUFFICES ASSUME NEW k \in ActionKeys, actions[k] # None
                 PROVE  actions'[k] # None /\ actions'[k].attempt >= actions[k].attempt
      BY DEF RowsAge
    <3>1. actions'[k] = actions[k] BY <2>1
    <3>2. actions[k].attempt \in Nat BY <1>4, RowAttempt
    <3> QED BY <3>1, <3>2
  <2>6. Row(p) = None /\ Row(p)' = actions'[Key(p)] BY <2>1, <2>4 DEF Row, Key, Act
  <2> QED BY <1>1, <1>3, <2>1, <2>2, <2>3, <2>4, <2>5, <2>6, HandedOut
<1>6. CASE Reclaim(p)
  <2>1. \A k \in ActionKeys : actions'[k] = None <=> actions[k] = None
    BY <1>1, <1>6, ReclaimEffect
  <2>2. /\ actions[Key(p)] # None /\ call[p].attempt = actions[Key(p)].attempt + 1
        /\ actions' = [actions EXCEPT ![Key(p)].attempt = call[p].attempt] /\ Goto(p, "run")
    BY <1>6 DEF Reclaim, IsNextAttempt, Row
  <2>3. actions[Key(p)] \in ActionRow BY <1>3, <1>4, <2>2
  <2>4. actions'[Key(p)] = [actions[Key(p)] EXCEPT !.attempt = call[p].attempt]
    BY <1>3, <1>4, <2>2
  <2>5. actions'[Key(p)].attempt = call[p].attempt BY <2>3, <2>4 DEF ActionRow
  <2>6. \A k \in ActionKeys \ {Key(p)} : actions'[k] = actions[k] BY <1>3, <1>4, <2>2
  <2>7. pc'[p] = "run" /\ call'[p] = call[p] BY <1>4, <2>2 DEF Goto
  <2>8. \A k \in ActionKeys : actions[k] # None => actions[k].attempt \in Nat BY <1>4, RowAttempt
  <2>9. RowsAge BY <1>3, <2>1, <2>2, <2>5, <2>6, <2>8 DEF RowsAge
  <2>10. Row(p) = actions[Key(p)] /\ Row(p)' = actions'[Key(p)] BY <2>7 DEF Row, Key, Act
  <2>11. call[p].attempt > Row(p).attempt BY <1>3, <2>2, <2>8, <2>10
  <2> QED BY <1>1, <1>3, <2>1, <2>2, <2>5, <2>7, <2>9, <2>10, <2>11, HandedOut
<1>7. CASE actions' = actions /\ (ClaimReplay(p) \/ Leave(p))
  <2>1. pc'[p] # "run" BY <1>4, <1>7 DEF ClaimReplay, Return, Leave, Goto
  <2>2. \A r \in Procs : pc'[r] = "run" => pc[r] = "run" /\ call'[r] = call[r]
    BY <2>1 DEF Keeps
  <2> QED BY <1>1, <1>7, <2>2, RunQuiet, SameAge
<1> QED BY <1>5, <1>6, <1>7 DEF Claim, ClaimReplay

\* Every step of a process keeps the attempts apart.
LEMMA ProcessRun ==
  ASSUME Inv, Inv', RunInv, NEW p \in Procs, Step(p) \/ BeginOperation(p) \/ Crash(p),
         \A r \in Procs \ {p} : Keeps(r)
  PROVE  RunInv'
<1>1. TypeOK /\ ProcOK(p) BY DEF Inv
<1>2. pc \in [Procs -> PCs] BY <1>1 DEF TypeOK
<1>3. ASSUME pc'[p] # "run" PROVE \A r \in Procs : pc'[r] = "run" => pc[r] = "run" /\ call'[r] = call[r]
  BY <1>3 DEF Keeps
<1>4. CASE Claim(p) BY <1>4, ClaimRun
<1>5. CASE AdapterReturns(p) \/ AdapterFails(p) \/ AdapterExhausted(p)
  <2>1. pc[p] = "run" /\ Called(p) /\ actions' = actions
    BY <1>5 DEF AdapterReturns, AdapterFails, AdapterExhausted, ledger
  <2>2. pc'[p] # "run"
    BY <1>2, <1>5 DEF AdapterReturns, AdapterFails, AdapterExhausted, Goto, Leave
  <2> QED BY <2>1, <2>2, AdapterRun
<1>6. CASE Complete(p)
  <2>1. pc[p] = "complete" /\ ran' = ran BY <1>6 DEF Complete, Refuse
  <2>2. pc'[p] # "run" BY <1>2, <1>6 DEF Complete, Return, Refuse, Goto, Leave
  <2>3. RowsAge
    <3>1. CASE HoldsClaim(p) /\ RevisionFree(next[p])
      <4>1. actions' = [actions EXCEPT ![Key(p)].state = "completed",
                                       ![Key(p)].observation = found[p]]
        BY <1>6, <3>1 DEF Complete
      <4>2. \A k \in ActionKeys : actions'[k] = None <=> actions[k] = None
        BY <2>1, <3>1, <4>1, CompleteEffect
      <4> QED BY <2>1, <4>1, <4>2, CompleteAges
    <3>2. CASE ~ (HoldsClaim(p) /\ RevisionFree(next[p]))
      BY <1>6, <3>2, SameAge DEF Complete, Refuse, ledger
    <3> QED BY <3>1, <3>2
  <2> QED BY <1>3, <2>1, <2>2, <2>3, RunQuiet
<1>7. CASE ~ Claim(p) /\ ~ Complete(p) /\ pc[p] # "run"
  <2>1. ran' = ran /\ actions' = actions /\ pc'[p] # "run"
    <3>1. Leave(p) => pc'[p] # "run" BY <1>2 DEF Leave
    <3>2. CASE Create(p) \/ CreateRaced(p) \/ AssertLatest(p) \/ Insert(p)
      BY <1>2, <3>1, <3>2
         DEF Create, CreateRaced, AssertLatest, Insert, Refuse, Goto, ledger
    <3>3. CASE Replay(p) \/ Record(p) \/ PutReceipt(p) \/ Admit(p)
      BY <1>2, <3>1, <3>3
         DEF Replay, Return, Record, PutReceipt, Admit, Refuse, Goto, ledger
    <3>4. CASE Crash(p) BY <3>1, <3>4 DEF Crash, ledger
    <3>5. CASE BeginOperation(p)
      <4>1. CASE BeginCreate(p) \/ BeginStart(p) \/ BeginStop(p)
        BY <1>2, <4>1 DEF BeginCreate, BeginStart, BeginStop, Begin, ledger
      <4>2. CASE NothingToStart(p) \/ ExpireStopped(p)
        BY <1>7, <4>2 DEF NothingToStart, ExpireStopped, vars, local, ledger
      <4>3. CASE \E n \in 1..MaxAttempts :
                    \/ \E a \in prepared : BeginRecon(p, a, n)
                    \/ \E q \in Proposals : BeginReplan(p, q, n)
        BY <1>2, <4>3 DEF BeginRecon, BeginReplan, Begin, ledger
      <4>4. CASE \E q \in Proposals, v \in views : BeginAdmit(p, q, v)
        BY <1>2, <4>4 DEF BeginAdmit, Begin, ledger
      <4> QED BY <3>5, <4>1, <4>2, <4>3, <4>4 DEF BeginOperation
    <3> QED BY <1>7, <3>2, <3>3, <3>4, <3>5
          DEF Step, AdapterReturns, AdapterFails, AdapterExhausted
  <2> QED BY <1>3, <2>1, RunQuiet, SameAge
<1>8. pc[p] = "run" => \/ AdapterReturns(p) \/ AdapterFails(p) \/ AdapterExhausted(p)
                       \/ Crash(p)
  <2> SUFFICES ASSUME pc[p] = "run" PROVE
          \/ AdapterReturns(p) \/ AdapterFails(p) \/ AdapterExhausted(p) \/ Crash(p)
    OBVIOUS
  <2>1. ~ BeginOperation(p)
    BY DEF BeginOperation, BeginCreate, BeginStart, NothingToStart, BeginStop, ExpireStopped,
           BeginRecon, BeginReplan, BeginAdmit, Begin
  <2> QED BY <2>1 DEF Step, Create, CreateRaced, AssertLatest, Insert, Replay, Claim, Record,
                      Complete, PutReceipt, Admit
<1>9. CASE Crash(p)
  <2>1. ran' = ran /\ actions' = actions /\ pc'[p] # "run"
    BY <1>2, <1>9 DEF Crash, Leave, ledger
  <2> QED BY <1>3, <2>1, RunQuiet, SameAge
<1> QED BY <1>4, <1>5, <1>6, <1>7, <1>8, <1>9

-----------------------------------------------------------------------------
(* The invariants hold *)

\* What a process does to the story of the tables.
LEMMA ProcessStory ==
  ASSUME Inv, StoryInv, NEW p \in Procs, Step(p) \/ BeginOperation(p) \/ Crash(p)
  PROVE  LedgerStory'
<1>1. LedgerStory BY DEF StoryInv
<1>2. CASE Create(p) \/ Insert(p) \/ Complete(p) \/ Claim(p) \/ Admit(p)
  BY <1>1, <1>2, CreateStory, InsertStory, CompleteStory, ClaimStory, AdmissionStory
<1>3. CASE UNCHANGED <<log, actions, admissions>> BY <1>1, <1>3, SameStory
<1>4. CASE CreateRaced(p) \/ AssertLatest(p) \/ Replay(p) \/ Record(p) \/ PutReceipt(p)
  BY <1>3, <1>4 DEF CreateRaced, AssertLatest, Replay, Record, PutReceipt, Refuse, ledger
<1>5. CASE AdapterReturns(p) \/ AdapterFails(p) \/ AdapterExhausted(p) \/ Crash(p)
  BY <1>3, <1>5 DEF AdapterReturns, AdapterFails, AdapterExhausted, Crash, ledger
<1>6. CASE BeginOperation(p)
  BY <1>3, <1>6 DEF BeginOperation, BeginCreate, BeginStart, NothingToStart, BeginStop,
                    ExpireStopped, BeginRecon, BeginReplan, BeginAdmit, vars, ledger
<1> QED BY <1>2, <1>4, <1>5, <1>6 DEF Step

LedgerInv == StoryInv /\ RunInv

\* The empty ledger.
LEMMA InitLedger ==
  ASSUME Init
  PROVE  LedgerInv
<1>1. ~ Exists /\ Len(log) = 0 BY DEF Init, Exists
<1>2. Started = {} BY DEF Init, Started
<1>3. MovesObserveNothing BY DEF Init, MovesObserveNothing
<1>4. ConsumedIffClaimed BY DEF Init, ConsumedIffClaimed, ActionKeys
<1>5. CheckpointsFollow BY <1>1 DEF CheckpointsFollow
<1>6. ClaimHeld /\ LedgerAgrees BY <1>1, <1>2 DEF ClaimHeld, LedgerAgrees
<1>7. RunInv BY DEF Init, RunInv, AttemptsRunOnce
<1> QED BY <1>3, <1>4, <1>5, <1>6, <1>7 DEF LedgerInv, StoryInv, LedgerStory

\* Every step keeps the story of the tables and the attempts apart.
LEMMA NextLedger ==
  ASSUME Inv, LedgerInv, [Next]_vars
  PROVE  LedgerInv'
<1>1. Inv' BY NextInv
<1>2. StoryInv /\ RunInv /\ MovesObserveNothing /\ LedgerStory BY DEF LedgerInv, StoryInv
<1>3. CASE UNCHANGED <<pc, call, seen, next, ran, actions>> /\ LedgerStory'
  <2>1. MovesObserveNothing' BY <1>2, <1>3 DEF MovesObserveNothing
  <2>2. RunInv' BY <1>1, <1>2, <1>3, RunQuiet, SameAge
  <2> QED BY <1>3, <2>1, <2>2 DEF LedgerInv, StoryInv
<1>4. CASE \E p \in Procs : Step(p) \/ BeginOperation(p) \/ Crash(p)
  <2>1. PICK p \in Procs : Step(p) \/ BeginOperation(p) \/ Crash(p) BY <1>4
  <2>2. StepOf(p) \/ UNCHANGED vars BY <2>1, ProcessStep
  <2>3. \A r \in Procs \ {p} : Keeps(r) BY <2>2 DEF StepOf, Keeps, vars, local
  <2>4. RunInv' BY <1>1, <1>2, <2>1, <2>3, ProcessRun
  <2>5. MovesObserveNothing' BY <1>2, <2>1, MovesStep
  <2>6. LedgerStory' BY <1>2, <2>1, ProcessStory
  <2> QED BY <2>4, <2>5, <2>6 DEF LedgerInv, StoryInv
<1>5. CASE Atomic
  <2>1. UNCHANGED <<pc, call, seen, next, ran, actions>>
    BY <1>5 DEF Atomic, PrepareRecon, IssueToolView, Release, ReserveExternal, ledger, local
  <2>2. CASE \E q \in Proposals, s \in {"cancelled", "expired"} : Release(q, s)
    BY <1>2, <1>3, <2>1, <2>2, AdmissionStory
  <2>3. CASE ~ \E q \in Proposals, s \in {"cancelled", "expired"} : Release(q, s)
    <3>1. UNCHANGED <<log, actions, admissions>>
      BY <1>5, <2>3 DEF Atomic, PrepareRecon, IssueToolView, ReserveExternal, ledger
    <3> QED BY <1>2, <1>3, <2>1, <3>1, SameStory
  <2> QED BY <2>2, <2>3
<1>6. CASE Revoke \/ Tick \/ UNCHANGED vars
  <2>1. UNCHANGED <<pc, call, seen, next, ran, actions>> /\ UNCHANGED <<log, actions, admissions>>
    BY <1>6 DEF Revoke, Tick, vars, ledger, local
  <2> QED BY <1>2, <1>3, <2>1, SameStory
<1> QED BY <1>4, <1>5, <1>6 DEF Next

\* The tables tell one story in every state of the flow.
THEOREM LedgerInvariantHolds == Spec => [](Inv /\ LedgerInv)
<1>1. Init => Inv /\ LedgerInv BY InitInv, InitLedger
<1>2. Inv /\ LedgerInv /\ [Next]_vars => Inv' /\ LedgerInv' BY NextInv, NextLedger
<1> QED BY <1>1, <1>2, PTL DEF Spec

\* Whatever calls of advance, claim_action and complete_action interleave and
\* wherever their processes die, the checkpoints are one chain of transitions
\* of the state machine, and an open claim was prepared for its last running one.
THEOREM CheckpointsAreOneChain == Spec => []OneChain
<1>1. LedgerInv => OneChain
  BY DEF LedgerInv, StoryInv, LedgerStory, ClaimHeld, OneChain, StartedOwnsTheFlow
<1> QED BY <1>1, LedgerInvariantHolds, PTL

\* The latest checkpoint lists and charges what the action table says is done.
THEOREM TablesTellOneStory == Spec => []LedgerAgrees
<1>1. LedgerInv => LedgerAgrees BY DEF LedgerInv, StoryInv, LedgerStory
<1> QED BY <1>1, LedgerInvariantHolds, PTL

\* A release never frees the budget of a claimed proposal.
THEOREM ClaimsConsumeTheirAdmission == Spec => []ConsumedIffClaimed
<1>1. LedgerInv => ConsumedIffClaimed BY DEF LedgerInv, StoryInv, LedgerStory
<1> QED BY <1>1, LedgerInvariantHolds, PTL

\* No attempt reaches the adapter twice, for any number of processes that
\* execute, retry and replay the same command.
THEOREM NoAttemptRunsTwice == Spec => []AttemptsRunOnce
<1>1. LedgerInv => AttemptsRunOnce BY DEF LedgerInv, RunInv
<1> QED BY <1>1, LedgerInvariantHolds, PTL
=============================================================================
