-------------------------- MODULE RedTeamFlowProofs --------------------------
(***************************************************************************)
(* Proofs about RedTeamFlow, for any processes, keys, proposals, chains,   *)
(* budget and bounds.                                                      *)
(***************************************************************************)
EXTENDS RedTeamFlow, TLAPS, SequenceTheorems, FiniteSetTheorems

-----------------------------------------------------------------------------
(* The inductive invariant *)

\* An action is sealed for a checkpoint that is stored and running.
BoundToRunning(a) == a.base < Len(log) /\ log[a.base + 1].status = "running"

\* The checkpoint a process read is stored.
Stored(c) == c.revision < Len(log) /\ log[c.revision + 1] = c

LogOK == \A i \in 1..Len(log) : log[i].revision = i - 1

RowsOK ==
    /\ \A k \in Completed : actions[k].observation # None
    /\ \A j, k \in Started : j = k
    /\ \A k \in ActionKeys : actions[k] # None => Exists
    /\ \A c \in Chains : external[c] # None => Exists

RequestsOK ==
    /\ \A a \in prepared : a.key \in Keys /\ BoundToRunning(a)
    /\ \A q \in Proposals : admissions[q] # None =>
          admissions[q].action.key = q /\ BoundToRunning(admissions[q].action)
    /\ \A v \in views : v.base < Len(log)

LedgerOK == LogOK /\ RowsOK /\ RequestsOK /\ BudgetHonoured

\* A checkpoint computed by start_flow or by a stop.
Moves(c, d) ==
    /\ d.revision = c.revision + 1
    /\ d.used = c.used
    /\ \/ c.status = "planned" /\ d.status \in {"running"} \cup Terminal
       \/ c.status = "running" /\ d.status \in Terminal

Executing == {"replay", "claim", "run", "record", "complete", "receipt"}

\* The action a process works on.
CallOK(p) ==
    /\ call[p] \in Call
    /\ call[p].action \in Action
    /\ BoundToRunning(Act(p))
    /\ \/ pc[p] \in Executing /\ call[p].kind = "recon" /\ Key(p) \in Keys
       \/ pc[p] \in Executing /\ call[p].kind = "replan" /\ Key(p) \in Proposals
          /\ admissions[Key(p)] # None
       \/ pc[p] = "admit" /\ Key(p) \in Proposals

\* What a process knows at each step of its operation.
ProcOK(p) ==
    /\ pc[p] # "idle" => call[p] \in Call
    /\ pc[p] \in Executing \cup {"admit"} => CallOK(p)
    /\ pc[p] = "create" => next[p] = PlannedCheckpoint(call[p].now)
    /\ pc[p] \in {"assert", "insert"} =>
          Exists /\ seen[p] \in Checkpoint /\ next[p] \in Checkpoint /\ Moves(seen[p], next[p])
    /\ pc[p] \in Executing => seen[p] \in Checkpoint
    /\ pc[p] \in {"insert", "complete"} => Stored(seen[p])
    /\ pc[p] \in {"run", "record", "complete"} => Row(p) # None
    /\ pc[p] \in {"record", "complete", "receipt"} => found[p] \in Observation
    /\ pc[p] = "complete" =>
          CanRecord(seen[p], found[p]) /\ next[p] = record_observation(seen[p], found[p])
    /\ pc[p] = "receipt" => call[p].kind = "replan"

Inv == TypeOK /\ LedgerOK /\ \A p \in Procs : ProcOK(p)

-----------------------------------------------------------------------------
(* Values *)

\* A checkpoint made from a checkpoint is one.
LEMMA NextCheckpointType ==
  ASSUME NEW c \in Checkpoint, NEW s \in Statuses, NEW n \in Nat
  PROVE  /\ NextCheckpoint(c, s, n) \in Checkpoint
         /\ NextCheckpoint(c, s, n).revision = c.revision + 1
         /\ NextCheckpoint(c, s, n).status = s
         /\ NextCheckpoint(c, s, n).used = c.used
<1> DEFINE d == NextCheckpoint(c, s, n)
<1>1. d = [c EXCEPT !.revision = c.revision + 1, !.status = s, !.at = n]
  BY DEF NextCheckpoint
<1>2. c.revision + 1 \in Nat BY DEF Checkpoint
<1> HIDE DEF d
<1>3. d \in Checkpoint BY <1>1, <1>2 DEF Checkpoint
<1>4. d.revision = c.revision + 1 /\ d.status = s /\ d.used = c.used
  BY <1>1 DEF Checkpoint
<1> QED BY <1>3, <1>4 DEF d

\* The first checkpoint of a flow.
LEMMA PlannedType ==
  ASSUME NEW n \in Nat
  PROVE  PlannedCheckpoint(n) \in Checkpoint
  BY DEF PlannedCheckpoint, Checkpoint, Statuses

\* Recording an observation yields the next checkpoint, charged by one.
LEMMA RecordType ==
  ASSUME NEW c \in Checkpoint, NEW o \in Observation
  PROVE  /\ record_observation(c, o) \in Checkpoint
         /\ record_observation(c, o).revision = c.revision + 1
         /\ record_observation(c, o).used = c.used + 1
         /\ record_observation(c, o).status \in {"running"} \cup Terminal
<1>1. StatusAfter(c, o) \in {"running"} \cup Terminal BY DEF StatusAfter, Terminal
<1>2. StatusAfter(c, o) \in Statuses BY <1>1 DEF Statuses
<1>3. FailuresAfter(c, o) \in Nat BY DEF FailuresAfter, Checkpoint
<1>4. o.at \in Nat BY DEF Observation
<1>5. NextCheckpoint(c, StatusAfter(c, o), o.at) \in Checkpoint
  BY <1>2, <1>4, NextCheckpointType
<1>6. c.observations \cup {o} \in SUBSET Observation BY DEF Checkpoint
<1>7. c.used + 1 \in Nat BY DEF Checkpoint
<1> DEFINE n == NextCheckpoint(c, StatusAfter(c, o), o.at)
<1>8. n \in Checkpoint /\ n.revision = c.revision + 1 /\ n.status = StatusAfter(c, o)
  BY <1>2, <1>4, NextCheckpointType
<1>9. record_observation(c, o) =
        [n EXCEPT !.used = c.used + 1, !.failures = FailuresAfter(c, o),
                  !.observations = c.observations \cup {o}]
  BY DEF record_observation
<1> HIDE DEF n
<1> QED BY <1>1, <1>3, <1>6, <1>7, <1>8, <1>9 DEF Checkpoint

\* The sets the budget counts are finite.
LEMMA FiniteCounts ==
  /\ IsFiniteSet(Started) /\ IsFiniteSet(ExternalSlots) /\ IsFiniteSet(ReservedReplans)
  /\ Cardinality(Started) \in Nat
  /\ Cardinality(ExternalSlots) \in Nat
  /\ Cardinality(ReservedReplans) \in Nat
<1>1. IsFiniteSet(ActionKeys) BY FlowConstants, FS_Union DEF ActionKeys
<1>2. IsFiniteSet(Started) BY <1>1, FS_Subset DEF Started
<1>3. IsFiniteSet(ReservedReplans) BY FlowConstants, FS_Subset DEF ReservedReplans
<1>4. IsFiniteSet(1..MaxActions) BY FlowConstants, FS_Interval
<1>5. IsFiniteSet(Chains \X (1..MaxActions)) BY <1>4, FlowConstants, FS_Product
<1>6. IsFiniteSet(ExternalSlots) BY <1>5, FS_Subset DEF ExternalSlots
<1> QED BY <1>2, <1>3, <1>6, FS_CardinalityType

\* The latest checkpoint is a checkpoint.
LEMMA LatestType ==
  ASSUME TypeOK, Exists
  PROVE  /\ Len(log) \in Nat \ {0}
         /\ Latest \in Checkpoint
         /\ Latest.used \in Nat
<1>1. log \in Seq(Checkpoint) /\ log # <<>> BY DEF TypeOK, Exists
<1>2. Len(log) \in Nat \ {0} BY <1>1
<1>3. log[Len(log)] \in Checkpoint BY <1>1, <1>2
<1> QED BY <1>2, <1>3 DEF Latest, Checkpoint

-----------------------------------------------------------------------------
(* A process that does not move keeps what it knows while the ledger grows *)

LedgerGrows ==
    /\ Len(log) <= Len(log')
    /\ \A i \in 1..Len(log) : log'[i] = log[i]
    /\ \A k \in ActionKeys : actions[k] # None => actions'[k] # None
    /\ \A q \in Proposals : admissions[q] # None => admissions'[q] # None

Keeps(r) ==
    /\ pc'[r] = pc[r] /\ call'[r] = call[r]
    /\ seen'[r] = seen[r] /\ next'[r] = next[r] /\ found'[r] = found[r]

\* The checkpoint an action is sealed for stays in the ledger.
LEMMA BoundGrows ==
  ASSUME TypeOK, LedgerGrows, NEW a \in Action, BoundToRunning(a), Len(log') \in Nat
  PROVE  BoundToRunning(a)'
<1>1. a.base \in Nat /\ Len(log) \in Nat BY DEF TypeOK, Action
<1>2. a.base + 1 \in 1..Len(log) BY <1>1 DEF BoundToRunning
<1>3. log'[a.base + 1] = log[a.base + 1] BY <1>2 DEF LedgerGrows
<1> QED BY <1>1, <1>3 DEF BoundToRunning, LedgerGrows

\* What another process knows stays true.
LEMMA ProcGrows ==
  ASSUME TypeOK, TypeOK', LedgerGrows, NEW r \in Procs, Keeps(r), ProcOK(r)
  PROVE  ProcOK(r)'
<1>1. Len(log) \in Nat /\ Len(log') \in Nat BY DEF TypeOK
<1>2. Exists => Exists' BY <1>1 DEF Exists, LedgerGrows, TypeOK
<1>3. ASSUME CallOK(r) PROVE CallOK(r)'
  <2>1. BoundToRunning(Act(r))' BY <1>1, <1>3, BoundGrows DEF CallOK, Keeps, Act, BoundToRunning, LedgerGrows, TypeOK, Action
  <2>2. Act(r)' = Act(r) /\ Key(r)' = Key(r) BY DEF Act, Key, Keeps
  <2>3. Key(r) \in Proposals /\ admissions[Key(r)] # None => admissions'[Key(r)] # None
    BY DEF LedgerGrows
  <2> QED BY <1>3, <2>1, <2>2, <2>3 DEF CallOK, Keeps
<1>4. ASSUME seen[r] \in Checkpoint, Stored(seen[r]) PROVE Stored(seen[r])'
  <2>1. seen[r].revision \in Nat BY <1>4 DEF Checkpoint
  <2>2. seen[r].revision + 1 \in 1..Len(log) BY <1>1, <1>4, <2>1 DEF Stored
  <2>3. log'[seen[r].revision + 1] = seen[r] BY <1>4, <2>2 DEF Stored, LedgerGrows
  <2>4. seen[r].revision < Len(log') BY <1>1, <2>1, <2>2 DEF LedgerGrows
  <2>5. seen'[r] = seen[r] BY DEF Keeps
  <2> QED BY <2>3, <2>4, <2>5 DEF Stored
<1>5. ASSUME call[r] \in Call, call[r].action \in Action, Row(r) # None PROVE Row(r)' # None
  <2>1. Key(r) \in ActionKeys /\ Key(r)' = Key(r) BY <1>5 DEF Key, Act, Action, Keeps
  <2> QED BY <1>5, <2>1 DEF Row, LedgerGrows
<1>6. pc[r] \in {"run", "record", "complete"} =>
        call[r] \in Call /\ call[r].action \in Action
  BY DEF ProcOK, CallOK, Executing
<1>7. pc[r] \in {"insert", "complete"} => seen[r] \in Checkpoint BY DEF ProcOK, Executing
<1> QED BY <1>2, <1>3, <1>4, <1>5, <1>6, <1>7 DEF ProcOK, Keeps, Moves, CanRecord

-----------------------------------------------------------------------------
(* The checkpoint log *)

\* A revision that follows a stored checkpoint and is still free is the next
\* one: that checkpoint is the latest.
LEMMA FreeRevisionIsNext ==
  ASSUME TypeOK, LogOK, NEW c \in Checkpoint, NEW d \in Checkpoint,
         Stored(c), d.revision = c.revision + 1, RevisionFree(d)
  PROVE  Exists /\ Latest = c /\ d.revision = Len(log)
<1>1. Len(log) \in Nat /\ c.revision \in Nat BY DEF TypeOK, Checkpoint
<1>2. d.revision >= Len(log)
  <2> SUFFICES ASSUME d.revision < Len(log) PROVE FALSE BY <1>1
  <2>1. PICK i \in 1..Len(log) : i = d.revision + 1 BY <1>1
  <2>2. log[i].revision = i - 1 BY <2>1 DEF LogOK
  <2>3. log[i].revision # d.revision BY <2>1 DEF RevisionFree
  <2> QED BY <1>1, <2>1, <2>2, <2>3
<1>3. c.revision + 1 = Len(log) BY <1>1, <1>2 DEF Stored
<1>4. Exists BY <1>1, <1>3 DEF Exists, TypeOK
<1> QED BY <1>3, <1>4 DEF Stored, Latest

\* Inserting the next revision.
LEMMA InsertGrows ==
  ASSUME TypeOK, LogOK, NEW d \in Checkpoint, d.revision = Len(log),
         InsertCheckpoint(d)
  PROVE  /\ log' \in Seq(Checkpoint)
         /\ Len(log') = Len(log) + 1
         /\ \A i \in 1..Len(log) : log'[i] = log[i]
         /\ LogOK' /\ Exists' /\ Latest' = d
<1>1. log \in Seq(Checkpoint) /\ Len(log) \in Nat BY DEF TypeOK
<1>2. log' = Append(log, d) BY DEF InsertCheckpoint
<1>3. /\ log' \in Seq(Checkpoint) /\ Len(log') = Len(log) + 1
      /\ \A i \in 1..Len(log) : log'[i] = log[i]
      /\ log'[Len(log) + 1] = d
  BY <1>1, <1>2
<1>4. LogOK'
  <2> SUFFICES ASSUME NEW i \in 1..Len(log') PROVE log'[i].revision = i - 1
    BY DEF LogOK
  <2>1. CASE i \in 1..Len(log) BY <1>3, <2>1 DEF LogOK
  <2>2. CASE i = Len(log) + 1 BY <1>1, <1>3, <2>2
  <2> QED BY <1>1, <1>3, <2>1, <2>2
<1>5. Exists' BY <1>1, <1>3 DEF Exists
<1> QED BY <1>3, <1>4, <1>5 DEF Latest

\* The latest checkpoint is where its revision says.
LEMMA LatestRevision ==
  ASSUME TypeOK, LogOK, Exists
  PROVE  /\ Latest.revision = Len(log) - 1
         /\ Latest.revision \in Nat
         /\ Stored(Latest)
<1>1. Len(log) \in Nat \ {0} /\ Latest \in Checkpoint BY LatestType
<1>2. log[Len(log)].revision = Len(log) - 1 BY <1>1 DEF LogOK
<1>3. Latest.revision = Len(log) - 1 BY <1>2 DEF Latest
<1> QED BY <1>1, <1>3 DEF Stored, Latest

\* An action sealed for the latest checkpoint is claimed in a running flow.
LEMMA BoundToLatestRuns ==
  ASSUME TypeOK, LogOK, NEW a \in Action, BoundToRunning(a), Exists => Latest.revision = a.base
  PROVE  Running
<1>1. a.base \in Nat /\ Len(log) \in Nat BY DEF Action, TypeOK
<1>2. Exists BY <1>1 DEF BoundToRunning, Exists
<1>3. Len(log) = a.base + 1 BY <1>1, <1>2, LatestRevision
<1> QED BY <1>2, <1>3 DEF Running, Latest, BoundToRunning

-----------------------------------------------------------------------------
(* Steps of one process *)

LedgerType ==
    /\ log \in Seq(Checkpoint)
    /\ actions \in [ActionKeys -> ActionRow \cup {None}]
    /\ views \in SUBSET ToolView
    /\ admissions \in [Proposals -> Admission \cup {None}]
    /\ external \in [Chains -> Reservation \cup {None}]
    /\ receipts \in [Proposals -> Receipt \cup {None}]
    /\ prepared \in SUBSET Action

LocalType ==
    /\ pc \in [Procs -> PCs]
    /\ call \in [Procs -> Call \cup {None}]
    /\ seen \in [Procs -> Checkpoint \cup {None}]
    /\ next \in [Procs -> Checkpoint \cup {None}]
    /\ found \in [Procs -> Observation \cup {None}]

OtherType ==
    /\ scopeLive \in BOOLEAN /\ clock \in Nat /\ crashes \in Nat
    /\ ran \in [ActionKeys -> Seq(1..MaxAttempts)]

\* The type invariant by parts.
LEMMA TypeParts ==
  /\ TypeOK <=> LedgerType /\ LocalType /\ OtherType
  /\ TypeOK' <=> LedgerType' /\ LocalType' /\ OtherType'
  BY DEF TypeOK, LedgerType, LocalType, OtherType

\* A step of p as far as the other processes can tell.
StepOf(p) ==
    /\ TypeOK' /\ LedgerOK' /\ LedgerGrows
    /\ ProcOK(p)'
    /\ \A r \in Procs \ {p} : Keeps(r)

\* A step of one process that keeps the ledger in order keeps the invariant.
LEMMA StepKeepsInv ==
  ASSUME Inv, NEW p \in Procs, StepOf(p)
  PROVE  Inv'
<1>1. \A r \in Procs : ProcOK(r)'
  <2> SUFFICES ASSUME NEW r \in Procs, r # p PROVE ProcOK(r)' BY DEF StepOf
  <2>1. TypeOK /\ ProcOK(r) BY DEF Inv
  <2>2. TypeOK' /\ LedgerGrows /\ Keeps(r) BY DEF StepOf
  <2> QED BY <2>1, <2>2, ProcGrows
<1> QED BY <1>1 DEF Inv, StepOf

\* A step of no process that keeps the ledger in order keeps the invariant.
LEMMA OutsideKeepsInv ==
  ASSUME Inv, TypeOK', LedgerOK', LedgerGrows, UNCHANGED local
  PROVE  Inv'
<1> SUFFICES ASSUME NEW r \in Procs PROVE ProcOK(r)' BY DEF Inv
<1>1. TypeOK /\ ProcOK(r) BY DEF Inv
<1>2. Keeps(r) BY DEF Keeps, local
<1> QED BY <1>1, <1>2, ProcGrows

\* A step that leaves the rows alone.
LEMMA QuietLedger ==
  ASSUME Inv, UNCHANGED <<ledger, prepared>>
  PROVE  LedgerType' /\ LedgerOK' /\ LedgerGrows
<1>1. LedgerType' BY TypeParts DEF Inv, LedgerType, ledger
<1>2. Len(log) \in Nat BY DEF Inv, TypeOK
<1>3. LedgerGrows BY <1>2 DEF LedgerGrows, ledger
<1>4. LogOK' /\ RowsOK'
  BY DEF Inv, LedgerOK, LogOK, RowsOK, Completed, Started, Exists, ledger
<1>5. RequestsOK' BY DEF Inv, LedgerOK, RequestsOK, BoundToRunning, ledger
<1>6. BudgetHonoured'
  BY DEF Inv, LedgerOK, BudgetHonoured, Exists, Committed, Latest, Started, ExternalSlots, ledger
<1> QED BY <1>1, <1>3, <1>4, <1>5, <1>6 DEF LedgerOK

\* A process that leaves its operation holds nothing.
LEMMA LeaveLocal ==
  ASSUME LocalType, NEW p \in Procs, Leave(p)
  PROVE  /\ LocalType' /\ ProcOK(p)'
         /\ \A r \in Procs \ {p} : Keeps(r)
<1>1. LocalType' BY DEF LocalType, Leave, Read, Plan, Find, PCs
<1>2. pc'[p] = "idle" BY DEF LocalType, Leave
<1>3. ProcOK(p)' BY <1>2 DEF ProcOK, Executing
<1>4. \A r \in Procs \ {p} : Keeps(r)
  BY DEF LocalType, Leave, Read, Plan, Find, Keeps
<1> QED BY <1>1, <1>3, <1>4

\* A refused call changes nothing but its process.
LEMMA RefuseStep ==
  ASSUME Inv, NEW p \in Procs, Refuse(p)
  PROVE  StepOf(p)
<1>1. LocalType /\ OtherType BY TypeParts DEF Inv
<1>2. Leave(p) /\ UNCHANGED <<ledger, prepared, environment, ran>> BY DEF Refuse
<1>3. OtherType' BY <1>1, <1>2 DEF OtherType, environment
<1>4. LedgerType' /\ LedgerOK' /\ LedgerGrows BY <1>2, QuietLedger
<1>5. LocalType' /\ ProcOK(p)' /\ \A r \in Procs \ {p} : Keeps(r) BY <1>1, <1>2, LeaveLocal
<1> QED BY <1>3, <1>4, <1>5, TypeParts DEF StepOf

-----------------------------------------------------------------------------
(* Operations begin *)

\* What a process holds when its operation begins.
LEMMA BeginLocal ==
  ASSUME TypeOK, NEW p \in Procs, NEW kind \in {"start", "stop", "recon", "replan", "admit"},
         NEW step \in PCs, NEW act \in Action \cup {None}, NEW n \in 1..MaxAttempts,
         Begin(p, kind, step, act, n)
  PROVE  /\ pc' \in [Procs -> PCs] /\ pc'[p] = step
         /\ call' \in [Procs -> Call \cup {None}] /\ call'[p] \in Call
         /\ call'[p].kind = kind /\ call'[p].action = act /\ call'[p].now = clock
         /\ \A r \in Procs \ {p} : pc'[r] = pc[r] /\ call'[r] = call[r]
<1>1. pc \in [Procs -> PCs] /\ call \in [Procs -> Call \cup {None}]
      /\ clock \in Nat /\ scopeLive \in BOOLEAN
  BY DEF TypeOK
<1>2. [kind |-> kind, now |-> clock, live |-> scopeLive, action |-> act, attempt |-> n] \in Call
  BY <1>1 DEF Call
<1> QED BY <1>1, <1>2 DEF Begin

\* An operation that begins writes nothing.
LEMMA BeginStep ==
  ASSUME Inv, NEW p \in Procs, NEW kind \in {"start", "stop", "recon", "replan", "admit"},
         NEW step \in PCs, NEW act \in Action \cup {None}, NEW n \in 1..MaxAttempts,
         Begin(p, kind, step, act, n),
         NEW c \in Checkpoint \cup {None}, NEW d \in Checkpoint \cup {None},
         UNCHANGED seen \/ Read(p, c), UNCHANGED next \/ Plan(p, d),
         UNCHANGED <<ledger, prepared, found, environment, ran>>,
         ProcOK(p)'
  PROVE  StepOf(p)
<1>1. TypeOK /\ LocalType /\ OtherType BY TypeParts DEF Inv
<1>2. /\ pc' \in [Procs -> PCs] /\ call' \in [Procs -> Call \cup {None}]
      /\ \A r \in Procs \ {p} : pc'[r] = pc[r] /\ call'[r] = call[r]
  BY <1>1, BeginLocal
<1>3. seen' \in [Procs -> Checkpoint \cup {None}] /\ \A r \in Procs \ {p} : seen'[r] = seen[r]
  BY <1>1 DEF LocalType, Read
<1>4. next' \in [Procs -> Checkpoint \cup {None}] /\ \A r \in Procs \ {p} : next'[r] = next[r]
  BY <1>1 DEF LocalType, Plan
<1>5. LocalType' BY <1>1, <1>2, <1>3, <1>4 DEF LocalType
<1>6. \A r \in Procs \ {p} : Keeps(r) BY <1>2, <1>3, <1>4 DEF Keeps
<1>7. OtherType' BY <1>1 DEF OtherType, environment
<1>8. LedgerType' /\ LedgerOK' /\ LedgerGrows BY QuietLedger
<1> QED BY <1>5, <1>6, <1>7, <1>8, TypeParts DEF StepOf

\* A checkpoint planned from the latest one is a move of the state machine.
LEMMA MoveIsOK ==
  ASSUME NEW c \in Checkpoint, NEW s \in Statuses, NEW n \in Nat,
         \/ c.status = "planned" /\ s \in {"running"} \cup Terminal
         \/ c.status = "running" /\ s \in Terminal
  PROVE  NextCheckpoint(c, s, n) \in Checkpoint /\ Moves(c, NextCheckpoint(c, s, n))
  BY NextCheckpointType DEF Moves

\* start_flow moves a planned checkpoint.
LEMMA StartMoves ==
  ASSUME NEW c \in Checkpoint, c.status = "planned", NEW n \in Nat
  PROVE  start_flow(c, n) \in Checkpoint /\ Moves(c, start_flow(c, n))
<1> DEFINE s == IF n >= Deadline THEN "timed_out" ELSE "running"
<1>1. s \in {"running"} \cup Terminal /\ s \in Statuses BY DEF Terminal, Statuses
<1>2. start_flow(c, n) = NextCheckpoint(c, s, n) BY DEF start_flow
<1> HIDE DEF s
<1> QED BY <1>1, <1>2, MoveIsOK

\* Every stop moves a checkpoint that has not stopped.
LEMMA StopMoves ==
  ASSUME NEW c \in Checkpoint, c.status \notin Terminal, NEW n \in Nat, NEW d \in Stops(c, n)
  PROVE  d \in Checkpoint /\ Moves(c, d)
<1>1. c.status \in {"planned", "running"} BY DEF Checkpoint, Statuses
<1>2. PICK s \in {"cancelled", "killed", "timed_out"} : d = NextCheckpoint(c, s, n)
  BY DEF Stops, cancel_flow, activate_kill_switch, expire_flow
<1>3. s \in Terminal /\ s \in Statuses BY <1>2 DEF Terminal, Statuses
<1> QED BY <1>1, <1>2, <1>3, MoveIsOK

\* create_and_start of a plan that is not stored.
LEMMA BeginCreateStep ==
  ASSUME Inv, NEW p \in Procs, BeginCreate(p)
  PROVE  StepOf(p)
<1>1. TypeOK /\ clock \in Nat /\ next \in [Procs -> Checkpoint \cup {None}] BY DEF Inv, TypeOK
<1>2. PlannedCheckpoint(clock) \in Checkpoint BY <1>1, PlannedType
<1>3. Begin(p, "start", "create", None, 1) /\ Plan(p, PlannedCheckpoint(clock))
      /\ UNCHANGED <<ledger, prepared, seen, found, environment, ran>>
  BY DEF BeginCreate
<1>4. "create" \in PCs /\ 1 \in 1..MaxAttempts BY DEF PCs, MaxAttempts
<1>5. pc'[p] = "create" /\ call'[p] \in Call /\ call'[p].now = clock BY <1>1, <1>3, <1>4, BeginLocal
<1>6. next'[p] = PlannedCheckpoint(clock) BY <1>1, <1>3 DEF Plan
<1>7. ProcOK(p)' BY <1>5, <1>6 DEF ProcOK, Executing, PlannedCheckpoint
<1> QED BY <1>2, <1>3, <1>4, <1>7, BeginStep

\* An operation that will advance the flow from the latest checkpoint.
LEMMA BeginMoveStep ==
  ASSUME Inv, NEW p \in Procs, NEW kind \in {"start", "stop"}, Exists,
         NEW d \in Checkpoint, Moves(Latest, d),
         Begin(p, kind, "assert", None, 1), Read(p, Latest), Plan(p, d),
         UNCHANGED <<ledger, prepared, found, environment, ran>>
  PROVE  StepOf(p)
<1>1. TypeOK /\ seen \in [Procs -> Checkpoint \cup {None}] /\ next \in [Procs -> Checkpoint \cup {None}]
  BY DEF Inv, TypeOK
<1>2. Latest \in Checkpoint BY <1>1, LatestType
<1>3. "assert" \in PCs /\ 1 \in 1..MaxAttempts BY DEF PCs, MaxAttempts
<1>a. kind \in {"start", "stop", "recon", "replan", "admit"} /\ None \in Action \cup {None}
  OBVIOUS
<1>4. pc'[p] = "assert" /\ call'[p] \in Call BY <1>1, <1>3, <1>a, BeginLocal
<1>5. seen'[p] = Latest /\ next'[p] = d BY <1>1 DEF Read, Plan
<1>6. Exists' BY DEF Exists, ledger
<1>7. Moves(seen[p], next[p])' BY <1>5 DEF Moves
<1>8. ProcOK(p)' BY <1>2, <1>4, <1>5, <1>6, <1>7 DEF ProcOK, Executing
<1> QED BY <1>2, <1>3, <1>8, BeginStep

\* create_and_start of a stored plan, and the stops.
LEMMA BeginStartStep ==
  ASSUME Inv, NEW p \in Procs, BeginStart(p)
  PROVE  StepOf(p)
<1>1. TypeOK /\ Exists /\ Latest.status = "planned" /\ clock \in Nat
  BY DEF Inv, TypeOK, BeginStart
<1>2. Latest \in Checkpoint BY <1>1, LatestType
<1>3. start_flow(Latest, clock) \in Checkpoint /\ Moves(Latest, start_flow(Latest, clock))
  BY <1>1, <1>2, StartMoves
<1> QED BY <1>1, <1>3, BeginMoveStep DEF BeginStart

\* cancel, kill and expire.
LEMMA BeginStopStep ==
  ASSUME Inv, NEW p \in Procs, BeginStop(p)
  PROVE  StepOf(p)
<1>1. TypeOK /\ Exists /\ clock \in Nat BY DEF Inv, TypeOK, BeginStop
<1>2. Latest \in Checkpoint BY <1>1, LatestType
<1>3. Latest.status \notin Terminal BY <1>1 DEF BeginStop, Stopped
<1>4. PICK d \in Stops(Latest, clock) : Plan(p, d) BY DEF BeginStop
<1>5. d \in Checkpoint /\ Moves(Latest, d) BY <1>1, <1>2, <1>3, <1>4, StopMoves
<1> QED BY <1>1, <1>4, <1>5, BeginMoveStep DEF BeginStop

\* execute_recon with a sealed operator action.
LEMMA BeginReconStep ==
  ASSUME Inv, NEW p \in Procs, NEW a \in prepared, NEW n \in 1..MaxAttempts, BeginRecon(p, a, n)
  PROVE  StepOf(p)
<1>1. TypeOK /\ a \in Action /\ seen \in [Procs -> Checkpoint \cup {None}] BY DEF Inv, TypeOK
<1>2. a.key \in Keys /\ BoundToRunning(a) BY DEF Inv, LedgerOK, RequestsOK
<1>3. Exists BY <1>1, <1>2 DEF BoundToRunning, Exists, Action
<1>4. Latest \in Checkpoint BY <1>1, <1>3, LatestType
<1>5. /\ Begin(p, "recon", "replay", a, n) /\ Read(p, Latest)
      /\ UNCHANGED <<ledger, prepared, next, found, environment, ran>>
  BY DEF BeginRecon
<1>6. "replay" \in PCs /\ a \in Action \cup {None} BY <1>1 DEF PCs
<1>7. pc'[p] = "replay" /\ call'[p] \in Call /\ call'[p].kind = "recon" /\ call'[p].action = a
  BY <1>1, <1>5, <1>6, BeginLocal
<1>8. seen'[p] = Latest BY <1>1, <1>5 DEF Read
<1>9. BoundToRunning(a)' BY <1>2, <1>5 DEF BoundToRunning, ledger
<1>10. CallOK(p)'
  BY <1>1, <1>2, <1>7, <1>9 DEF CallOK, Act, Key, Executing, BoundToRunning
<1>11. ProcOK(p)' BY <1>4, <1>7, <1>8, <1>10 DEF ProcOK, Executing
<1> QED BY <1>4, <1>5, <1>6, <1>11, BeginStep

\* RedTeamReplanningService.execute of an admitted proposal.
LEMMA BeginReplanStep ==
  ASSUME Inv, NEW p \in Procs, NEW q \in Proposals, NEW n \in 1..MaxAttempts,
         BeginReplan(p, q, n)
  PROVE  StepOf(p)
<1> DEFINE a == admissions[q].action
<1>1. TypeOK /\ seen \in [Procs -> Checkpoint \cup {None}]
      /\ admissions \in [Proposals -> Admission \cup {None}]
  BY DEF Inv, TypeOK
<1>2. admissions[q] # None BY DEF BeginReplan
<1>3. admissions[q] \in Admission BY <1>1, <1>2
<1>4. a \in Action BY <1>3 DEF Admission
<1>5. a.key = q /\ BoundToRunning(a) BY <1>2 DEF Inv, LedgerOK, RequestsOK
<1>6. /\ Begin(p, "replan", "replay", a, n) /\ Read(p, Latest)
      /\ UNCHANGED <<ledger, prepared, next, found, environment, ran>>
  BY DEF BeginReplan
<1> HIDE DEF a
<1>7. Exists BY <1>1, <1>4, <1>5 DEF BoundToRunning, Exists, Action
<1>8. Latest \in Checkpoint BY <1>1, <1>7, LatestType
<1>9. "replay" \in PCs /\ a \in Action \cup {None} BY <1>4 DEF PCs
<1>10. pc'[p] = "replay" /\ call'[p] \in Call /\ call'[p].kind = "replan" /\ call'[p].action = a
  BY <1>1, <1>6, <1>9, BeginLocal
<1>11. seen'[p] = Latest BY <1>1, <1>6 DEF Read
<1>12. BoundToRunning(call[p].action)' BY <1>5, <1>6, <1>10 DEF BoundToRunning, ledger
<1>13. admissions' = admissions BY <1>6 DEF ledger
<1>14. CallOK(p)'
  BY <1>2, <1>4, <1>5, <1>10, <1>12, <1>13 DEF CallOK, Act, Key, Executing
<1>15. ProcOK(p)' BY <1>8, <1>10, <1>11, <1>14 DEF ProcOK, Executing
<1> QED BY <1>6, <1>8, <1>9, <1>15, BeginStep

\* The action sealed for a tool view of the latest checkpoint.
LEMMA BeginAdmitStep ==
  ASSUME Inv, NEW p \in Procs, NEW q \in Proposals, NEW v \in views, BeginAdmit(p, q, v)
  PROVE  StepOf(p)
<1> DEFINE a == [key |-> q, base |-> v.base, created |-> clock,
                 deadline |-> EarlierOf(clock + Ttl, v.expires)]
<1>1. TypeOK /\ clock \in Nat /\ v \in ToolView BY DEF Inv, TypeOK
<1>2. a \in Action
  <2>1. v.base \in Nat /\ v.expires \in Nat BY <1>1 DEF ToolView
  <2>2. EarlierOf(clock + Ttl, v.expires) \in Nat BY <1>1, <2>1, FlowConstants DEF EarlierOf
  <2> QED BY <1>1, <2>1, <2>2 DEF Action, ActionKeys
<1>3. Running /\ v.base = Latest.revision BY DEF BeginAdmit
<1>4. LogOK /\ Exists BY <1>3 DEF Inv, LedgerOK, Running
<1>5. Latest.revision = Len(log) - 1 /\ Len(log) \in Nat \ {0}
  BY <1>1, <1>4, LatestRevision, LatestType
<1>6. a.key = q /\ a.base = Len(log) - 1 BY <1>3, <1>5
<1>7. /\ Begin(p, "admit", "admit", a, 1)
      /\ UNCHANGED <<ledger, prepared, seen, next, found, environment, ran>>
  BY DEF BeginAdmit
<1> HIDE DEF a
<1>8. BoundToRunning(a) BY <1>3, <1>5, <1>6 DEF BoundToRunning, Running, Latest
<1>9. "admit" \in PCs /\ a \in Action \cup {None} /\ 1 \in 1..MaxAttempts
  BY <1>2 DEF PCs, MaxAttempts
<1>10. pc'[p] = "admit" /\ call'[p] \in Call /\ call'[p].action = a
  BY <1>1, <1>7, <1>9, BeginLocal
<1>11. BoundToRunning(call[p].action)' BY <1>7, <1>8, <1>10 DEF BoundToRunning, ledger
<1>12. CallOK(p)' BY <1>2, <1>6, <1>10, <1>11 DEF CallOK, Act, Key
<1>13. ProcOK(p)' BY <1>10, <1>12 DEF ProcOK, Executing
<1>14. UNCHANGED seen /\ UNCHANGED next BY <1>7
<1> QED BY <1>7, <1>9, <1>13, <1>14, BeginStep

-----------------------------------------------------------------------------
(* Operations go on *)

\* A process that goes on keeps the action it works on.
LEMMA CallGoesOn ==
  ASSUME TypeOK, Len(log') \in Nat, LedgerGrows, NEW p \in Procs, CallOK(p),
         pc[p] \in Executing, pc'[p] \in Executing, call'[p] = call[p]
  PROVE  CallOK(p)'
<1>1. call[p].action \in Action /\ BoundToRunning(call[p].action) BY DEF CallOK, Act
<1>2. BoundToRunning(call[p].action)'
  <2>1. ASSUME NEW a \in Action, BoundToRunning(a) PROVE BoundToRunning(a)' BY <2>1, BoundGrows
  <2> QED BY <1>1, <2>1 DEF BoundToRunning
<1>3. Act(p)' = Act(p) /\ Key(p)' = Key(p) BY DEF Act, Key
<1>4. Key(p) \in Proposals /\ admissions[Key(p)] # None => admissions'[Key(p)] # None
  BY DEF LedgerGrows
<1>5. pc[p] # "admit" BY DEF Executing
<1> QED BY <1>1, <1>2, <1>3, <1>4, <1>5 DEF CallOK, Act

\* A step of one process that leaves the ledger alone.
LEMMA QuietStep ==
  ASSUME Inv, NEW p \in Procs, UNCHANGED <<ledger, prepared>>, LocalType', OtherType', ProcOK(p)',
         \A r \in Procs \ {p} : Keeps(r)
  PROVE  StepOf(p)
  BY QuietLedger, TypeParts DEF StepOf

\* A process goes to its next step.
LEMMA GotoLocal ==
  ASSUME LocalType, NEW p \in Procs, NEW step \in PCs, Goto(p, step),
         NEW c \in Checkpoint \cup {None}, NEW d \in Checkpoint \cup {None},
         NEW o \in Observation \cup {None},
         UNCHANGED seen \/ Read(p, c), UNCHANGED next \/ Plan(p, d), UNCHANGED found \/ Find(p, o)
  PROVE  /\ LocalType' /\ pc'[p] = step /\ call'[p] = call[p]
         /\ \A r \in Procs \ {p} : Keeps(r)
<1>1. pc' \in [Procs -> PCs] /\ pc'[p] = step /\ call' = call
      /\ \A r \in Procs \ {p} : pc'[r] = pc[r]
  BY DEF LocalType, Goto
<1>2. seen' \in [Procs -> Checkpoint \cup {None}] /\ \A r \in Procs \ {p} : seen'[r] = seen[r]
  BY DEF LocalType, Read
<1>3. next' \in [Procs -> Checkpoint \cup {None}] /\ \A r \in Procs \ {p} : next'[r] = next[r]
  BY DEF LocalType, Plan
<1>4. found' \in [Procs -> Observation \cup {None}] /\ \A r \in Procs \ {p} : found'[r] = found[r]
  BY DEF LocalType, Find
<1>5. LocalType' BY <1>1, <1>2, <1>3, <1>4 DEF LocalType
<1> QED BY <1>1, <1>2, <1>3, <1>4, <1>5 DEF Keeps

\* An execution returns to its caller or goes on to the receipt.
LEMMA ReturnLocal ==
  ASSUME TypeOK, Len(log') \in Nat, LedgerGrows, NEW p \in Procs, ProcOK(p), pc[p] \in Executing,
         NEW c \in Checkpoint, NEW o \in Observation, Return(p, c, o)
  PROVE  LocalType' /\ ProcOK(p)' /\ \A r \in Procs \ {p} : Keeps(r)
<1>1. LocalType BY TypeParts
<1>2. CASE call[p].kind = "replan" /\ o.cleanup
  <2>1. Goto(p, "receipt") /\ Read(p, c) /\ Find(p, o) /\ Plan(p, None) BY <1>2 DEF Return
  <2>2. "receipt" \in PCs /\ c \in Checkpoint \cup {None} /\ o \in Observation \cup {None}
        /\ None \in Checkpoint \cup {None}
    BY DEF PCs
  <2>3. LocalType' /\ pc'[p] = "receipt" /\ call'[p] = call[p] /\ \A r \in Procs \ {p} : Keeps(r)
    BY <1>1, <2>1, <2>2, GotoLocal
  <2>4. seen'[p] = c /\ found'[p] = o BY <1>1, <2>1 DEF LocalType, Read, Find
  <2>5. CallOK(p) BY DEF ProcOK
  <2>6. CallOK(p)' BY <2>3, <2>5, CallGoesOn DEF Executing
  <2>7. call'[p] \in Call BY <2>3, <2>5 DEF CallOK
  <2>8. ProcOK(p)' BY <1>2, <2>3, <2>4, <2>6, <2>7 DEF ProcOK, Executing
  <2> QED BY <2>3, <2>8
<1>3. CASE ~ (call[p].kind = "replan" /\ o.cleanup)
  BY <1>1, <1>3, LeaveLocal DEF Return
<1> QED BY <1>2, <1>3

\* Nothing in the ledger changes.
LEMMA LedgerGrowsQuiet ==
  ASSUME Inv, UNCHANGED <<ledger, prepared>>
  PROVE  LedgerGrows /\ Len(log') \in Nat
  BY QuietLedger DEF LedgerType

\* _assert_latest of advance.
LEMMA AssertLatestStep ==
  ASSUME Inv, NEW p \in Procs, AssertLatest(p)
  PROVE  StepOf(p)
<1>1. TypeOK /\ LocalType /\ OtherType /\ ProcOK(p) /\ LogOK BY TypeParts DEF Inv, LedgerOK
<1>2. pc[p] = "assert" BY DEF AssertLatest
<1>3. Exists /\ seen[p] \in Checkpoint /\ next[p] \in Checkpoint /\ Moves(seen[p], next[p])
      /\ call[p] \in Call
  BY <1>1, <1>2 DEF ProcOK
<1>4. CASE Latest = seen[p]
  <2>1. Goto(p, "insert") /\ UNCHANGED <<ledger, prepared, seen, next, found, environment, ran>>
    BY <1>4 DEF AssertLatest
  <2>2. "insert" \in PCs /\ None \in Checkpoint \cup {None} /\ None \in Observation \cup {None}
    BY DEF PCs
  <2>3. UNCHANGED seen /\ UNCHANGED next /\ UNCHANGED found BY <2>1
  <2>4. LocalType' /\ pc'[p] = "insert" /\ call'[p] = call[p] /\ \A r \in Procs \ {p} : Keeps(r)
    BY <1>1, <2>1, <2>2, <2>3, GotoLocal
  <2>5. Stored(seen[p]) BY <1>1, <1>3, <1>4, LatestRevision
  <2>6. Stored(seen[p])' /\ Exists' /\ Moves(seen[p], next[p])'
    BY <1>3, <2>1, <2>5 DEF Stored, Exists, Moves, ledger
  <2>7. ProcOK(p)' BY <1>3, <2>3, <2>4, <2>6 DEF ProcOK, Executing
  <2>8. OtherType' BY <1>1, <2>1 DEF OtherType, environment
  <2> QED BY <2>1, <2>4, <2>7, <2>8, QuietStep
<1>5. CASE Latest # seen[p] BY <1>5, RefuseStep DEF AssertLatest
<1> QED BY <1>4, <1>5

\* The replay of a completed action, or the preflight of an execution.
LEMMA ReplayStep ==
  ASSUME Inv, NEW p \in Procs, Replay(p)
  PROVE  StepOf(p)
<1>1. TypeOK /\ LocalType /\ OtherType /\ ProcOK(p) BY TypeParts DEF Inv
<1>2. pc[p] = "replay" /\ UNCHANGED <<ledger, prepared, environment, ran>> BY DEF Replay
<1>3. pc[p] \in Executing /\ CallOK(p) /\ call[p] \in Call /\ seen[p] \in Checkpoint
  BY <1>1, <1>2 DEF ProcOK, Executing
<1>4. OtherType' BY <1>1, <1>2 DEF OtherType, environment
<1>5. LedgerGrows /\ Len(log') \in Nat BY <1>2, LedgerGrowsQuiet
<1>6. CASE Row(p) # None /\ Row(p).state = "completed" /\ Return(p, seen[p], Row(p).observation)
  <2>1. Key(p) \in ActionKeys BY <1>3 DEF CallOK, Key, Act, Action
  <2>2. Row(p) \in ActionRow BY <1>1, <1>6, <2>1 DEF TypeOK, Row
  <2>3. Key(p) \in Completed BY <1>6, <2>1 DEF Completed, Row
  <2>4. Row(p).observation # None BY <2>3 DEF Inv, LedgerOK, RowsOK, Row
  <2>5. Row(p).observation \in Observation BY <2>2, <2>4 DEF ActionRow
  <2>6. LocalType' /\ ProcOK(p)' /\ \A r \in Procs \ {p} : Keeps(r)
    BY <1>1, <1>3, <1>5, <1>6, <2>5, ReturnLocal
  <2> QED BY <1>2, <1>4, <2>6, QuietStep
<1>7. CASE Goto(p, "claim") /\ UNCHANGED <<seen, next, found>>
  <2>1. "claim" \in PCs /\ None \in Checkpoint \cup {None} /\ None \in Observation \cup {None}
    BY DEF PCs
  <2>2. UNCHANGED seen /\ UNCHANGED next /\ UNCHANGED found BY <1>7
  <2>3. LocalType' /\ pc'[p] = "claim" /\ call'[p] = call[p] /\ \A r \in Procs \ {p} : Keeps(r)
    BY <1>1, <1>7, <2>1, <2>2, GotoLocal
  <2>4. CallOK(p)' BY <1>1, <1>3, <1>5, <2>3, CallGoesOn DEF Executing
  <2>5. ProcOK(p)' BY <1>3, <2>2, <2>3, <2>4 DEF ProcOK, Executing
  <2> QED BY <1>2, <1>4, <2>3, <2>5, QuietStep
<1>8. CASE Leave(p)
  <2>1. LocalType' /\ ProcOK(p)' /\ \A r \in Procs \ {p} : Keeps(r) BY <1>1, <1>8, LeaveLocal
  <2> QED BY <1>2, <1>4, <2>1, QuietStep
<1> QED BY <1>6, <1>7, <1>8 DEF Replay

\* The history of adapter calls.
LEMMA CalledType ==
  ASSUME TypeOK, NEW p \in Procs, CallOK(p), Called(p)
  PROVE  ran' \in [ActionKeys -> Seq(1..MaxAttempts)]
<1>1. Key(p) \in ActionKeys /\ call[p].attempt \in 1..MaxAttempts
  BY DEF CallOK, Key, Act, Action, Call
<1>2. ran \in [ActionKeys -> Seq(1..MaxAttempts)] BY DEF TypeOK
<1>3. Append(ran[Key(p)], call[p].attempt) \in Seq(1..MaxAttempts) BY <1>1, <1>2
<1> QED BY <1>1, <1>2, <1>3 DEF Called

\* The adapter's observation, or the one made for it after the last attempt.
LEMMA ObservedStep ==
  ASSUME Inv, NEW p \in Procs, pc[p] = "run", Called(p), NEW o \in Observation, Find(p, o),
         Goto(p, "record"), UNCHANGED <<ledger, prepared, seen, next, environment>>
  PROVE  StepOf(p)
<1>1. TypeOK /\ LocalType /\ OtherType /\ ProcOK(p) BY TypeParts DEF Inv
<1>2. pc[p] \in Executing /\ CallOK(p) /\ call[p] \in Call /\ seen[p] \in Checkpoint /\ Row(p) # None
  BY <1>1 DEF ProcOK, Executing
<1>3. OtherType' BY <1>1, <1>2, CalledType DEF OtherType, environment
<1>4. LedgerGrows /\ Len(log') \in Nat BY LedgerGrowsQuiet
<1>5. "record" \in PCs /\ None \in Checkpoint \cup {None} /\ o \in Observation \cup {None}
  BY DEF PCs
<1>6. UNCHANGED seen /\ UNCHANGED next OBVIOUS
<1>7. LocalType' /\ pc'[p] = "record" /\ call'[p] = call[p] /\ \A r \in Procs \ {p} : Keeps(r)
  BY <1>1, <1>5, <1>6, GotoLocal
<1>8. found'[p] = o BY <1>1 DEF LocalType, Find
<1>9. CallOK(p)' BY <1>1, <1>2, <1>4, <1>7, CallGoesOn DEF Executing
<1>10. Row(p)' # None BY <1>2, <1>7 DEF Row, Key, Act, ledger
<1>11. ProcOK(p)' BY <1>2, <1>6, <1>7, <1>8, <1>9, <1>10 DEF ProcOK, Executing
<1> QED BY <1>3, <1>7, <1>11, QuietStep

\* The adapter call in its three outcomes.
LEMMA AdapterStep ==
  ASSUME Inv, NEW p \in Procs, AdapterReturns(p) \/ AdapterFails(p) \/ AdapterExhausted(p)
  PROVE  StepOf(p)
<1>1. TypeOK /\ LocalType /\ OtherType /\ ProcOK(p) BY TypeParts DEF Inv
<1>2. pc[p] = "run" BY DEF AdapterReturns, AdapterFails, AdapterExhausted
<1>3. CallOK(p) BY <1>1, <1>2 DEF ProcOK, Executing
<1>4. Key(p) \in ActionKeys /\ call[p].now \in Nat /\ clock \in Nat
  BY <1>1, <1>3 DEF CallOK, Key, Act, Action, Call, TypeOK
<1>5. CASE AdapterReturns(p)
  <2>1. PICK outcome \in Outcomes, cleanup \in Cleanups, at \in {call[p].now, clock} :
          /\ outcome = "succeeded" => cleanup
          /\ Find(p, [key |-> Key(p), outcome |-> outcome, cleanup |-> cleanup, at |-> at])
    BY <1>5 DEF AdapterReturns
  <2>2. outcome \in {"succeeded", "timed_out", "failed"} /\ cleanup \in BOOLEAN /\ at \in Nat
    BY <1>4, FlowConstants
  <2>3. [key |-> Key(p), outcome |-> outcome, cleanup |-> cleanup, at |-> at] \in Observation
    BY <1>4, <2>1, <2>2 DEF Observation
  <2> QED BY <1>2, <1>5, <2>1, <2>3, ObservedStep DEF AdapterReturns
<1>6. CASE AdapterExhausted(p)
  <2>1. [key |-> Key(p), outcome |-> "failed", cleanup |-> FALSE, at |-> call[p].now] \in Observation
    BY <1>4 DEF Observation
  <2> QED BY <1>2, <1>6, <2>1, ObservedStep DEF AdapterExhausted
<1>7. CASE AdapterFails(p)
  <2>1. Leave(p) /\ Called(p) /\ UNCHANGED <<ledger, prepared, environment>>
    BY <1>7 DEF AdapterFails
  <2>2. OtherType' BY <1>1, <1>3, <2>1, CalledType DEF OtherType, environment
  <2>3. LocalType' /\ ProcOK(p)' /\ \A r \in Procs \ {p} : Keeps(r) BY <1>1, <2>1, LeaveLocal
  <2> QED BY <2>1, <2>2, <2>3, QuietStep
<1> QED BY <1>5, <1>6, <1>7

\* record_observation and the stale check of complete_action.
LEMMA RecordStep ==
  ASSUME Inv, NEW p \in Procs, Record(p)
  PROVE  StepOf(p)
<1>1. TypeOK /\ LocalType /\ OtherType /\ ProcOK(p) /\ LogOK BY TypeParts DEF Inv, LedgerOK
<1>2. pc[p] = "record" BY DEF Record
<1>3. /\ pc[p] \in Executing /\ CallOK(p) /\ call[p] \in Call /\ seen[p] \in Checkpoint
      /\ Row(p) # None /\ found[p] \in Observation
  BY <1>1, <1>2 DEF ProcOK, Executing
<1>4. CASE CanRecord(seen[p], found[p]) /\ Latest = seen[p]
  <2> DEFINE d == record_observation(seen[p], found[p])
  <2>1. /\ Plan(p, d) /\ Goto(p, "complete")
        /\ UNCHANGED <<ledger, prepared, seen, found, environment, ran>>
    BY <1>4 DEF Record
  <2>2. d \in Checkpoint BY <1>3, RecordType
  <2> HIDE DEF d
  <2>3. "complete" \in PCs /\ d \in Checkpoint \cup {None} /\ None \in Observation \cup {None}
    BY <2>2 DEF PCs
  <2>4. UNCHANGED seen /\ UNCHANGED found BY <2>1
  <2>5. LocalType' /\ pc'[p] = "complete" /\ call'[p] = call[p] /\ \A r \in Procs \ {p} : Keeps(r)
    BY <1>1, <2>1, <2>3, <2>4, GotoLocal
  <2>6. next'[p] = d BY <1>1, <2>1 DEF LocalType, Plan
  <2>7. LedgerGrows /\ Len(log') \in Nat BY <2>1, LedgerGrowsQuiet
  <2>8. CallOK(p)' BY <1>1, <1>3, <2>5, <2>7, CallGoesOn DEF Executing
  <2>9. Row(p)' # None BY <1>3, <2>1, <2>5 DEF Row, Key, Act, ledger
  <2>10. Exists BY <1>1, <1>3 DEF CallOK, BoundToRunning, Exists, Action, Act
  <2>11. Stored(seen[p]) BY <1>1, <1>4, <2>10, LatestRevision
  <2>12. Stored(seen[p])' BY <2>1, <2>11 DEF Stored, ledger
  <2>13. /\ CanRecord(seen[p], found[p])'
         /\ next'[p] = record_observation(seen[p], found[p])'
    BY <1>4, <2>4, <2>6 DEF d, CanRecord, record_observation, NextCheckpoint, StatusAfter, FailuresAfter
  <2>14. ProcOK(p)'
    BY <1>3, <2>4, <2>5, <2>8, <2>9, <2>12, <2>13 DEF ProcOK, Executing
  <2>15. OtherType' BY <1>1, <2>1 DEF OtherType, environment
  <2> QED BY <2>1, <2>5, <2>14, <2>15, QuietStep
<1>5. CASE ~ (CanRecord(seen[p], found[p]) /\ Latest = seen[p])
  BY <1>5, RefuseStep DEF Record
<1> QED BY <1>4, <1>5

\* A process dies.
LEMMA CrashStep ==
  ASSUME Inv, NEW p \in Procs, Crash(p)
  PROVE  StepOf(p)
<1>1. LocalType /\ OtherType BY TypeParts DEF Inv
<1>2. Leave(p) /\ crashes' = crashes + 1 /\ UNCHANGED <<ledger, prepared, scopeLive, clock, ran>>
  BY DEF Crash
<1>3. OtherType' BY <1>1, <1>2 DEF OtherType
<1>4. LocalType' /\ ProcOK(p)' /\ \A r \in Procs \ {p} : Keeps(r) BY <1>1, <1>2, LeaveLocal
<1> QED BY <1>2, <1>3, <1>4, QuietStep

-----------------------------------------------------------------------------
(* Operations write to the ledger *)

\* What is sealed for a stored checkpoint stays so while the ledger grows.
LEMMA RequestsGrow ==
  ASSUME Inv, LedgerType', LedgerGrows, UNCHANGED <<prepared, admissions, views>>
  PROVE  RequestsOK'
<1>1. TypeOK /\ RequestsOK /\ Len(log) \in Nat BY DEF Inv, LedgerOK, TypeOK
<1>2. Len(log') \in Nat BY DEF LedgerType
<1>3. ASSUME NEW a \in Action, BoundToRunning(a) PROVE BoundToRunning(a)'
  BY <1>1, <1>2, <1>3, BoundGrows
<1>4. \A a \in prepared' : a.key \in Keys /\ BoundToRunning(a)'
  BY <1>1, <1>3 DEF RequestsOK, TypeOK
<1>5. ASSUME NEW q \in Proposals, admissions'[q] # None
      PROVE  admissions'[q].action.key = q /\ BoundToRunning(admissions[q].action)'
  <2>1. admissions[q] # None BY <1>5
  <2>2. admissions[q] \in Admission BY <1>1, <2>1 DEF TypeOK
  <2>3. admissions[q].action \in Action BY <2>2 DEF Admission
  <2>4. BoundToRunning(admissions[q].action) /\ admissions[q].action.key = q
    BY <1>1, <2>1 DEF RequestsOK
  <2>5. BoundToRunning(admissions[q].action)' BY <1>3, <2>3, <2>4 DEF BoundToRunning
  <2> QED BY <2>4, <2>5
<1>6. \A v \in views' : v.base < Len(log')
  <2> SUFFICES ASSUME NEW v \in views PROVE v.base < Len(log') OBVIOUS
  <2>1. v.base \in Nat /\ v.base < Len(log) BY <1>1 DEF RequestsOK, TypeOK, ToolView
  <2> QED BY <1>1, <1>2, <2>1 DEF LedgerGrows
<1> QED BY <1>4, <1>5, <1>6 DEF RequestsOK

\* A checkpoint is inserted and no row changes.
LEMMA InsertOnlyLedger ==
  ASSUME Inv, NEW d \in Checkpoint, d.revision = Len(log), InsertCheckpoint(d),
         UNCHANGED <<actions, views, admissions, external, receipts, prepared>>,
         Exists => d.used = Latest.used, ~ Exists => d.used = 0
  PROVE  LedgerType' /\ LedgerGrows /\ LedgerOK' /\ Latest' = d
<1>1. TypeOK /\ LogOK /\ RowsOK /\ BudgetHonoured /\ LedgerType
  BY TypeParts DEF Inv, LedgerOK
<1>2. /\ log' \in Seq(Checkpoint) /\ Len(log') = Len(log) + 1
      /\ \A i \in 1..Len(log) : log'[i] = log[i]
      /\ LogOK' /\ Exists' /\ Latest' = d
  BY <1>1, InsertGrows
<1>3. LedgerType' BY <1>1, <1>2 DEF LedgerType
<1>4. Len(log) \in Nat BY <1>1 DEF TypeOK
<1>5. LedgerGrows BY <1>2, <1>4 DEF LedgerGrows
<1>6. RowsOK' BY <1>1, <1>2 DEF RowsOK, Completed, Started
<1>7. RequestsOK' BY <1>3, <1>5, RequestsGrow
<1>8. Started' = Started /\ ExternalSlots' = ExternalSlots BY DEF Started, ExternalSlots
<1>9. BudgetHonoured'
  <2>1. Committed' = d.used + Cardinality(Started) + Cardinality(ExternalSlots)
    BY <1>2, <1>8 DEF Committed
  <2>2. CASE Exists
    BY <1>1, <2>1, <2>2 DEF BudgetHonoured, Committed
  <2>3. CASE ~ Exists
    <3>1. Started = {} /\ ExternalSlots = {}
      BY <1>1, <2>3 DEF RowsOK, Started, ExternalSlots
    <3>2. Committed' = 0 BY <2>1, <2>3, <3>1, FS_EmptySet
    <3> QED BY <3>2, FlowConstants DEF BudgetHonoured
  <2> QED BY <2>2, <2>3
<1> QED BY <1>2, <1>3, <1>5, <1>6, <1>7, <1>9 DEF LedgerOK

\* RedTeamStore.create.
LEMMA CreateStep ==
  ASSUME Inv, NEW p \in Procs, Create(p)
  PROVE  StepOf(p)
<1>1. TypeOK /\ LocalType /\ OtherType /\ ProcOK(p) BY TypeParts DEF Inv
<1> DEFINE c == next[p]
<1> DEFINE d == start_flow(next[p], call[p].now)
<1>2. /\ pc[p] = "create" /\ Goto(p, "assert") /\ Read(p, c) /\ Plan(p, d)
      /\ log' = (IF Exists THEN log ELSE <<c>>)
      /\ UNCHANGED <<actions, views, admissions, external, receipts, prepared, found,
                     environment, ran>>
  BY DEF Create
<1>3. call[p] \in Call /\ call[p].now \in Nat /\ c = PlannedCheckpoint(call[p].now)
  BY <1>1, <1>2 DEF ProcOK, Call
<1>4. c \in Checkpoint BY <1>3, PlannedType
<1>5. c.status = "planned" /\ c.revision = 0 /\ c.used = 0 BY <1>3 DEF PlannedCheckpoint
<1>6. d \in Checkpoint /\ Moves(c, d) BY <1>3, <1>4, <1>5, StartMoves
<1> HIDE DEF c, d
<1>7. "assert" \in PCs /\ c \in Checkpoint \cup {None} /\ d \in Checkpoint \cup {None}
      /\ None \in Observation \cup {None}
  BY <1>4, <1>6 DEF PCs
<1>8. LocalType' /\ pc'[p] = "assert" /\ call'[p] = call[p] /\ \A r \in Procs \ {p} : Keeps(r)
  BY <1>1, <1>2, <1>7, GotoLocal
<1>9. seen'[p] = c /\ next'[p] = d BY <1>1, <1>2 DEF LocalType, Read, Plan
<1>10. Moves(seen[p], next[p])' BY <1>6, <1>9 DEF Moves
<1>11. OtherType' BY <1>1, <1>2 DEF OtherType, environment
<1>12. LedgerType' /\ LedgerGrows /\ LedgerOK' /\ Exists'
  <2>1. CASE Exists
    <3>1. UNCHANGED <<ledger, prepared>> BY <1>2, <2>1 DEF ledger
    <3>2. Exists' BY <2>1, <3>1 DEF Exists, ledger
    <3> QED BY <3>1, <3>2, QuietLedger
  <2>2. CASE ~ Exists
    <3>1. Len(log) = 0 /\ log' = Append(log, c) BY <1>2, <2>2 DEF Exists
    <3>2. InsertCheckpoint(c) BY <3>1 DEF InsertCheckpoint
    <3>3. Exists' BY <1>2, <2>2 DEF Exists
    <3> QED BY <1>2, <1>4, <1>5, <2>2, <3>1, <3>2, <3>3, InsertOnlyLedger
  <2> QED BY <2>1, <2>2
<1>13. ProcOK(p)' BY <1>3, <1>4, <1>6, <1>8, <1>9, <1>10, <1>12 DEF ProcOK, Executing
<1> QED BY <1>8, <1>11, <1>12, <1>13, TypeParts DEF StepOf

\* What advance inserts follows the latest checkpoint.
LEMMA InsertEffect ==
  ASSUME Inv, NEW p \in Procs, pc[p] = "insert", RevisionFree(next[p])
  PROVE  /\ Exists /\ Latest = seen[p] /\ next[p] \in Checkpoint
         /\ Moves(Latest, next[p]) /\ next[p].revision = Len(log)
<1>1. TypeOK /\ LogOK /\ ProcOK(p) BY DEF Inv, LedgerOK
<1>2. /\ seen[p] \in Checkpoint /\ next[p] \in Checkpoint
      /\ Moves(seen[p], next[p]) /\ Stored(seen[p])
  BY <1>1 DEF ProcOK
<1>3. next[p].revision = seen[p].revision + 1 BY <1>2 DEF Moves
<1>4. Exists /\ Latest = seen[p] /\ next[p].revision = Len(log)
  BY <1>1, <1>2, <1>3, FreeRevisionIsNext
<1> QED BY <1>2, <1>4

\* _insert_checkpoint of advance.
LEMMA InsertStep ==
  ASSUME Inv, NEW p \in Procs, Insert(p)
  PROVE  StepOf(p)
<1>1. CASE RevisionFree(next[p])
  <2>1. pc[p] = "insert" /\ InsertCheckpoint(next[p]) /\ Leave(p)
        /\ UNCHANGED <<actions, views, admissions, external, receipts, prepared, environment, ran>>
    BY <1>1 DEF Insert
  <2>2. /\ Exists /\ next[p] \in Checkpoint /\ Moves(Latest, next[p])
        /\ next[p].revision = Len(log)
    BY <1>1, <2>1, InsertEffect
  <2>3. next[p].used = Latest.used BY <2>2 DEF Moves
  <2>4. LedgerType' /\ LedgerGrows /\ LedgerOK' BY <2>1, <2>2, <2>3, InsertOnlyLedger
  <2>5. LocalType /\ OtherType BY TypeParts DEF Inv
  <2>6. LocalType' /\ ProcOK(p)' /\ \A r \in Procs \ {p} : Keeps(r) BY <2>1, <2>5, LeaveLocal
  <2>7. OtherType' BY <2>1, <2>5 DEF OtherType, environment
  <2> QED BY <2>4, <2>6, <2>7, TypeParts DEF StepOf
<1>2. CASE ~ RevisionFree(next[p]) BY <1>2, RefuseStep DEF Insert
<1> QED BY <1>1, <1>2

\* The first claim of an action: the flow runs, no claim is open, and the
\* budget has room for it.
LEMMA FirstClaimEffect ==
  ASSUME Inv, NEW p \in Procs, pc[p] = "claim", FirstClaim(p), UNCHANGED <<log, external>>
  PROVE  /\ Running /\ Key(p) \in ActionKeys /\ actions[Key(p)] = None
         /\ actions' \in [ActionKeys -> ActionRow \cup {None}]
         /\ actions'[Key(p)] # None
         /\ \A k \in ActionKeys \ {Key(p)} : actions'[k] = actions[k]
         /\ Started = {} /\ Started' = {Key(p)} /\ Completed' = Completed
         /\ Cardinality(Started) = 0 /\ Cardinality(Started') = 1
         /\ Latest.used + 1 + Cardinality(ExternalSlots) <= MaxActions
<1>1. TypeOK /\ ProcOK(p) /\ LogOK BY DEF Inv, LedgerOK
<1>2. CallOK(p) BY <1>1 DEF ProcOK, Executing
<1>3. Act(p) \in Action /\ BoundToRunning(Act(p)) /\ Key(p) \in ActionKeys
  BY <1>2 DEF CallOK, Act, Key, Action
<1>4. CanFirstClaim(p) /\ actions' = [actions EXCEPT ![Key(p)] =
          [action |-> Act(p), attempt |-> 1, state |-> "started", observation |-> None]]
  BY DEF FirstClaim
<1>5. actions[Key(p)] = None /\ Started = {} /\ Latest.revision = Act(p).base /\ ClaimFits(p)
  BY <1>4 DEF CanFirstClaim, Row, NoneStarted, IsBoundToLatest
<1>6. Running BY <1>1, <1>3, <1>5, BoundToLatestRuns
<1>7. [action |-> Act(p), attempt |-> 1, state |-> "started", observation |-> None] \in ActionRow
  BY <1>3 DEF ActionRow, MaxAttempts
<1>8. [action |-> Act(p), attempt |-> 1, state |-> "started", observation |-> None] # None
  BY <1>7, NoneIsNoRow
<1>9. /\ actions' \in [ActionKeys -> ActionRow \cup {None}]
      /\ actions'[Key(p)] # None /\ actions'[Key(p)].state = "started"
      /\ \A k \in ActionKeys \ {Key(p)} : actions'[k] = actions[k]
  BY <1>1, <1>3, <1>4, <1>7, <1>8 DEF TypeOK
<1>10. Started' = {Key(p)} BY <1>3, <1>5, <1>9 DEF Started
<1>11. Completed' = Completed BY <1>3, <1>5, <1>9 DEF Completed
<1>12. Cardinality(Started) = 0 /\ Cardinality(Started') = 1
  BY <1>5, <1>10, FS_EmptySet, FS_Singleton
<1>13. /\ Cardinality(ExternalSlots) \in Nat /\ Cardinality(ReservedReplans) \in Nat
       /\ IsFiniteSet(ReservedReplans)
  BY FiniteCounts
<1>14. Latest.used \in Nat BY <1>1, <1>6, LatestType DEF Running
<1>15. Latest.used + Cardinality(ExternalSlots) + Cardinality(ReservedReplans)
          + (IF Key(p) \in Proposals THEN 0 ELSE 1) <= MaxActions
  BY <1>5, <1>12, <1>13, <1>14 DEF ClaimFits, Budgeted, Committed
<1>16. Key(p) \in Proposals => Cardinality(ReservedReplans) >= 1
  <2> SUFFICES ASSUME Key(p) \in Proposals PROVE Cardinality(ReservedReplans) >= 1 OBVIOUS
  <2>1. admissions[Key(p)] # None BY <1>2, FlowConstants DEF CallOK, Executing
  <2>2. admissions[Key(p)].state = "reserved" BY <1>4 DEF CanFirstClaim
  <2>3. ReservedReplans # {} BY <2>1, <2>2 DEF ReservedReplans
  <2>4. Cardinality(ReservedReplans) # 0 BY <1>13, <2>3, FS_EmptySet
  <2> QED BY <1>13, <2>4
<1>17. Latest.used + 1 + Cardinality(ExternalSlots) <= MaxActions
  BY <1>13, <1>14, <1>15, <1>16, FlowConstants
<1> QED BY <1>3, <1>5, <1>6, <1>9, <1>10, <1>11, <1>12, <1>17

\* The next attempt takes a started action over.
LEMMA ReclaimEffect ==
  ASSUME Inv, NEW p \in Procs, pc[p] = "claim", Reclaim(p)
  PROVE  /\ Key(p) \in ActionKeys
         /\ actions' \in [ActionKeys -> ActionRow \cup {None}]
         /\ \A k \in ActionKeys : actions'[k] = None <=> actions[k] = None
         /\ Started' = Started /\ Completed' = Completed
         /\ \A k \in Completed : actions'[k] = actions[k]
<1>1. TypeOK /\ ProcOK(p) BY DEF Inv
<1>2. CallOK(p) BY <1>1 DEF ProcOK, Executing
<1>3. Key(p) \in ActionKeys /\ call[p].attempt \in 1..MaxAttempts
  BY <1>2 DEF CallOK, Act, Key, Action, Call
<1> DEFINE row == actions[Key(p)]
<1> DEFINE new == [row EXCEPT !.attempt = call[p].attempt]
<1>4. row # None /\ row.state = "started" /\ actions' = [actions EXCEPT ![Key(p)] = new]
  BY DEF Reclaim, Row
<1>5. row \in ActionRow BY <1>1, <1>3, <1>4 DEF TypeOK
<1> HIDE DEF row
<1>6. new \in ActionRow /\ new.state = "started" BY <1>3, <1>4, <1>5 DEF ActionRow
<1> HIDE DEF new
<1>7. new # None BY <1>6, NoneIsNoRow
<1>8. /\ actions' \in [ActionKeys -> ActionRow \cup {None}]
      /\ actions'[Key(p)] = new
      /\ \A k \in ActionKeys \ {Key(p)} : actions'[k] = actions[k]
  BY <1>1, <1>3, <1>4, <1>6 DEF TypeOK
<1>9. actions[Key(p)] # None /\ actions[Key(p)].state = "started" BY <1>4 DEF row
<1>10. Started' = Started BY <1>3, <1>6, <1>7, <1>8, <1>9 DEF Started
<1>11. Completed' = Completed BY <1>3, <1>6, <1>7, <1>8, <1>9 DEF Completed
<1>12. \A k \in Completed : actions'[k] = actions[k] BY <1>8, <1>9 DEF Completed
<1> QED BY <1>3, <1>7, <1>8, <1>9, <1>10, <1>11, <1>12

\* A claim changes rows and leaves the checkpoints alone.
LEMMA RowsLedger ==
  ASSUME Inv, UNCHANGED <<log, views, external, receipts, prepared>>,
         actions' \in [ActionKeys -> ActionRow \cup {None}],
         admissions' \in [Proposals -> Admission \cup {None}],
         \A k \in ActionKeys : actions[k] # None => actions'[k] # None,
         \A k \in ActionKeys : actions'[k] # None => Exists,
         \A k \in Completed' : actions'[k].observation # None,
         \A j, k \in Started' : j = k,
         \A q \in Proposals : admissions[q] # None => admissions'[q] # None,
         \A q \in Proposals : admissions'[q] # None =>
             admissions'[q].action.key = q /\ BoundToRunning(admissions'[q].action),
         Exists => Latest.used + Cardinality(Started') + Cardinality(ExternalSlots) <= MaxActions
  PROVE  LedgerType' /\ LedgerGrows /\ LedgerOK'
<1>1. TypeOK /\ LedgerType /\ LedgerOK /\ Len(log) \in Nat BY TypeParts DEF Inv, TypeOK
<1>2. LedgerType' BY <1>1 DEF LedgerType
<1>3. LedgerGrows BY <1>1 DEF LedgerGrows
<1>4. LogOK' BY <1>1 DEF LedgerOK, LogOK
<1>5. RowsOK' BY <1>1 DEF LedgerOK, RowsOK, Exists
<1>6. RequestsOK' BY <1>1 DEF LedgerOK, RequestsOK, BoundToRunning
<1>7. ExternalSlots' = ExternalSlots /\ Latest' = Latest /\ (Exists' <=> Exists)
  BY DEF ExternalSlots, Latest, Exists
<1>8. BudgetHonoured' BY <1>7 DEF BudgetHonoured, Committed
<1> QED BY <1>2, <1>3, <1>4, <1>5, <1>6, <1>8 DEF LedgerOK

\* A running process that was given a claim goes on to the adapter.
LEMMA ClaimedLocal ==
  ASSUME Inv, NEW p \in Procs, pc[p] = "claim", Len(log') \in Nat, LedgerGrows,
         Goto(p, "run"), UNCHANGED <<seen, next, found>>, actions'[Key(p)] # None
  PROVE  LocalType' /\ ProcOK(p)' /\ \A r \in Procs \ {p} : Keeps(r)
<1>1. TypeOK /\ LocalType /\ ProcOK(p) BY TypeParts DEF Inv
<1>2. pc[p] \in Executing /\ CallOK(p) /\ call[p] \in Call /\ seen[p] \in Checkpoint
  BY <1>1 DEF ProcOK, Executing
<1>3. "run" \in PCs /\ None \in Checkpoint \cup {None} /\ None \in Observation \cup {None}
  BY DEF PCs
<1>4. UNCHANGED seen /\ UNCHANGED next /\ UNCHANGED found OBVIOUS
<1>5. LocalType' /\ pc'[p] = "run" /\ call'[p] = call[p] /\ \A r \in Procs \ {p} : Keeps(r)
  BY <1>1, <1>3, <1>4, GotoLocal
<1>6. CallOK(p)' BY <1>1, <1>2, <1>5, CallGoesOn DEF Executing
<1>7. Row(p)' # None BY <1>5 DEF Row, Key, Act
<1>8. ProcOK(p)' BY <1>2, <1>4, <1>5, <1>6, <1>7 DEF ProcOK, Executing
<1> QED BY <1>5, <1>8

\* Changing the state of an admission keeps its action.
LEMMA AdmissionState ==
  ASSUME Inv, NEW q \in Proposals, admissions[q] # None,
         NEW s \in {"reserved", "consumed", "cancelled", "expired"},
         admissions' = [admissions EXCEPT ![q].state = s]
  PROVE  /\ admissions' \in [Proposals -> Admission \cup {None}]
         /\ \A r \in Proposals : admissions'[r] = None <=> admissions[r] = None
         /\ \A r \in Proposals : admissions'[r] # None =>
               admissions'[r].action.key = r /\ BoundToRunning(admissions'[r].action)
<1> DEFINE new == [admissions[q] EXCEPT !.state = s]
<1>1. admissions \in [Proposals -> Admission \cup {None}] BY DEF Inv, TypeOK
<1>2. admissions[q] \in Admission BY <1>1
<1>3. new \in Admission /\ new.action = admissions[q].action BY <1>2 DEF Admission
<1>4. admissions' = [admissions EXCEPT ![q] = new] OBVIOUS
<1> HIDE DEF new
<1>5. new # None BY <1>3, NoneIsNoRow
<1>6. /\ admissions' \in [Proposals -> Admission \cup {None}] /\ admissions'[q] = new
      /\ \A r \in Proposals \ {q} : admissions'[r] = admissions[r]
  BY <1>1, <1>3, <1>4
<1>7. \A r \in Proposals : admissions[r] # None =>
          admissions[r].action.key = r /\ BoundToRunning(admissions[r].action)
  BY DEF Inv, LedgerOK, RequestsOK
<1> QED BY <1>3, <1>5, <1>6, <1>7

\* RedTeamStore.claim_action.
LEMMA ClaimStep ==
  ASSUME Inv, NEW p \in Procs, Claim(p)
  PROVE  StepOf(p)
<1>1. TypeOK /\ LocalType /\ OtherType /\ ProcOK(p) /\ LedgerOK BY TypeParts DEF Inv
<1>2. pc[p] = "claim" /\ UNCHANGED <<log, views, external, receipts, prepared, environment, ran>>
  BY DEF Claim
<1>3. pc[p] \in Executing /\ CallOK(p) /\ call[p] \in Call /\ seen[p] \in Checkpoint
  BY <1>1, <1>2 DEF ProcOK, Executing
<1>4. OtherType' BY <1>1, <1>2 DEF OtherType, environment
<1>5. Len(log') \in Nat BY <1>1, <1>2 DEF TypeOK
<1>6. \A q \in Proposals : admissions[q] # None =>
          admissions[q].action.key = q /\ BoundToRunning(admissions[q].action)
  BY <1>1 DEF LedgerOK, RequestsOK
<1>7. CASE FirstClaim(p)
  <2>1. /\ Running /\ Key(p) \in ActionKeys /\ actions[Key(p)] = None
        /\ actions' \in [ActionKeys -> ActionRow \cup {None}] /\ actions'[Key(p)] # None
        /\ \A k \in ActionKeys \ {Key(p)} : actions'[k] = actions[k]
        /\ Started' = {Key(p)} /\ Completed' = Completed /\ Cardinality(Started') = 1
        /\ Latest.used + 1 + Cardinality(ExternalSlots) <= MaxActions
    BY <1>2, <1>7, FirstClaimEffect
  <2>2. /\ admissions' \in [Proposals -> Admission \cup {None}]
        /\ \A r \in Proposals : admissions'[r] = None <=> admissions[r] = None
        /\ \A r \in Proposals : admissions'[r] # None =>
               admissions'[r].action.key = r /\ BoundToRunning(admissions'[r].action)
    <3>1. CASE Key(p) \in Proposals
      <4>1. admissions[Key(p)] # None BY <1>3, <3>1, FlowConstants DEF CallOK, Executing
      <4>2. admissions' = [admissions EXCEPT ![Key(p)].state = "consumed"]
        BY <1>7, <3>1 DEF FirstClaim
      <4> QED BY <3>1, <4>1, <4>2, AdmissionState
    <3>2. CASE Key(p) \notin Proposals
      <4>1. admissions' = admissions BY <1>7, <3>2 DEF FirstClaim
      <4> QED BY <1>1, <1>6, <4>1 DEF TypeOK
    <3> QED BY <3>1, <3>2
  <2>3. \A k \in Completed' : actions'[k].observation # None
    <3>1. \A k \in Completed : actions[k].observation # None BY <1>1 DEF LedgerOK, RowsOK
    <3>2. \A k \in Completed : k \in ActionKeys \ {Key(p)} BY <2>1 DEF Completed
    <3> QED BY <2>1, <3>1, <3>2
  <2>4. LedgerType' /\ LedgerGrows /\ LedgerOK'
    BY <1>2, <2>1, <2>2, <2>3, RowsLedger DEF Running
  <2>5. Goto(p, "run") /\ UNCHANGED <<seen, next, found>> BY <1>7 DEF FirstClaim
  <2>6. LocalType' /\ ProcOK(p)' /\ \A r \in Procs \ {p} : Keeps(r)
    BY <1>2, <1>5, <2>1, <2>4, <2>5, ClaimedLocal
  <2> QED BY <1>4, <2>4, <2>6, TypeParts DEF StepOf
<1>8. CASE Reclaim(p)
  <2>1. /\ Key(p) \in ActionKeys /\ actions' \in [ActionKeys -> ActionRow \cup {None}]
        /\ \A k \in ActionKeys : actions'[k] = None <=> actions[k] = None
        /\ Started' = Started /\ Completed' = Completed
        /\ \A k \in Completed : actions'[k] = actions[k]
    BY <1>2, <1>8, ReclaimEffect
  <2>2. Goto(p, "run") /\ UNCHANGED <<admissions, seen, next, found>> /\ actions[Key(p)] # None
    BY <1>8 DEF Reclaim, Row
  <2>3. /\ \A k \in Completed' : actions'[k].observation # None
        /\ \A j, k \in Started' : j = k
        /\ \A k \in ActionKeys : actions'[k] # None => Exists
    BY <1>1, <2>1 DEF LedgerOK, RowsOK
  <2>4. Exists => Latest.used + Cardinality(Started') + Cardinality(ExternalSlots) <= MaxActions
    BY <1>1, <2>1 DEF LedgerOK, BudgetHonoured, Committed
  <2>5. admissions' = admissions /\ admissions' \in [Proposals -> Admission \cup {None}]
    BY <1>1, <2>2 DEF TypeOK
  <2>6. LedgerType' /\ LedgerGrows /\ LedgerOK'
    BY <1>2, <1>6, <2>1, <2>3, <2>4, <2>5, RowsLedger
  <2>7. LocalType' /\ ProcOK(p)' /\ \A r \in Procs \ {p} : Keeps(r)
    BY <1>2, <1>5, <2>1, <2>2, <2>6, ClaimedLocal
  <2> QED BY <1>4, <2>6, <2>7, TypeParts DEF StepOf
<1>9. CASE ClaimReplay(p)
  <2>1. Row(p) # None /\ Row(p).state = "completed" /\ Return(p, Latest, Row(p).observation)
        /\ UNCHANGED <<actions, admissions>>
    BY <1>9 DEF ClaimReplay
  <2>2. UNCHANGED <<ledger, prepared>> BY <1>2, <2>1 DEF ledger
  <2>3. LedgerGrows BY <2>2, LedgerGrowsQuiet
  <2>4. Key(p) \in ActionKeys BY <1>3 DEF CallOK, Key, Act, Action
  <2>5. Row(p) \in ActionRow BY <1>1, <2>1, <2>4 DEF TypeOK, Row
  <2>6. Key(p) \in Completed BY <2>1, <2>4 DEF Completed, Row
  <2>7. Row(p).observation # None BY <1>1, <2>6 DEF LedgerOK, RowsOK, Row
  <2>8. Row(p).observation \in Observation BY <2>5, <2>7 DEF ActionRow
  <2>9. Exists BY <1>1, <2>1, <2>4 DEF LedgerOK, RowsOK, Row
  <2>10. Latest \in Checkpoint BY <1>1, <2>9, LatestType
  <2>11. LocalType' /\ ProcOK(p)' /\ \A r \in Procs \ {p} : Keeps(r)
    BY <1>1, <1>3, <1>5, <2>1, <2>3, <2>8, <2>10, ReturnLocal
  <2> QED BY <1>4, <2>2, <2>11, QuietStep
<1>10. CASE Leave(p) /\ UNCHANGED <<actions, admissions>>
  <2>1. UNCHANGED <<ledger, prepared>> BY <1>2, <1>10 DEF ledger
  <2>2. LocalType' /\ ProcOK(p)' /\ \A r \in Procs \ {p} : Keeps(r) BY <1>1, <1>10, LeaveLocal
  <2> QED BY <1>4, <2>1, <2>2, QuietStep
<1> QED BY <1>7, <1>8, <1>9, <1>10 DEF Claim

\* complete_action settles an open claim on top of the checkpoint it was
\* computed from, which is still the latest.
LEMMA CompleteEffect ==
  ASSUME Inv, NEW p \in Procs, pc[p] = "complete", HoldsClaim(p), RevisionFree(next[p]),
         actions' = [actions EXCEPT ![Key(p)].state = "completed",
                                    ![Key(p)].observation = found[p]]
  PROVE  /\ Running /\ next[p] \in Checkpoint /\ next[p].revision = Len(log)
         /\ next[p].used = Latest.used + 1
         /\ next[p].status \in {"running"} \cup Terminal
         /\ found[p] \in Observation
         /\ actions' \in [ActionKeys -> ActionRow \cup {None}]
         /\ \A k \in ActionKeys : actions'[k] = None <=> actions[k] = None
         /\ \A k \in Completed' : actions'[k].observation # None
         /\ Key(p) \in Started /\ Started' = Started \ {Key(p)}
         /\ Cardinality(Started') = Cardinality(Started) - 1
<1>1. TypeOK /\ ProcOK(p) /\ LogOK /\ RowsOK BY DEF Inv, LedgerOK
<1>2. /\ CallOK(p) /\ seen[p] \in Checkpoint /\ Stored(seen[p]) /\ Row(p) # None
      /\ found[p] \in Observation /\ CanRecord(seen[p], found[p])
      /\ next[p] = record_observation(seen[p], found[p])
  BY <1>1 DEF ProcOK, Executing
<1>3. /\ next[p] \in Checkpoint /\ next[p].revision = seen[p].revision + 1
      /\ next[p].used = seen[p].used + 1 /\ next[p].status \in {"running"} \cup Terminal
  BY <1>2, RecordType
<1>4. Exists /\ Latest = seen[p] /\ next[p].revision = Len(log)
  BY <1>1, <1>2, <1>3, FreeRevisionIsNext
<1>5. Running BY <1>2, <1>4 DEF CanRecord, Running
<1>6. Key(p) \in ActionKeys BY <1>2 DEF CallOK, Key, Act, Action
<1> DEFINE row == actions[Key(p)]
<1> DEFINE new == [row EXCEPT !.state = "completed", !.observation = found[p]]
<1>7. row # None /\ row.state = "started" BY <1>2 DEF Row, HoldsClaim
<1>8. row \in ActionRow BY <1>1, <1>6, <1>7 DEF TypeOK
<1>9. actions' = [actions EXCEPT ![Key(p)] = new]
  BY <1>1, <1>6 DEF TypeOK
<1> HIDE DEF row
<1>10. new \in ActionRow /\ new.state = "completed" /\ new.observation = found[p]
  BY <1>2, <1>8 DEF ActionRow
<1> HIDE DEF new
<1>11. new # None /\ found[p] # None BY <1>2, <1>10, NoneIsNoRow
<1>12. /\ actions' \in [ActionKeys -> ActionRow \cup {None}] /\ actions'[Key(p)] = new
       /\ \A k \in ActionKeys \ {Key(p)} : actions'[k] = actions[k]
  BY <1>1, <1>6, <1>9, <1>10 DEF TypeOK
<1>13. actions[Key(p)] # None /\ actions[Key(p)].state = "started" BY <1>7 DEF row
<1>14. Key(p) \in Started BY <1>6, <1>13 DEF Started
<1>15. Started' = Started \ {Key(p)} BY <1>6, <1>10, <1>12 DEF Started
<1>16. Cardinality(Started') = Cardinality(Started) - 1
  BY <1>14, <1>15, FiniteCounts, FS_RemoveElement
<1>17. \A k \in Completed' : actions'[k].observation # None
  <2> SUFFICES ASSUME NEW k \in Completed' PROVE actions'[k].observation # None OBVIOUS
  <2>1. CASE k = Key(p) BY <1>10, <1>11, <1>12, <2>1
  <2>2. CASE k # Key(p)
    <3>1. k \in ActionKeys /\ actions'[k] = actions[k] BY <1>12, <2>2 DEF Completed
    <3>2. k \in Completed BY <3>1 DEF Completed
    <3> QED BY <1>1, <3>1, <3>2 DEF RowsOK
  <2> QED BY <2>1, <2>2
<1>18. \A k \in ActionKeys : actions'[k] = None <=> actions[k] = None
  BY <1>11, <1>12, <1>13
<1> QED BY <1>2, <1>3, <1>4, <1>5, <1>12, <1>14, <1>15, <1>16, <1>17, <1>18

\* RedTeamStore.complete_action.
LEMMA CompleteStep ==
  ASSUME Inv, NEW p \in Procs, Complete(p)
  PROVE  StepOf(p)
<1>1. TypeOK /\ LedgerType /\ LocalType /\ OtherType /\ ProcOK(p) /\ LedgerOK
  BY TypeParts DEF Inv
<1>2. pc[p] = "complete" BY DEF Complete
<1>3. pc[p] \in Executing BY <1>2 DEF Executing
<1>4. CASE HoldsClaim(p) /\ RevisionFree(next[p])
  <2>1. /\ actions' = [actions EXCEPT ![Key(p)].state = "completed",
                                      ![Key(p)].observation = found[p]]
        /\ InsertCheckpoint(next[p]) /\ Return(p, next[p], found[p])
        /\ UNCHANGED <<views, admissions, external, receipts, prepared, environment, ran>>
    BY <1>4 DEF Complete
  <2>2. /\ Running /\ next[p] \in Checkpoint /\ next[p].revision = Len(log)
        /\ next[p].used = Latest.used + 1 /\ found[p] \in Observation
        /\ actions' \in [ActionKeys -> ActionRow \cup {None}]
        /\ \A k \in ActionKeys : actions'[k] = None <=> actions[k] = None
        /\ \A k \in Completed' : actions'[k].observation # None
        /\ Started' = Started \ {Key(p)}
        /\ Cardinality(Started') = Cardinality(Started) - 1
    BY <1>2, <1>4, <2>1, CompleteEffect
  <2>3. LogOK /\ RowsOK /\ BudgetHonoured BY <1>1 DEF LedgerOK
  <2>4. /\ log' \in Seq(Checkpoint) /\ Len(log') = Len(log) + 1
        /\ \A i \in 1..Len(log) : log'[i] = log[i]
        /\ LogOK' /\ Exists' /\ Latest' = next[p]
    BY <1>1, <2>1, <2>2, <2>3, InsertGrows
  <2>5. LedgerType' BY <1>1, <2>1, <2>2, <2>4 DEF LedgerType
  <2>6. Len(log) \in Nat /\ Len(log') \in Nat BY <1>1, <2>4 DEF TypeOK
  <2>7. LedgerGrows BY <2>1, <2>2, <2>4, <2>6 DEF LedgerGrows
  <2>8. RowsOK'
    BY <2>1, <2>2, <2>3, <2>4 DEF RowsOK
  <2>9. RequestsOK' BY <2>1, <2>5, <2>7, RequestsGrow
  <2>10. ExternalSlots' = ExternalSlots BY <2>1 DEF ExternalSlots
  <2>11. BudgetHonoured'
    <3>1. Latest.used \in Nat /\ Committed <= MaxActions
      BY <1>1, <2>2, <2>3, LatestType DEF Running, BudgetHonoured
    <3>2. Committed' = Latest.used + 1 + (Cardinality(Started) - 1) + Cardinality(ExternalSlots)
      BY <2>2, <2>4, <2>10 DEF Committed
    <3>3. Committed' = Committed BY <3>1, <3>2, FiniteCounts DEF Committed
    <3> QED BY <3>1, <3>3 DEF BudgetHonoured
  <2>12. LedgerOK' BY <2>4, <2>8, <2>9, <2>11 DEF LedgerOK
  <2>13. LocalType' /\ ProcOK(p)' /\ \A r \in Procs \ {p} : Keeps(r)
    BY <1>1, <1>3, <2>1, <2>2, <2>6, <2>7, ReturnLocal
  <2>14. OtherType' BY <1>1, <2>1 DEF OtherType, environment
  <2> QED BY <2>5, <2>7, <2>12, <2>13, <2>14, TypeParts DEF StepOf
<1>5. CASE ~ (HoldsClaim(p) /\ RevisionFree(next[p])) BY <1>5, RefuseStep DEF Complete
<1> QED BY <1>4, <1>5

\* The receipt of a replanned execution.
LEMMA PutReceiptStep ==
  ASSUME Inv, NEW p \in Procs, PutReceipt(p)
  PROVE  StepOf(p)
<1>1. TypeOK /\ LedgerType /\ LocalType /\ OtherType /\ ProcOK(p) /\ LedgerOK
  BY TypeParts DEF Inv
<1>2. pc[p] = "receipt" /\ Leave(p)
      /\ UNCHANGED <<log, actions, views, admissions, external, prepared, environment, ran>>
  BY DEF PutReceipt
<1>3. /\ CallOK(p) /\ seen[p] \in Checkpoint /\ found[p] \in Observation
      /\ call[p].kind = "replan"
  BY <1>1, <1>2 DEF ProcOK, Executing
<1>4. Key(p) \in Proposals /\ Act(p) \in Action BY <1>2, <1>3 DEF CallOK, Executing, Act
<1>5. [source |-> Act(p).base, result |-> seen[p].revision, observation |-> found[p]] \in Receipt
  BY <1>3, <1>4 DEF Receipt, Action, Checkpoint
<1>6. receipts' \in [Proposals -> Receipt \cup {None}]
  BY <1>1, <1>4, <1>5 DEF LedgerType, PutReceipt
<1>7. LedgerType' BY <1>1, <1>2, <1>6 DEF LedgerType
<1>8. LedgerGrows BY <1>1, <1>2 DEF LedgerGrows, TypeOK
<1>9. LogOK' /\ RowsOK' BY <1>1, <1>2 DEF LedgerOK, LogOK, RowsOK, Completed, Started, Exists
<1>10. RequestsOK' BY <1>2, <1>7, <1>8, RequestsGrow
<1>11. BudgetHonoured'
  BY <1>1, <1>2 DEF LedgerOK, BudgetHonoured, Exists, Committed, Latest, Started, ExternalSlots
<1>12. LocalType' /\ ProcOK(p)' /\ \A r \in Procs \ {p} : Keeps(r) BY <1>1, <1>2, LeaveLocal
<1>13. OtherType' BY <1>1, <1>2 DEF OtherType, environment
<1> QED BY <1>7, <1>8, <1>9, <1>10, <1>11, <1>12, <1>13, TypeParts DEF StepOf, LedgerOK

\* RedTeamStore.admit_replan.
LEMMA AdmitStep ==
  ASSUME Inv, NEW p \in Procs, Admit(p)
  PROVE  StepOf(p)
<1>1. TypeOK /\ LocalType /\ OtherType /\ ProcOK(p) /\ LedgerOK BY TypeParts DEF Inv
<1>2. pc[p] = "admit" /\ Leave(p)
      /\ UNCHANGED <<log, actions, views, external, receipts, prepared, environment, ran>>
  BY DEF Admit
<1>3. CallOK(p) BY <1>1, <1>2 DEF ProcOK
<1>4. Key(p) \in Proposals /\ Act(p) \in Action /\ BoundToRunning(Act(p)) /\ Act(p).key = Key(p)
  BY <1>2, <1>3 DEF CallOK, Executing, Act, Key
<1>5. admissions \in [Proposals -> Admission \cup {None}] BY <1>1 DEF TypeOK
<1>6. \A q \in Proposals : admissions[q] # None =>
          admissions[q].action.key = q /\ BoundToRunning(admissions[q].action)
  BY <1>1 DEF LedgerOK, RequestsOK
<1> DEFINE new == [action |-> Act(p), state |-> "reserved"]
<1>7. new \in Admission /\ new.action = Act(p) BY <1>4 DEF Admission
<1>8. \/ admissions' = admissions
      \/ admissions[Key(p)] = None /\ admissions' = [admissions EXCEPT ![Key(p)] = new]
  BY DEF Admit
<1> HIDE DEF new
<1>9. new # None BY <1>7, NoneIsNoRow
<1>10. /\ admissions' \in [Proposals -> Admission \cup {None}]
       /\ \A q \in Proposals : admissions[q] # None => admissions'[q] # None
       /\ \A q \in Proposals : admissions'[q] # None =>
             admissions'[q].action.key = q /\ BoundToRunning(admissions'[q].action)
  BY <1>4, <1>5, <1>6, <1>7, <1>8, <1>9
<1>11. Started' = Started /\ Completed' = Completed BY <1>2 DEF Started, Completed
<1>12. /\ actions' \in [ActionKeys -> ActionRow \cup {None}]
       /\ \A k \in ActionKeys : actions'[k] # None => Exists
       /\ \A k \in Completed' : actions'[k].observation # None
       /\ \A j, k \in Started' : j = k
       /\ Exists => Latest.used + Cardinality(Started') + Cardinality(ExternalSlots) <= MaxActions
  BY <1>1, <1>2, <1>11 DEF TypeOK, LedgerOK, RowsOK, BudgetHonoured, Committed
<1>13. LedgerType' /\ LedgerGrows /\ LedgerOK' BY <1>2, <1>10, <1>12, RowsLedger
<1>14. LocalType' /\ ProcOK(p)' /\ \A r \in Procs \ {p} : Keeps(r) BY <1>1, <1>2, LeaveLocal
<1>15. OtherType' BY <1>1, <1>2 DEF OtherType, environment
<1> QED BY <1>13, <1>14, <1>15, TypeParts DEF StepOf

-----------------------------------------------------------------------------
(* Calls of one step, and the environment *)

\* An operator action is sealed for the running checkpoint.
LEMMA PrepareReconStep ==
  ASSUME Inv, NEW k \in Keys, PrepareRecon(k)
  PROVE  Inv'
<1> DEFINE a == [key |-> k, base |-> Latest.revision, created |-> clock,
                 deadline |-> EarlierOf(clock + Ttl, Deadline)]
<1>1. TypeOK /\ LedgerType /\ LocalType /\ OtherType /\ LedgerOK BY TypeParts DEF Inv
<1>2. Running /\ prepared' = prepared \cup {a} /\ UNCHANGED <<ledger, local, environment, ran>>
  BY DEF PrepareRecon
<1>3. Exists /\ LogOK BY <1>1, <1>2 DEF Running, LedgerOK
<1>4. Latest.revision = Len(log) - 1 /\ Latest.revision \in Nat /\ Len(log) \in Nat \ {0}
  BY <1>1, <1>3, LatestRevision, LatestType
<1>5. a \in Action
  <2>1. clock \in Nat BY <1>1 DEF TypeOK
  <2>2. EarlierOf(clock + Ttl, Deadline) \in Nat BY <2>1, FlowConstants DEF EarlierOf
  <2> QED BY <1>4, <2>1, <2>2 DEF Action, ActionKeys
<1>6. a.key = k /\ a.base = Len(log) - 1 BY <1>4
<1> HIDE DEF a
<1>7. BoundToRunning(a) BY <1>2, <1>4, <1>6 DEF BoundToRunning, Running, Latest
<1>8. LedgerType' BY <1>1, <1>2, <1>5 DEF LedgerType, ledger
<1>9. LedgerGrows BY <1>2, <1>4 DEF LedgerGrows, ledger
<1>10. LogOK' /\ RowsOK' BY <1>1, <1>2 DEF LedgerOK, LogOK, RowsOK, Completed, Started, Exists, ledger
<1>11. RequestsOK' BY <1>1, <1>2, <1>6, <1>7 DEF LedgerOK, RequestsOK, BoundToRunning, ledger
<1>12. BudgetHonoured'
  BY <1>1, <1>2 DEF LedgerOK, BudgetHonoured, Exists, Committed, Latest, Started, ExternalSlots, ledger
<1>13. LocalType' /\ OtherType' BY <1>1, <1>2 DEF LocalType, OtherType, local, environment
<1> QED BY <1>2, <1>8, <1>9, <1>10, <1>11, <1>12, <1>13, TypeParts, OutsideKeepsInv DEF LedgerOK

\* A tool view names the running checkpoint.
LEMMA IssueToolViewStep ==
  ASSUME Inv, IssueToolView
  PROVE  Inv'
<1> DEFINE v == [base |-> Latest.revision, issued |-> clock,
                 expires |-> EarlierOf(clock + Ttl, Deadline)]
<1>1. TypeOK /\ LedgerType /\ LocalType /\ OtherType /\ LedgerOK BY TypeParts DEF Inv
<1>2. Running /\ views' = views \cup {v}
      /\ UNCHANGED <<log, actions, admissions, external, receipts, prepared, local, environment, ran>>
  BY DEF IssueToolView
<1>3. Exists /\ LogOK BY <1>1, <1>2 DEF Running, LedgerOK
<1>4. Latest.revision = Len(log) - 1 /\ Latest.revision \in Nat /\ Len(log) \in Nat \ {0}
  BY <1>1, <1>3, LatestRevision, LatestType
<1>5. v \in ToolView
  <2>1. clock \in Nat BY <1>1 DEF TypeOK
  <2>2. EarlierOf(clock + Ttl, Deadline) \in Nat BY <2>1, FlowConstants DEF EarlierOf
  <2> QED BY <1>4, <2>1, <2>2 DEF ToolView
<1>6. v.base < Len(log) BY <1>4
<1> HIDE DEF v
<1>7. LedgerType' BY <1>1, <1>2, <1>5 DEF LedgerType
<1>8. LedgerGrows BY <1>2, <1>4 DEF LedgerGrows
<1>9. LogOK' /\ RowsOK' BY <1>1, <1>2 DEF LedgerOK, LogOK, RowsOK, Completed, Started, Exists
<1>10. RequestsOK' BY <1>1, <1>2, <1>6 DEF LedgerOK, RequestsOK, BoundToRunning
<1>11. BudgetHonoured'
  BY <1>1, <1>2 DEF LedgerOK, BudgetHonoured, Exists, Committed, Latest, Started, ExternalSlots
<1>12. LocalType' /\ OtherType' BY <1>1, <1>2 DEF LocalType, OtherType, local, environment
<1> QED BY <1>2, <1>7, <1>8, <1>9, <1>10, <1>11, <1>12, TypeParts, OutsideKeepsInv DEF LedgerOK

\* An admission is cancelled or expires.
LEMMA ReleaseStep ==
  ASSUME Inv, NEW q \in Proposals, NEW s \in {"cancelled", "expired"}, Release(q, s)
  PROVE  Inv'
<1>1. TypeOK /\ LocalType /\ OtherType /\ LedgerOK BY TypeParts DEF Inv
<1>2. /\ admissions[q] # None /\ admissions' = [admissions EXCEPT ![q].state = s]
      /\ UNCHANGED <<log, actions, views, external, receipts, prepared, local, environment, ran>>
  BY DEF Release
<1>3. /\ admissions' \in [Proposals -> Admission \cup {None}]
      /\ \A r \in Proposals : admissions'[r] = None <=> admissions[r] = None
      /\ \A r \in Proposals : admissions'[r] # None =>
             admissions'[r].action.key = r /\ BoundToRunning(admissions'[r].action)
  BY <1>2, AdmissionState
<1>4. Started' = Started /\ Completed' = Completed BY <1>2 DEF Started, Completed
<1>5. /\ actions' \in [ActionKeys -> ActionRow \cup {None}]
      /\ \A k \in ActionKeys : actions'[k] # None => Exists
      /\ \A k \in Completed' : actions'[k].observation # None
      /\ \A j, k \in Started' : j = k
      /\ Exists => Latest.used + Cardinality(Started') + Cardinality(ExternalSlots) <= MaxActions
  BY <1>1, <1>2, <1>4 DEF TypeOK, LedgerOK, RowsOK, BudgetHonoured, Committed
<1>6. LedgerType' /\ LedgerGrows /\ LedgerOK' BY <1>2, <1>3, <1>5, RowsLedger
<1>7. LocalType' /\ OtherType' BY <1>1, <1>2 DEF LocalType, OtherType, local, environment
<1> QED BY <1>2, <1>6, <1>7, TypeParts, OutsideKeepsInv

\* A chain's reservation adds exactly the actions it asked for.
LEMMA ReserveCounts ==
  ASSUME TypeOK, NEW c \in Chains, NEW n \in 1..MaxActions, ReserveExternal(c, n)
  PROVE  /\ external' \in [Chains -> Reservation \cup {None}]
         /\ Cardinality(ExternalSlots') = Cardinality(ExternalSlots) + n
<1> DEFINE r == [base |-> Latest.revision, count |-> n]
<1> DEFINE S == {c} \X (1..n)
<1>1. external \in [Chains -> Reservation \cup {None}] /\ external[c] = None
  BY DEF TypeOK, ReserveExternal
<1>2. Exists /\ external' = [external EXCEPT ![c] = r] BY DEF ReserveExternal, Running
<1>3. Latest \in Checkpoint BY <1>2, LatestType
<1>4. r \in Reservation /\ r.count = n BY <1>3 DEF Reservation, Checkpoint
<1> HIDE DEF r
<1>5. r # None BY <1>4, NoneIsNoRow
<1>6. /\ external' \in [Chains -> Reservation \cup {None}] /\ external'[c] = r
      /\ \A e \in Chains \ {c} : external'[e] = external[e]
  BY <1>1, <1>2, <1>4
<1>7. n \in Nat /\ MaxActions \in Nat /\ n <= MaxActions BY FlowConstants
<1>8. ExternalSlots' = ExternalSlots \cup S
  <2>1. ASSUME NEW s \in ExternalSlots' PROVE s \in ExternalSlots \cup S
    <3>1. s \in Chains \X (1..MaxActions) /\ external'[s[1]] # None /\ s[2] <= external'[s[1]].count
      BY <2>1 DEF ExternalSlots
    <3>2. CASE s[1] = c BY <1>4, <1>6, <1>7, <3>1, <3>2
    <3>3. CASE s[1] # c BY <1>6, <3>1, <3>3 DEF ExternalSlots
    <3> QED BY <3>2, <3>3
  <2>2. ASSUME NEW s \in ExternalSlots PROVE s \in ExternalSlots'
    <3>1. s \in Chains \X (1..MaxActions) /\ external[s[1]] # None /\ s[2] <= external[s[1]].count
      BY <2>2 DEF ExternalSlots
    <3>2. s[1] # c BY <1>1, <3>1
    <3> QED BY <1>6, <3>1, <3>2 DEF ExternalSlots
  <2>3. ASSUME NEW s \in S PROVE s \in ExternalSlots'
    <3>1. s[1] = c /\ s[2] \in 1..n /\ s = <<s[1], s[2]>> BY <2>3
    <3>2. s \in Chains \X (1..MaxActions) BY <1>7, <3>1
    <3> QED BY <1>4, <1>5, <1>6, <1>7, <3>1, <3>2 DEF ExternalSlots
  <2> QED BY <2>1, <2>2, <2>3
<1>9. ExternalSlots \cap S = {} BY <1>1 DEF ExternalSlots
<1>10. IsFiniteSet({c}) /\ Cardinality({c}) = 1 BY FS_Singleton
<1>11. IsFiniteSet(1..n) /\ Cardinality(1..n) = n BY <1>7, FS_Interval
<1>12. IsFiniteSet(S) /\ Cardinality(S) = 1 * n BY <1>10, <1>11, FS_Product
<1> HIDE DEF S
<1>13. Cardinality(ExternalSlots \cup S) = Cardinality(ExternalSlots) + Cardinality(S) - Cardinality({})
  BY <1>9, <1>12, FiniteCounts, FS_Union
<1>14. Cardinality({}) = 0 BY FS_EmptySet
<1> QED BY <1>6, <1>7, <1>8, <1>12, <1>13, <1>14, FiniteCounts

\* An attack chain reserves budget.
LEMMA ReserveExternalStep ==
  ASSUME Inv, NEW c \in Chains, NEW n \in 1..MaxActions, ReserveExternal(c, n)
  PROVE  Inv'
<1>1. TypeOK /\ LedgerType /\ LocalType /\ OtherType /\ LedgerOK BY TypeParts DEF Inv
<1>2. /\ Running /\ Committed + n <= MaxActions
      /\ UNCHANGED <<log, actions, views, admissions, receipts, prepared, local, environment, ran>>
  BY DEF ReserveExternal
<1>3. /\ external' \in [Chains -> Reservation \cup {None}]
      /\ Cardinality(ExternalSlots') = Cardinality(ExternalSlots) + n
  BY <1>1, ReserveCounts
<1>4. Exists BY <1>2 DEF Running
<1>5. LedgerType' BY <1>1, <1>2, <1>3 DEF LedgerType
<1>6. LedgerGrows BY <1>1, <1>2 DEF LedgerGrows, TypeOK
<1>7. LogOK' /\ RowsOK'
  BY <1>1, <1>2, <1>4 DEF LedgerOK, LogOK, RowsOK, Completed, Started, Exists
<1>8. RequestsOK' BY <1>2, <1>5, <1>6, RequestsGrow
<1>9. BudgetHonoured'
  <2>1. Latest' = Latest /\ Started' = Started BY <1>2 DEF Latest, Started
  <2>2. Latest.used \in Nat /\ n \in Nat BY <1>1, <1>4, LatestType, FlowConstants
  <2>3. Committed' = Committed + n BY <1>3, <2>1, <2>2, FiniteCounts DEF Committed
  <2> QED BY <1>2, <2>3 DEF BudgetHonoured
<1>10. LocalType' /\ OtherType' BY <1>1, <1>2 DEF LocalType, OtherType, local, environment
<1> QED BY <1>2, <1>5, <1>6, <1>7, <1>8, <1>9, <1>10, TypeParts, OutsideKeepsInv DEF LedgerOK

\* Revocation and the clock.
LEMMA EnvironmentStep ==
  ASSUME Inv, Revoke \/ Tick
  PROVE  Inv'
<1>1. LocalType /\ OtherType BY TypeParts DEF Inv
<1>2. UNCHANGED <<ledger, prepared, local>> BY DEF Revoke, Tick
<1>3. LedgerType' /\ LedgerOK' /\ LedgerGrows BY <1>2, QuietLedger
<1>4. LocalType' BY <1>1, <1>2 DEF LocalType, local
<1>5. OtherType'
  <2>1. CASE Revoke BY <1>1, <2>1 DEF OtherType, Revoke
  <2>2. CASE Tick BY <1>1, <2>2 DEF OtherType, Tick
  <2> QED BY <2>1, <2>2
<1> QED BY <1>2, <1>3, <1>4, <1>5, TypeParts, OutsideKeepsInv

-----------------------------------------------------------------------------
(* The invariant holds *)

\* Every process moves by one of these steps.
LEMMA ProcessStep ==
  ASSUME Inv, NEW p \in Procs, Step(p) \/ BeginOperation(p) \/ Crash(p)
  PROVE  StepOf(p) \/ UNCHANGED vars
<1>1. CASE Step(p)
  <2>1. ASSUME CreateRaced(p) PROVE StepOf(p) BY <2>1, RefuseStep DEF CreateRaced
  <2> QED BY <1>1, <2>1, CreateStep, AssertLatestStep, InsertStep, ReplayStep, ClaimStep,
             AdapterStep, RecordStep, CompleteStep, PutReceiptStep, AdmitStep DEF Step
<1>2. CASE BeginOperation(p)
  <2>1. ASSUME NothingToStart(p) \/ ExpireStopped(p) PROVE UNCHANGED vars
    BY <2>1 DEF NothingToStart, ExpireStopped
  <2> QED BY <1>2, <2>1, BeginCreateStep, BeginStartStep, BeginStopStep, BeginReconStep,
             BeginReplanStep, BeginAdmitStep DEF BeginOperation
<1>3. CASE Crash(p) BY <1>3, CrashStep
<1> QED BY <1>1, <1>2, <1>3

\* Nothing happens.
LEMMA StutterStep ==
  ASSUME Inv, UNCHANGED vars
  PROVE  Inv'
<1>1. LocalType /\ OtherType BY TypeParts DEF Inv
<1>2. UNCHANGED <<ledger, prepared, local, environment, ran>> BY DEF vars
<1>3. LedgerType' /\ LedgerOK' /\ LedgerGrows BY <1>2, QuietLedger
<1>4. LocalType' /\ OtherType' BY <1>1, <1>2 DEF LocalType, OtherType, local, environment
<1> QED BY <1>2, <1>3, <1>4, TypeParts, OutsideKeepsInv

\* The empty ledger.
LEMMA InitInv ==
  ASSUME Init
  PROVE  Inv
<1>1. log = <<>> /\ Len(log) = 0 BY DEF Init
<1>2. ~ Exists BY <1>1 DEF Exists
<1>3. TypeOK
  <2>1. LedgerType BY DEF Init, LedgerType
  <2>2. LocalType BY DEF Init, LocalType, PCs
  <2>3. OtherType BY DEF Init, OtherType
  <2> QED BY <2>1, <2>2, <2>3, TypeParts
<1>4. LogOK /\ BudgetHonoured BY <1>1, <1>2 DEF LogOK, BudgetHonoured
<1>5. Started = {} /\ Completed = {} BY DEF Init, Started, Completed
<1>6. RowsOK BY <1>5 DEF Init, RowsOK
<1>7. RequestsOK BY DEF Init, RequestsOK
<1>8. \A p \in Procs : ProcOK(p)
  <2> SUFFICES ASSUME NEW p \in Procs PROVE ProcOK(p) OBVIOUS
  <2>1. pc[p] = "idle" BY DEF Init
  <2> QED BY <2>1 DEF ProcOK, Executing
<1> QED BY <1>3, <1>4, <1>6, <1>7, <1>8 DEF Inv, LedgerOK

\* Every step keeps the invariant.
LEMMA NextInv ==
  ASSUME Inv, [Next]_vars
  PROVE  Inv'
<1>1. CASE \E p \in Procs : Step(p) \/ BeginOperation(p) \/ Crash(p)
  <2>1. PICK p \in Procs : Step(p) \/ BeginOperation(p) \/ Crash(p) BY <1>1
  <2>2. StepOf(p) \/ UNCHANGED vars BY <2>1, ProcessStep
  <2> QED BY <2>2, StepKeepsInv, StutterStep
<1>2. CASE Atomic
  BY <1>2, PrepareReconStep, IssueToolViewStep, ReleaseStep, ReserveExternalStep DEF Atomic
<1>3. CASE Revoke \/ Tick BY <1>3, EnvironmentStep
<1>4. CASE UNCHANGED vars BY <1>4, StutterStep
<1> QED BY <1>1, <1>2, <1>3, <1>4 DEF Next

\* The invariant holds in every state of the flow.
THEOREM InvariantHolds == Spec => []Inv
<1>1. Init => Inv BY InitInv
<1>2. Inv /\ [Next]_vars => Inv' BY NextInv
<1> QED BY <1>1, <1>2, PTL DEF Spec

\* Every row of the ledger and every value held by a call keeps its shape, for
\* any number of processes, keys, proposals and chains.
THEOREM TypeCorrect == Spec => []TypeOK
<1>1. Inv => TypeOK BY DEF Inv
<1> QED BY <1>1, InvariantHolds, PTL

\* claim_action and reserve_external_actions never commit more than max_actions,
\* whatever claims, completions, stops, chains and crashes interleave.
THEOREM BudgetIsHonoured == Spec => []BudgetHonoured
<1>1. Inv => BudgetHonoured BY DEF Inv, LedgerOK
<1> QED BY <1>1, InvariantHolds, PTL

-----------------------------------------------------------------------------
(* What a step does to the flow *)

\* The flow does not move.
Quiet ==
    /\ UNCHANGED <<log, external>> /\ Started' = Started /\ Completed' = Completed
    /\ \A k \in ActionKeys : actions[k] = None => actions'[k] = None
    /\ Stopped => \A q \in Proposals : admissions[q] = None => admissions'[q] = None

\* The plan is stored.
Opened ==
    /\ ~ Exists /\ Exists' /\ Latest'.status = "planned" /\ Latest'.used = 0
    /\ Latest'.revision = 0
    /\ UNCHANGED <<actions, external>>

\* The flow starts or stops.
Moved == Exists /\ Exists' /\ Moves(Latest, Latest') /\ UNCHANGED <<actions, external>>

\* An action is claimed for the first time.
Claimed ==
    /\ Running /\ UNCHANGED <<log, external>>
    /\ Cardinality(Started') = Cardinality(Started) + 1
    /\ Committed + 1 <= MaxActions

\* A claimed action is recorded.
Settled ==
    /\ Running /\ Exists' /\ UNCHANGED external
    /\ Latest'.used = Latest.used + 1 /\ Latest'.status \in {"running"} \cup Terminal
    /\ Latest'.revision = Latest.revision + 1
    /\ Cardinality(Started) >= 1 /\ Cardinality(Started') = Cardinality(Started) - 1

\* Budget is promised to an attack chain.
Promised ==
    /\ Running /\ UNCHANGED <<log, actions>>
    /\ \E n \in 1..MaxActions :
          /\ Committed + n <= MaxActions
          /\ Cardinality(ExternalSlots') = Cardinality(ExternalSlots) + n

FlowStep == Quiet \/ Opened \/ Moved \/ Claimed \/ Settled \/ Promised

\* A step that leaves the ledger alone does not move the flow.
LEMMA QuietFlow ==
  ASSUME UNCHANGED <<log, actions, admissions, external>>
  PROVE  Quiet
  BY DEF Quiet, Started, Completed

\* Neither planned nor running is terminal.
LEMMA NotBoth ==
  /\ Running => ~ Stopped
  /\ "planned" \notin Terminal /\ "running" \notin Terminal /\ "absent" \notin Terminal
  BY DEF Running, Stopped, Terminal

\* Steps of a process that write a checkpoint.
LEMMA CheckpointFlow ==
  ASSUME Inv, NEW p \in Procs, Create(p) \/ Insert(p) \/ Complete(p)
  PROVE  FlowStep
<1>1. TypeOK /\ LogOK /\ ProcOK(p) BY DEF Inv, LedgerOK
<1>2. ASSUME Refuse(p) PROVE FlowStep BY <1>2, QuietFlow DEF Refuse, ledger, FlowStep
<1>3. CASE Create(p)
  <2>1. UNCHANGED <<actions, admissions, external>> BY <1>3 DEF Create
  <2>2. CASE Exists
    <3>1. log' = log BY <1>3, <2>2 DEF Create
    <3> QED BY <2>1, <3>1, QuietFlow DEF FlowStep
  <2>3. CASE ~ Exists
    <3>1. next[p] = PlannedCheckpoint(call[p].now) BY <1>1, <1>3 DEF Create, ProcOK
    <3>2. log' = <<next[p]>> BY <1>3, <2>3 DEF Create
    <3>3. Exists' /\ Latest' = next[p] BY <3>2 DEF Exists, Latest
    <3>4. Opened BY <2>1, <2>3, <3>1, <3>3 DEF Opened, PlannedCheckpoint
    <3> QED BY <3>4 DEF FlowStep
  <2> QED BY <2>2, <2>3
<1>4. CASE Insert(p)
  <2>1. CASE RevisionFree(next[p])
    <3>1. pc[p] = "insert" /\ InsertCheckpoint(next[p]) /\ UNCHANGED <<actions, external>>
      BY <1>4, <2>1 DEF Insert
    <3>2. /\ Exists /\ next[p] \in Checkpoint /\ Moves(Latest, next[p])
          /\ next[p].revision = Len(log)
      BY <2>1, <3>1, InsertEffect
    <3>3. Exists' /\ Latest' = next[p] BY <1>1, <3>1, <3>2, InsertGrows
    <3>4. Moved BY <3>1, <3>2, <3>3 DEF Moved
    <3> QED BY <3>4 DEF FlowStep
  <2>2. CASE ~ RevisionFree(next[p]) BY <1>2, <1>4, <2>2 DEF Insert
  <2> QED BY <2>1, <2>2
<1>5. CASE Complete(p)
  <2>1. CASE HoldsClaim(p) /\ RevisionFree(next[p])
    <3>1. /\ pc[p] = "complete" /\ InsertCheckpoint(next[p]) /\ UNCHANGED external
          /\ actions' = [actions EXCEPT ![Key(p)].state = "completed",
                                        ![Key(p)].observation = found[p]]
      BY <1>5, <2>1 DEF Complete
    <3>2. /\ Running /\ next[p] \in Checkpoint /\ next[p].revision = Len(log)
          /\ next[p].used = Latest.used + 1
          /\ next[p].status \in {"running"} \cup Terminal
          /\ Key(p) \in Started
          /\ Cardinality(Started') = Cardinality(Started) - 1
      BY <2>1, <3>1, CompleteEffect
    <3>3. Exists' /\ Latest' = next[p] BY <1>1, <3>1, <3>2, InsertGrows
    <3>4. Cardinality(Started) # 0 BY <3>2, FiniteCounts, FS_EmptySet
    <3>5. Cardinality(Started) >= 1 BY <3>4, FiniteCounts
    <3>7. Latest.revision = Len(log) - 1 /\ Len(log) \in Nat
      BY <1>1, <3>2, LatestRevision DEF Running
    <3>6. Settled BY <3>1, <3>2, <3>3, <3>5, <3>7 DEF Settled
    <3> QED BY <3>6 DEF FlowStep
  <2>2. CASE ~ (HoldsClaim(p) /\ RevisionFree(next[p])) BY <1>2, <1>5, <2>2 DEF Complete
  <2> QED BY <2>1, <2>2
<1> QED BY <1>3, <1>4, <1>5

\* Claims.
LEMMA ClaimFlow ==
  ASSUME Inv, NEW p \in Procs, Claim(p)
  PROVE  FlowStep
<1>1. TypeOK BY DEF Inv
<1>2. pc[p] = "claim" /\ UNCHANGED <<log, external>> BY DEF Claim
<1>3. CASE FirstClaim(p)
  <2>1. /\ Running /\ Cardinality(Started) = 0 /\ Cardinality(Started') = 1
        /\ Latest.used + 1 + Cardinality(ExternalSlots) <= MaxActions
    BY <1>2, <1>3, FirstClaimEffect
  <2>2. Latest.used \in Nat BY <1>1, <2>1, LatestType DEF Running
  <2>3. Committed + 1 <= MaxActions BY <2>1, <2>2, FiniteCounts, FlowConstants DEF Committed
  <2>4. Claimed BY <1>2, <2>1, <2>3 DEF Claimed
  <2> QED BY <2>4 DEF FlowStep
<1>4. CASE Reclaim(p)
  <2>1. /\ \A k \in ActionKeys : actions'[k] = None <=> actions[k] = None
        /\ Started' = Started /\ Completed' = Completed
    BY <1>2, <1>4, ReclaimEffect
  <2>2. admissions' = admissions BY <1>4 DEF Reclaim
  <2>3. Quiet BY <1>2, <2>1, <2>2 DEF Quiet
  <2> QED BY <2>3 DEF FlowStep
<1>5. CASE UNCHANGED <<actions, admissions>> BY <1>2, <1>5, QuietFlow DEF FlowStep
<1> QED BY <1>3, <1>4, <1>5 DEF Claim, ClaimReplay

\* Admissions and their release.
LEMMA AdmissionFlow ==
  ASSUME Inv,
         \/ \E p \in Procs : Admit(p)
         \/ \E q \in Proposals, s \in {"cancelled", "expired"} : Release(q, s)
  PROVE  FlowStep
<1>1. UNCHANGED <<log, actions, external>> BY DEF Admit, Release
<1>2. Started' = Started /\ Completed' = Completed BY <1>1 DEF Started, Completed
<1>3. Stopped => \A q \in Proposals : admissions[q] = None => admissions'[q] = None
  <2>1. CASE \E p \in Procs : Admit(p) BY <2>1, NotBoth DEF Admit
  <2>2. CASE \E q \in Proposals, s \in {"cancelled", "expired"} : Release(q, s)
    <3>1. PICK q \in Proposals, s \in {"cancelled", "expired"} : Release(q, s) BY <2>2
    <3>2. admissions[q] # None /\ admissions' = [admissions EXCEPT ![q].state = s]
      BY <3>1 DEF Release
    <3>3. \A r \in Proposals : admissions'[r] = None <=> admissions[r] = None
      BY <3>1, <3>2, AdmissionState
    <3> QED BY <3>3
  <2> QED BY <2>1, <2>2
<1> QED BY <1>1, <1>2, <1>3 DEF Quiet, FlowStep

\* Every step moves the flow in one of these ways.
LEMMA NextFlow ==
  ASSUME Inv, [Next]_vars
  PROVE  FlowStep
<1>1. ASSUME NEW p \in Procs, Step(p) PROVE FlowStep
  <2>1. CASE Create(p) \/ Insert(p) \/ Complete(p) BY <2>1, CheckpointFlow
  <2>2. CASE Claim(p) BY <2>2, ClaimFlow
  <2>3. CASE Admit(p) BY <2>3, AdmissionFlow
  <2>4. CASE CreateRaced(p) \/ AssertLatest(p) \/ Replay(p) \/ AdapterReturns(p)
             \/ AdapterFails(p) \/ AdapterExhausted(p) \/ Record(p) \/ PutReceipt(p)
    <3>1. UNCHANGED <<log, actions, admissions, external>>
      BY <2>4 DEF CreateRaced, AssertLatest, Replay, AdapterReturns, AdapterFails,
                  AdapterExhausted, Record, PutReceipt, Refuse, ledger
    <3> QED BY <3>1, QuietFlow DEF FlowStep
  <2> QED BY <1>1, <2>1, <2>2, <2>3, <2>4 DEF Step
<1>2. ASSUME NEW p \in Procs, BeginOperation(p) \/ Crash(p) PROVE FlowStep
  <2>1. UNCHANGED <<log, actions, admissions, external>>
    BY <1>2 DEF BeginOperation, Crash, BeginCreate, BeginStart, NothingToStart, BeginStop,
                ExpireStopped, BeginRecon, BeginReplan, BeginAdmit, vars, ledger
  <2> QED BY <2>1, QuietFlow DEF FlowStep
<1>3. CASE Atomic
  <2>1. CASE \E c \in Chains, n \in 1..MaxActions : ReserveExternal(c, n)
    <3>1. PICK c \in Chains, n \in 1..MaxActions : ReserveExternal(c, n) BY <2>1
    <3>2. Cardinality(ExternalSlots') = Cardinality(ExternalSlots) + n
      BY <3>1, ReserveCounts DEF Inv
    <3>3. Promised BY <3>1, <3>2 DEF Promised, ReserveExternal
    <3> QED BY <3>3 DEF FlowStep
  <2>2. CASE \E q \in Proposals, s \in {"cancelled", "expired"} : Release(q, s)
    BY <2>2, AdmissionFlow
  <2>3. CASE IssueToolView \/ \E k \in Keys : PrepareRecon(k)
    <3>1. UNCHANGED <<log, actions, admissions, external>>
      BY <2>3 DEF IssueToolView, PrepareRecon, ledger
    <3> QED BY <3>1, QuietFlow DEF FlowStep
  <2> QED BY <1>3, <2>1, <2>2, <2>3 DEF Atomic
<1>4. CASE Revoke \/ Tick \/ UNCHANGED vars
  <2>1. UNCHANGED <<log, actions, admissions, external>> BY <1>4 DEF Revoke, Tick, vars, ledger
  <2> QED BY <2>1, QuietFlow DEF FlowStep
<1> QED BY <1>1, <1>2, <1>3, <1>4 DEF Next

-----------------------------------------------------------------------------
(* A stop is final, and the flow implements its abstract specification *)

\* A stopped flow stays stopped: no later step of any call that was under way
\* adds a checkpoint, a first claim, a completion or a promise.
THEOREM StopsAreFinal == Spec => StopIsFinal
<1> DEFINE Kept == Stopped =>
               /\ log' = log /\ external' = external
               /\ Completed' = Completed
               /\ \A k \in ActionKeys : actions[k] = None => actions'[k] = None
               /\ \A q \in Proposals : admissions[q] = None => admissions'[q] = None
<1>1. Inv /\ [Next]_vars => [Kept]_vars
  <2> SUFFICES ASSUME Inv, [Next]_vars, Stopped PROVE Kept OBVIOUS
  <2>1. FlowStep BY NextFlow
  <2>2. ~ Opened /\ ~ Claimed /\ ~ Settled /\ ~ Promised
    BY NotBoth DEF Opened, Claimed, Settled, Promised, Stopped
  <2>3. ~ Moved BY NotBoth DEF Moved, Moves, Stopped
  <2>4. Quiet BY <2>1, <2>2, <2>3 DEF FlowStep
  <2> QED BY <2>4 DEF Quiet
<1> QED BY <1>1, InvariantHolds, PTL DEF Spec, StopIsFinal

\* A step of the ledger is a step or a stutter of the bounded flow.
LEMMA FlowStepIsBounded ==
  ASSUME Inv, FlowStep
  PROVE  [Bounded!Next]_(Bounded!flow)
<1> DEFINE phase == IF Exists THEN Latest.status ELSE "absent"
<1> DEFINE used == IF Exists THEN Latest.used ELSE 0
<1> DEFINE held == Cardinality(Started) + Cardinality(ExternalSlots)
<1>1. TypeOK /\ RowsOK BY DEF Inv, LedgerOK
<1>2. /\ Cardinality(Started) \in Nat /\ Cardinality(ExternalSlots) \in Nat
      /\ MaxActions \in Nat
  BY FiniteCounts, FlowConstants
<1>3. Exists => Latest.used \in Nat BY <1>1, LatestType
<1>4. ASSUME log' = log PROVE phase' = phase /\ used' = used
  BY <1>4 DEF Exists, Latest
<1>5. ASSUME external' = external PROVE ExternalSlots' = ExternalSlots BY <1>5 DEF ExternalSlots
<1>6. ASSUME actions' = actions PROVE Started' = Started BY <1>6 DEF Started
<1>7. CASE Quiet
  <2>1. phase' = phase /\ used' = used /\ held' = held BY <1>4, <1>5, <1>7 DEF Quiet
  <2> QED BY <2>1 DEF Bounded!flow
<1>8. CASE Opened
  <2>1. phase = "absent" /\ phase' = "planned" /\ used = 0 /\ used' = 0 /\ held' = held
    BY <1>5, <1>6, <1>8 DEF Opened
  <2>2. Bounded!Open BY <2>1 DEF Bounded!Open
  <2> QED BY <2>2 DEF Bounded!Next
<1>9. CASE Moved
  <2>1. used' = used /\ held' = held /\ phase = Latest.status /\ phase' = Latest'.status
    BY <1>5, <1>6, <1>9 DEF Moved, Moves
  <2>2. Bounded!Start \/ Bounded!Stop
    BY <1>9, <2>1 DEF Moved, Moves, Bounded!Start, Bounded!Stop
  <2> QED BY <2>2 DEF Bounded!Next
<1>10. CASE Claimed
  <2>1. phase' = phase /\ used' = used /\ phase = "running" /\ used = Latest.used
    BY <1>4, <1>10 DEF Claimed, Running
  <2>2. held' = held + 1 BY <1>2, <1>5, <1>10 DEF Claimed
  <2>3. used + held + 1 <= MaxActions
    BY <1>2, <1>3, <1>10, <2>1 DEF Claimed, Committed, Running
  <2>4. Bounded!Take(1) BY <2>1, <2>2, <2>3 DEF Bounded!Take
  <2>5. 1 \in 1..MaxActions BY FlowConstants
  <2> QED BY <2>4, <2>5 DEF Bounded!Next
<1>11. CASE Settled
  <2>1. /\ phase = "running" /\ used = Latest.used /\ used' = used + 1
        /\ phase' \in {"running"} \cup Terminal
    BY <1>11 DEF Settled, Running
  <2>2. held > 0 /\ held' = held - 1 BY <1>2, <1>5, <1>11 DEF Settled
  <2>3. Bounded!Settle BY <2>1, <2>2 DEF Bounded!Settle
  <2> QED BY <2>3 DEF Bounded!Next
<1>12. CASE Promised
  <2>1. phase' = phase /\ used' = used /\ phase = "running" /\ used = Latest.used
    BY <1>4, <1>12 DEF Promised, Running
  <2>2. PICK n \in 1..MaxActions :
          /\ Committed + n <= MaxActions
          /\ Cardinality(ExternalSlots') = Cardinality(ExternalSlots) + n
    BY <1>12 DEF Promised
  <2>3. n \in Nat /\ Started' = Started BY <1>2, <1>6, <1>12 DEF Promised
  <2>4. held' = held + n BY <1>2, <2>2, <2>3
  <2>5. used + held + n <= MaxActions
    BY <1>2, <1>3, <1>12, <2>1, <2>2, <2>3 DEF Promised, Committed, Running
  <2>6. Bounded!Take(n) BY <2>1, <2>4, <2>5 DEF Bounded!Take
  <2> QED BY <2>2, <2>6 DEF Bounded!Next
<1> QED BY <1>7, <1>8, <1>9, <1>10, <1>11, <1>12 DEF FlowStep

\* The ledger implements BoundedFlow: every interleaving of claims, completions,
\* stops, chain reservations and crashes maps to steps of the abstract flow.
THEOREM ImplementsBoundedFlow == Spec => BoundedFlowSpec
<1>1. Init => Bounded!Init
  <2> SUFFICES ASSUME Init PROVE Bounded!Init OBVIOUS
  <2>1. ~ Exists /\ Started = {} /\ ExternalSlots = {}
    BY DEF Init, Exists, Started, ExternalSlots
  <2>2. Cardinality(Started) + Cardinality(ExternalSlots) = 0 BY <2>1, FS_EmptySet
  <2> QED BY <2>1, <2>2 DEF Bounded!Init
<1>2. Inv /\ [Next]_vars => [Bounded!Next]_(Bounded!flow)
  BY NextFlow, FlowStepIsBounded
<1> QED BY <1>1, <1>2, InvariantHolds, PTL DEF Spec, BoundedFlowSpec, Bounded!Spec

\* Seen from any checkpoint, a step of the ledger is a step of FlowBoundary.
LEMMA FlowStepKeepsBoundary ==
  ASSUME Inv, FlowStep, NEW e \in 1..(MaxActions + 1)
  PROVE  Boundary(e)!Next \/ UNCHANGED SeenFrom(e)
<1>1. TypeOK /\ LogOK BY DEF Inv, LedgerOK
<1>2. Exists => Latest.revision \in Nat BY <1>1, LatestRevision
<1>3. e \in Nat /\ e >= 1 BY FlowConstants
<1>4. CASE log' = log BY <1>4 DEF SeenFrom, Exists, Latest
<1>5. CASE Opened
  <2>1. SeenFrom(e) = "before" BY <1>5 DEF Opened, SeenFrom
  <2>2. SeenFrom(e)' = "before" BY <1>3, <1>5 DEF Opened, SeenFrom
  <2> QED BY <2>1, <2>2
<1>6. CASE Moved \/ Settled
  <2>1. /\ Exists /\ Exists' /\ Latest'.revision = Latest.revision + 1
        /\ Latest.status \in {"planned", "running"}
        /\ Latest'.status \in {"running"} \cup Terminal
    BY <1>6 DEF Moved, Moves, Settled, Running
  <2>2. /\ Latest.revision \in Nat
        /\ Latest.status = "planned" \/ Latest.status = "running"
        /\ Latest'.status # "planned"
    BY <1>2, <2>1 DEF Terminal
  <2>3. \/ SeenFrom(e) = "before"
        \/ /\ SeenFrom(e) \in {"expected", "moved"}
           /\ Latest.revision >= e /\ Latest'.revision > e
    BY <1>3, <2>1, <2>2 DEF SeenFrom
  <2>4. CASE Latest'.revision < e
    <3>1. SeenFrom(e)' = "before" BY <2>1, <2>4 DEF SeenFrom
    <3>2. SeenFrom(e) = "before" BY <1>3, <2>1, <2>2, <2>4 DEF SeenFrom
    <3> QED BY <3>1, <3>2
  <2>5. CASE ~ (Latest'.revision < e) /\ Latest'.status = "running"
    <3>1. SeenFrom(e)' = (IF Latest'.revision = e THEN "expected" ELSE "moved")
      BY <2>1, <2>2, <2>5 DEF SeenFrom
    <3>2. CASE SeenFrom(e) = "before" BY <3>1, <3>2 DEF Boundary!Next, Boundary!Later
    <3>3. CASE SeenFrom(e) \in {"expected", "moved"}
      <4>1. SeenFrom(e)' = "moved" BY <1>3, <2>1, <2>2, <2>3, <3>1, <3>3
      <4> QED BY <3>3, <4>1 DEF Boundary!Next, Boundary!Later
    <3> QED BY <2>3, <3>2, <3>3
  <2>6. CASE ~ (Latest'.revision < e) /\ Latest'.status \in Terminal
    <3>1. SeenFrom(e)' \in {"cancelled", "killed", "ended"}
      BY <2>1, <2>2, <2>6 DEF SeenFrom, Terminal
    <3> QED BY <2>3, <3>1 DEF Boundary!Next, Boundary!Later, Boundary!Stopped
  <2> QED BY <2>1, <2>4, <2>5, <2>6
<1> QED BY <1>4, <1>5, <1>6 DEF FlowStep, Quiet, Claimed, Promised

\* The flow keeps the boundary attack chains rely on, for every budget and any
\* number of processes: it leaves each checkpoint for good and stops for good.
THEOREM ImplementsFlowBoundary == Spec => KeepsBoundary
<1>1. Inv /\ [Next]_vars =>
        [\A e \in 1..(MaxActions + 1) : Boundary(e)!Next \/ UNCHANGED SeenFrom(e)]_vars
  BY NextFlow, FlowStepKeepsBoundary
<1> QED BY <1>1, InvariantHolds, PTL DEF Spec, KeepsBoundary
=============================================================================
