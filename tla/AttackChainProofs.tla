------------------------- MODULE AttackChainProofs -------------------------
(***************************************************************************)
(* Proofs about AttackChain, for any graph, processes, deadlines, outcomes *)
(* and bounds.                                                             *)
(***************************************************************************)
EXTENDS AttackChain, TLAPS, SequenceTheorems, FiniteSetTheorems

-----------------------------------------------------------------------------
(* The inductive invariant *)

\* What holds of a checkpoint by itself, whoever made it.
CheckpointOK(c) ==
    /\ c.revision = 0 <=> c.status = "planned"
    /\ c.status = "planned" => \A a \in Actions : c.nodes[a] = "pending"
    /\ c.status = "running" => \A a \in Actions : c.nodes[a] \in {"pending", "succeeded"}
    /\ c.status \in Active => c.nodes[Cleanup] = "pending"
    /\ c.failures = Cardinality(Failed(c))
    /\ c.status = "cleanup_required" <=> c.deferred # None
    /\ c.objective = TRUE <=> c.nodes[Objective] = "succeeded"
    /\ c.status = "goal_reached" => \A a \in Actions : c.nodes[a] = "succeeded"
    /\ c.status = "killed" => c.nodes[1] # "succeeded"
    /\ c.status \in {"goal_reached", "failed", "timed_out"} =>
          c.nodes[Cleanup] # "pending" \/ c.revision = 1

\* A checkpoint that is in the ledger.
Stored(c) == c.revision + 1 \in 1..Len(log) /\ log[c.revision + 1] = c

\* Revisions count the checkpoints, only the last one ends the chain, and what
\* one records the last one records too.
LogOK ==
    \A i \in 1..Len(log) :
        /\ log[i].revision = i - 1
        /\ CheckpointOK(log[i])
        /\ i < Len(log) => log[i].status \notin Terminal
        /\ \A a \in Actions : log[i].nodes[a] # "pending" => Latest.nodes[a] = log[i].nodes[a]

EverActive == \E i \in 1..Len(log) : log[i].status \in Active

\* A checkpoint that lets the adapter be called for the action.
InTurn(a) ==
    \E i \in 1..Len(log) :
        \/ \A b \in 1..(a - 1) : log[i].nodes[b] = "succeeded"
        \/ a = Cleanup /\ log[i].status = "cleanup_required"

Allowed(a) == [action |-> a, decision |-> "allowed"] \in audits

RowsOK ==
    /\ ReservedFirst /\ LedgerAgrees
    /\ \A a \in Actions :
          /\ rows[a] # None => EverActive
          /\ rows[a] # None /\ rows[a].state = "completed" => ran[a] # <<>>
          /\ ran[a] # <<>> => Allowed(a) /\ InTurn(a)

\* The adapter was called for attempts that were claimed, once each; the
\* attempts under way are claimed, not yet in the history, and different.
RunsOK ==
    /\ AttemptsOnce
    /\ \A a \in Actions : \A j \in 1..Len(ran[a]) :
          rows[a] # None /\ ran[a][j] <= rows[a].attempt
    /\ \A p \in Procs : pc[p] = "run" =>
          /\ rows[call[p].action] # None
          /\ call[p].attempt <= rows[call[p].action].attempt
          /\ \A j \in 1..Len(ran[call[p].action]) : ran[call[p].action][j] # call[p].attempt
          /\ \A q \in Procs \ {p} :
                pc[q] = "run" /\ call[q].action = call[p].action =>
                    call[q].attempt # call[p].attempt

Executing == {"preflight", "authorize", "allow", "claim", "run"}
Admitted == {"authorize", "allow", "claim", "run"}
Deciding == {"assert", "write"}

\* What a call is about to write, n, follows from the checkpoint s it has read.
Decided(k, s, n) ==
    /\ n \in Checkpoint /\ CheckpointOK(n)
    /\ n.revision = s.revision + 1
    /\ s.status \notin Terminal
    /\ k.kind # "execute" => n.nodes = s.nodes
    /\ k.kind # "stop" => n.status # "killed"
    /\ k.kind # "create" => k.action \in Actions
    /\ k.kind = "execute" =>
          /\ k.outcome \in Results /\ s.nodes[k.action] = "pending"
          /\ n.nodes = [s.nodes EXCEPT ![k.action] = k.outcome]
          /\ ran[k.action] # <<>>

\* What a call k relies on at step t.
Fits(t, k, s, n) ==
    /\ t # "idle" => k \in Call
    /\ t \in {"reserve", "store"} => k.kind = "create"
    /\ t = "store" => reserved
    /\ t \in Executing \cup Deciding => Stored(s)
    /\ t \in Executing =>
          k.kind = "execute" /\ k.action \in Actions /\ s.nodes[k.action] = "pending"
    /\ t = "reject" => k.action \in Actions
    /\ t \in Admitted => Admissible(s, k)
    /\ t \in {"claim", "run"} => Allowed(k.action)
    /\ t \in Deciding => Decided(k, s, n)

CallOK(p) == Fits(pc[p], call[p], seen[p], next[p])

Inv ==
    /\ TypeOK /\ LogOK /\ RowsOK /\ RunsOK
    /\ \A p \in Procs : CallOK(p)

\* With one caller, no action is claimed between its look at the claims and
\* its decision to close the chain as killed.
OneCaller == \A p, q \in Procs : p = q

QuietStops ==
    OneCaller => \A p \in Procs :
        pc[p] \in Deciding /\ next[p].status = "killed" => Started = {}

-----------------------------------------------------------------------------
(* The graph and the transitions *)

LEMMA Graph ==
  /\ N \in Nat /\ N >= 3 /\ Cleanup = N
  /\ Objective \in Actions /\ Objective # Cleanup
  /\ 1 \in Actions /\ 1 # Cleanup /\ Cleanup \in Actions
  /\ IsFiniteSet(Actions)
<1>1. N \in Nat /\ N >= 3 /\ Objective \in 2..(N - 1) BY ChainConstants
<1>2. IsFiniteSet(1..N) BY <1>1, FS_Interval
<1> QED BY <1>1, <1>2 DEF Actions, Cleanup

LEMMA Nodes ==
  ASSUME NEW c \in Checkpoint
  PROVE  /\ c.revision \in Nat /\ c.status \in Statuses /\ c.failures \in Nat
         /\ c.objective \in BOOLEAN /\ c.deferred \in Results \cup {None}
         /\ c.nodes \in [Actions -> {"pending"} \cup Results]
         /\ \A a \in Actions : c.nodes[a] \in {"pending", "succeeded", "failed", "timed_out"}
         /\ IsFiniteSet(Failed(c)) /\ Cardinality(Failed(c)) \in Nat
<1>1. c.nodes \in [Actions -> {"pending"} \cup Results] BY DEF Checkpoint
<1>2. IsFiniteSet(Failed(c)) BY Graph, FS_Subset DEF Failed
<1>3. Cardinality(Failed(c)) \in Nat BY <1>2, FS_CardinalityType
<1> QED BY <1>1, <1>2, <1>3 DEF Checkpoint, Results

LEMMA PlannedOK == PlannedCheckpoint \in Checkpoint /\ CheckpointOK(PlannedCheckpoint)
                   /\ PlannedCheckpoint.revision = 0 /\ PlannedCheckpoint.status = "planned"
                   /\ \A a \in Actions : PlannedCheckpoint.nodes[a] = "pending"
<1> DEFINE c == PlannedCheckpoint
<1>1. /\ c.revision = 0 /\ c.status = "planned" /\ c.objective = FALSE
      /\ c.deferred = None /\ c.failures = 0
      /\ c.nodes = [a \in Actions |-> "pending"]
  BY DEF PlannedCheckpoint
<1>2. c \in Checkpoint BY DEF PlannedCheckpoint, Checkpoint, Statuses
<1>3. \A a \in Actions : c.nodes[a] = "pending" BY <1>1
<1>4. Failed(c) = {} BY <1>3 DEF Failed
<1>5. Cardinality(Failed(c)) = 0 BY <1>4, FS_EmptySet
<1> HIDE DEF c
<1>6. CheckpointOK(c) BY <1>1, <1>3, <1>5, Graph DEF CheckpointOK, Active
<1> QED BY <1>1, <1>2, <1>3, <1>6 DEF c

\* A new revision of a checkpoint with another status and deferred outcome.
LEMMA NextOf ==
  ASSUME NEW c \in Checkpoint, NEW s \in Statuses, NEW d \in Results \cup {None}
  PROVE  LET r == [NextCheckpoint(c, s) EXCEPT !.deferred = d] IN
         /\ NextCheckpoint(c, s) \in Checkpoint /\ r \in Checkpoint
         /\ \A x \in {NextCheckpoint(c, s), r} :
               /\ x.revision = c.revision + 1 /\ x.status = s
               /\ x.nodes = c.nodes /\ x.objective = c.objective /\ x.failures = c.failures
               /\ Failed(x) = Failed(c)
         /\ NextCheckpoint(c, s).deferred = c.deferred /\ r.deferred = d
<1> DEFINE m == NextCheckpoint(c, s)
           r == [m EXCEPT !.deferred = d]
<1> DEFINE n == c.revision + 1
<1>0. n \in Nat /\ m = [c EXCEPT !.revision = n, !.status = s] BY Nodes DEF NextCheckpoint
<1> HIDE DEF m, n
<1>1. /\ m \in Checkpoint
      /\ m.revision = n /\ m.status = s /\ m.nodes = c.nodes
      /\ m.objective = c.objective /\ m.failures = c.failures /\ m.deferred = c.deferred
  BY <1>0 DEF Checkpoint
<1>2. /\ r \in Checkpoint
      /\ r.revision = m.revision /\ r.status = m.status /\ r.nodes = m.nodes
      /\ r.objective = m.objective /\ r.failures = m.failures /\ r.deferred = d
  BY <1>1 DEF Checkpoint
<1> HIDE DEF r
<1>3. Failed(m) = Failed(c) /\ Failed(r) = Failed(c) BY <1>1, <1>2 DEF Failed
<1> QED BY <1>1, <1>2, <1>3 DEF m, n, r

LEMMA StartOK ==
  ASSUME NEW c \in Checkpoint, CheckpointOK(c), c.status = "planned", NEW now
  PROVE  LET r == start_attack_chain(c, now) IN
         /\ r \in Checkpoint /\ CheckpointOK(r) /\ r.revision = c.revision + 1
         /\ r.nodes = c.nodes /\ r.status # "killed"
<1> PICK s \in {"timed_out", "running"} : start_attack_chain(c, now) = NextCheckpoint(c, s)
  BY DEF start_attack_chain
<1> DEFINE r == NextCheckpoint(c, s)
<1>1. /\ r \in Checkpoint /\ r.revision = c.revision + 1 /\ r.status = s /\ r.nodes = c.nodes
      /\ r.objective = c.objective /\ r.failures = c.failures /\ r.deferred = c.deferred
      /\ Failed(r) = Failed(c)
  <2>1. s \in Statuses /\ None \in Results \cup {None} BY DEF Statuses, Active, Terminal
  <2> QED BY <2>1, NextOf
<1> HIDE DEF r
<1>2. c.revision = 0 BY DEF CheckpointOK
<1>3. CheckpointOK(r) BY <1>1, <1>2, Graph DEF CheckpointOK, Active
<1> QED BY <1>1, <1>3 DEF r

LEMMA StopOK ==
  ASSUME NEW c \in Checkpoint, CheckpointOK(c), c.status \in Active,
         NEW required \in BOOLEAN, c.nodes[1] = "succeeded" => required
  PROVE  LET r == stop_attack_chain(c, required) IN
         /\ r \in Checkpoint /\ CheckpointOK(r) /\ r.revision = c.revision + 1
         /\ r.nodes = c.nodes /\ (r.status = "killed" => ~ required)
<1> PICK s \in {"cleanup_required", "killed"}, d \in Results \cup {None} :
        /\ stop_attack_chain(c, required) = [NextCheckpoint(c, s) EXCEPT !.deferred = d]
        /\ s = "cleanup_required" <=> d # None
        /\ s = "killed" => ~ required
  BY NoneIsNothing DEF stop_attack_chain, Results
<1> DEFINE r == [NextCheckpoint(c, s) EXCEPT !.deferred = d]
<1>1. /\ r \in Checkpoint /\ r.revision = c.revision + 1 /\ r.status = s /\ r.nodes = c.nodes
      /\ r.objective = c.objective /\ r.failures = c.failures /\ r.deferred = d
      /\ Failed(r) = Failed(c)
  BY NextOf DEF Statuses, Active, Terminal
<1> HIDE DEF r
<1>2. c.revision \in Nat BY Nodes
<1>3. CheckpointOK(r)
  BY <1>1, <1>2, Graph DEF CheckpointOK, Active
<1> QED BY <1>1, <1>3 DEF r

\* The fields of the checkpoint that records an observation.
LEMMA RecordFields ==
  ASSUME NEW c \in Checkpoint, NEW a \in Actions, NEW o \in Results
  PROVE  LET r == record_attack_observation(c, a, o) IN
         /\ r \in Checkpoint
         /\ r.revision = c.revision + 1 /\ r.status = StatusAfter(c, a, o)
         /\ r.nodes = [c.nodes EXCEPT ![a] = o]
         /\ r.failures = IF o = "succeeded" THEN c.failures ELSE c.failures + 1
         /\ r.objective = (c.objective \/ (a = Objective /\ o = "succeeded"))
         /\ r.deferred = IF a = Cleanup THEN None
                         ELSE IF o = "succeeded" THEN c.deferred ELSE o
<1> DEFINE m == NextCheckpoint(c, StatusAfter(c, a, o))
           f == IF o = "succeeded" THEN c.failures ELSE c.failures + 1
           b == c.objective \/ (a = Objective /\ o = "succeeded")
           d == IF a = Cleanup THEN None ELSE IF o = "succeeded" THEN c.deferred ELSE o
           r == [m EXCEPT !.nodes[a] = o, !.failures = f, !.objective = b, !.deferred = d]
<1>1. StatusAfter(c, a, o) \in Statuses BY DEF StatusAfter, Statuses, Active, Terminal
<1>2. /\ m \in Checkpoint /\ m.revision = c.revision + 1 /\ m.status = StatusAfter(c, a, o)
      /\ m.nodes = c.nodes
  BY <1>1, NextOf
<1>3. f \in Nat /\ b \in BOOLEAN /\ d \in Results \cup {None} BY Nodes
<1>4. record_attack_observation(c, a, o) = r
  BY <1>2, NextOf, <1>1 DEF record_attack_observation, NextCheckpoint
<1> HIDE DEF m, f, b, d
<1>5. /\ r \in Checkpoint /\ r.revision = m.revision /\ r.status = m.status
      /\ r.nodes = [m.nodes EXCEPT ![a] = o]
      /\ r.failures = f /\ r.objective = b /\ r.deferred = d
  BY <1>2, <1>3 DEF Checkpoint
<1> HIDE DEF r
<1> QED BY <1>2, <1>4, <1>5 DEF f, b, d

\* An admitted action that is pending is recorded as the readers ask for.
LEMMA RecordOK ==
  ASSUME NEW c \in Checkpoint, CheckpointOK(c), NEW k, NEW a \in Actions, k.action = a,
         Admissible(c, k), c.nodes[a] = "pending", NEW o \in Results
  PROVE  LET r == record_attack_observation(c, a, o) IN
         /\ r \in Checkpoint /\ CheckpointOK(r) /\ r.revision = c.revision + 1
         /\ r.nodes = [c.nodes EXCEPT ![a] = o] /\ r.status # "killed"
<1> DEFINE r == record_attack_observation(c, a, o)
<1>1. /\ r \in Checkpoint
      /\ r.revision = c.revision + 1 /\ r.status = StatusAfter(c, a, o)
      /\ r.nodes = [c.nodes EXCEPT ![a] = o]
      /\ r.failures = IF o = "succeeded" THEN c.failures ELSE c.failures + 1
      /\ r.objective = (c.objective \/ (a = Objective /\ o = "succeeded"))
      /\ r.deferred = IF a = Cleanup THEN None ELSE IF o = "succeeded" THEN c.deferred ELSE o
  BY RecordFields
<1> HIDE DEF r
<1>2. /\ c.status \in Active /\ c.status \in {"running", "cleanup_required"}
      /\ c.status = "cleanup_required" => a = Cleanup
      /\ c.status = "running" => \A b \in 1..(a - 1) : c.nodes[b] # "pending"
  BY DEF Admissible, Active
<1>3. /\ r.nodes[a] = o
      /\ \A b \in Actions : b # a => r.nodes[b] = c.nodes[b]
      /\ c.revision \in Nat /\ c.failures \in Nat
  BY <1>1, Nodes
<1>4. r.failures = Cardinality(Failed(r))
  <2>1. c.failures = Cardinality(Failed(c)) /\ IsFiniteSet(Failed(c)) BY Nodes DEF CheckpointOK
  <2>2. CASE o = "succeeded"
    <3>1. Failed(r) = Failed(c) BY <1>3, <2>2 DEF Failed
    <3> QED BY <1>1, <2>1, <2>2, <3>1
  <2>3. CASE o # "succeeded"
    <3>1. Failed(r) = Failed(c) \cup {a} BY <1>3, <2>3 DEF Failed, Results
    <3>2. a \notin Failed(c) BY DEF Failed
    <3>3. Cardinality(Failed(c) \cup {a}) = Cardinality(Failed(c)) + 1
      BY <2>1, <3>2, FS_AddElement
    <3>4. r.failures = c.failures + 1 BY <1>1, <2>3
    <3> QED BY <2>1, <3>1, <3>3, <3>4
  <2> QED BY <2>2, <2>3
<1>5. r.objective = TRUE <=> r.nodes[Objective] = "succeeded"
  <2>1. c.objective = TRUE <=> c.nodes[Objective] = "succeeded" BY DEF CheckpointOK
  <2>2. c.objective \in BOOLEAN /\ Objective \in Actions BY Nodes, Graph
  <2>3. CASE a = Objective
    <3>1. c.objective = FALSE BY <2>1, <2>2, <2>3
    <3> QED BY <1>1, <1>3, <2>2, <2>3, <3>1
  <2>4. CASE a # Objective
    BY <1>1, <1>3, <2>1, <2>2, <2>4
  <2> QED BY <2>3, <2>4
<1>6. CASE a # Cleanup
  <2>1. /\ c.status = "running" /\ c.deferred = None /\ c.nodes[Cleanup] = "pending"
        /\ \A b \in Actions : c.nodes[b] \in {"pending", "succeeded"}
    BY <1>2, <1>6, NoneIsNothing DEF CheckpointOK
  <2>2. r.status = IF o = "succeeded" THEN "running" ELSE "cleanup_required"
    BY <1>1, <1>6 DEF StatusAfter
  <2>3. r.deferred = IF o = "succeeded" THEN None ELSE o BY <1>1, <1>6, <2>1
  <2>4. r.status = "cleanup_required" <=> r.deferred # None
    BY <2>2, <2>3, NoneIsNothing
  <2>5. r.nodes[Cleanup] = "pending" BY <1>3, <1>6, <2>1, Graph
  <2>6. r.status = "running" => \A b \in Actions : r.nodes[b] \in {"pending", "succeeded"}
    BY <1>3, <2>1, <2>2
  <2>7. r.revision # 0 /\ r.status \in {"running", "cleanup_required"} BY <1>1, <1>3, <2>2
  <2>8. CheckpointOK(r)
    BY <1>4, <1>5, <2>4, <2>5, <2>6, <2>7 DEF CheckpointOK
  <2> QED BY <1>1, <2>7, <2>8 DEF r
<1>7. CASE a = Cleanup
  <2>1. r.status \in {"failed", "goal_reached", "timed_out"} /\ r.deferred = None
    BY <1>1, <1>7 DEF StatusAfter
  <2>2. r.nodes[Cleanup] # "pending" BY <1>3, <1>7 DEF Results
  <2>3. ASSUME r.status = "goal_reached", NEW b \in Actions PROVE r.nodes[b] = "succeeded"
    <3>1. o = "succeeded" /\ c.deferred = None BY <1>1, <1>7, <2>3 DEF StatusAfter
    <3>2. c.status = "running" BY <1>2, <3>1, NoneIsNothing DEF CheckpointOK
    <3>3. c.nodes[b] \in {"pending", "succeeded"} BY <3>2 DEF CheckpointOK
    <3>4. CASE b = a BY <1>3, <3>1, <3>4
    <3>5. CASE b # a
      <4>1. b \in 1..(a - 1) BY <1>7, <3>5, Graph DEF Actions
      <4> QED BY <1>2, <1>3, <3>2, <3>3, <3>5, <4>1
    <3> QED BY <3>4, <3>5
  <2>4. r.revision # 0 BY <1>1, <1>3
  <2>5. CheckpointOK(r)
    BY <1>4, <1>5, <2>1, <2>2, <2>3, <2>4 DEF CheckpointOK, Active
  <2> QED BY <1>1, <2>1, <2>5 DEF r
<1> QED BY <1>6, <1>7

-----------------------------------------------------------------------------
(* The ledger *)

LEMMA LogTypes ==
  ASSUME Inv
  PROVE  /\ log \in Seq(Checkpoint) /\ Len(log) \in Nat
         /\ \A i \in 1..Len(log) : log[i] \in Checkpoint
         /\ Exists <=> Len(log) # 0
         /\ Exists => /\ Len(log) \in 1..Len(log) /\ Latest \in Checkpoint
                      /\ CheckpointOK(Latest) /\ Latest.revision = Len(log) - 1 /\ Stored(Latest)
<1>1. log \in Seq(Checkpoint) BY DEF Inv, TypeOK
<1>2. Len(log) \in Nat /\ \A i \in 1..Len(log) : log[i] \in Checkpoint BY <1>1, ElementOfSeq
<1>3. Exists <=> Len(log) # 0 BY <1>1, EmptySeq DEF Exists
<1>4. Exists => Len(log) \in 1..Len(log) BY <1>2, <1>3
<1>5. Exists => Latest \in Checkpoint BY <1>2, <1>4 DEF Latest
<1>6. Exists => CheckpointOK(Latest) /\ Latest.revision = Len(log) - 1
  BY <1>4 DEF Inv, LogOK, Latest
<1>7. Exists => Stored(Latest)
  <2> SUFFICES ASSUME Exists PROVE Stored(Latest) OBVIOUS
  <2>1. Latest.revision + 1 = Len(log) BY <1>2, <1>6
  <2> QED BY <1>4, <2>1 DEF Stored, Latest
<1> QED BY <1>1, <1>2, <1>3, <1>4, <1>5, <1>6, <1>7

\* A checkpoint of the ledger, as a reader finds it.
LEMMA StoredTypes ==
  ASSUME Inv, NEW c, Stored(c)
  PROVE  /\ c \in Checkpoint /\ CheckpointOK(c) /\ Exists
         /\ c.revision + 1 \in 1..Len(log) /\ c = log[c.revision + 1]
         /\ \A a \in Actions : c.nodes[a] # "pending" => Latest.nodes[a] = c.nodes[a]
<1>1. c.revision + 1 \in 1..Len(log) /\ c = log[c.revision + 1] BY DEF Stored
<1>2. c \in Checkpoint /\ Exists BY <1>1, LogTypes
<1>3. CheckpointOK(c) /\ \A a \in Actions : c.nodes[a] # "pending" => Latest.nodes[a] = c.nodes[a]
  BY <1>1 DEF Inv, LogOK
<1> QED BY <1>1, <1>2, <1>3

\* The primary key: a revision that is free is one after the latest, so nobody
\* wrote since the call read the chain.
LEMMA FreeIsNext ==
  ASSUME Inv, NEW c, Stored(c), NEW d, d.revision = c.revision + 1, RevisionFree(d)
  PROVE  c = Latest /\ d.revision = Len(log)
<1> DEFINE i == c.revision + 1
<1>1. i \in 1..Len(log) /\ c = log[i] /\ Len(log) \in Nat BY StoredTypes, LogTypes
<1>2. i = Len(log)
  <2> SUFFICES ASSUME i # Len(log) PROVE FALSE OBVIOUS
  <2> HIDE DEF i
  <2>1. i + 1 \in 1..Len(log) BY <1>1
  <2>2. log[i + 1].revision = (i + 1) - 1 BY <2>1 DEF Inv, LogOK
  <2>3. log[i + 1].revision = d.revision BY <1>1, <2>2 DEF i
  <2> QED BY <2>1, <2>3 DEF RevisionFree
<1> QED BY <1>1, <1>2 DEF Latest

LEMMA Appended ==
  ASSUME Inv, NEW d \in Checkpoint, log' = Append(log, d)
  PROVE  /\ log' \in Seq(Checkpoint) /\ Len(log') = Len(log) + 1 /\ Exists'
         /\ Latest' = d /\ log'[Len(log) + 1] = d
         /\ \A i \in 1..Len(log) : log'[i] = log[i]
<1>1. log \in Seq(Checkpoint) /\ Len(log) \in Nat BY LogTypes
<1>2. /\ log' \in Seq(Checkpoint) /\ Len(log') = Len(log) + 1
      /\ \A i \in 1..Len(log) : log'[i] = log[i]
      /\ log'[Len(log) + 1] = d
  BY <1>1, AppendProperties
<1>3. log' # <<>> BY <1>1, <1>2
<1> QED BY <1>2, <1>3 DEF Exists, Latest

\* A checkpoint after the latest, which it does not contradict, keeps the log.
LEMMA LogGrows ==
  ASSUME Inv, NEW d \in Checkpoint, log' = Append(log, d), CheckpointOK(d),
         d.revision = Len(log),
         Exists => /\ Latest.status \notin Terminal
                   /\ \A a \in Actions : Latest.nodes[a] # "pending" => d.nodes[a] = Latest.nodes[a]
  PROVE  LogOK'
<1>1. /\ Len(log) \in Nat /\ Len(log') = Len(log) + 1 /\ Latest' = d /\ log'[Len(log) + 1] = d
      /\ \A i \in 1..Len(log) : log'[i] = log[i]
  BY Appended, LogTypes
<1> SUFFICES ASSUME NEW i \in 1..Len(log')
             PROVE  /\ log'[i].revision = i - 1
                    /\ CheckpointOK(log'[i])
                    /\ i < Len(log') => log'[i].status \notin Terminal
                    /\ \A a \in Actions : log'[i].nodes[a] # "pending" =>
                          Latest'.nodes[a] = log'[i].nodes[a]
  BY DEF LogOK, CheckpointOK, Failed
<1>2. CASE i = Len(log) + 1 BY <1>1, <1>2
<1>3. CASE i \in 1..Len(log)
  <2>1. /\ log[i].revision = i - 1 /\ CheckpointOK(log[i])
        /\ i < Len(log) => log[i].status \notin Terminal
        /\ \A a \in Actions : log[i].nodes[a] # "pending" => Latest.nodes[a] = log[i].nodes[a]
    BY <1>3 DEF Inv, LogOK
  <2>2. Exists BY <1>1, <1>3, LogTypes
  <2>3. log[i].status \notin Terminal
    <3>1. i = Len(log) => log[i].status \notin Terminal BY <2>2 DEF Latest
    <3> QED BY <1>1, <1>3, <2>1, <3>1
  <2> QED BY <1>1, <1>3, <2>1, <2>2, <2>3
<1> QED BY <1>1, <1>2, <1>3

-----------------------------------------------------------------------------
(* Steps *)

LocalTypes ==
    /\ pc \in [Procs -> PCs] /\ call \in [Procs -> Call \cup {None}]
    /\ seen \in [Procs -> Checkpoint \cup {None}] /\ next \in [Procs -> Checkpoint \cup {None}]

OtherTypes ==
    /\ flow \in Flow!States /\ scopeLive \in BOOLEAN /\ clock \in Nat /\ crashes \in Nat
    /\ changed \in BOOLEAN

LedgerTypes ==
    /\ log \in Seq(Checkpoint) /\ rows \in [Actions -> Row \cup {None}]
    /\ audits \subseteq AuditRecord /\ reserved \in BOOLEAN
    /\ ran \in [Actions -> Seq(1..MaxAttempts)]

LEMMA Types == TypeOK <=> LocalTypes /\ OtherTypes /\ LedgerTypes
  BY DEF TypeOK, LocalTypes, OtherTypes, LedgerTypes

\* A call's step: where it goes and what it holds then.
Moves(p, t, k, s, n) ==
    /\ pc'[p] = t /\ call'[p] = k /\ seen'[p] = s /\ next'[p] = n
    /\ \A q \in Procs \ {p} : /\ pc'[q] = pc[q] /\ call'[q] = call[q]
                              /\ seen'[q] = seen[q] /\ next'[q] = next[q]

LEMMA Moving ==
  ASSUME Inv, NEW p \in Procs, NEW t \in PCs, NEW k \in Call \cup {None},
         NEW s \in Checkpoint \cup {None}, NEW n \in Checkpoint \cup {None},
         pc' = [pc EXCEPT ![p] = t], call' = [call EXCEPT ![p] = k],
         seen' = [seen EXCEPT ![p] = s], next' = [next EXCEPT ![p] = n]
  PROVE  Moves(p, t, k, s, n) /\ LocalTypes'
<1>1. LocalTypes BY Types DEF Inv
<1>2. pc' \in [Procs -> PCs] /\ pc'[p] = t /\ \A q \in Procs \ {p} : pc'[q] = pc[q]
  BY <1>1 DEF LocalTypes
<1>3. /\ call' \in [Procs -> Call \cup {None}] /\ call'[p] = k
      /\ \A q \in Procs \ {p} : call'[q] = call[q]
  BY <1>1 DEF LocalTypes
<1>4. /\ seen' \in [Procs -> Checkpoint \cup {None}] /\ seen'[p] = s
      /\ \A q \in Procs \ {p} : seen'[q] = seen[q]
  BY <1>1 DEF LocalTypes
<1>5. /\ next' \in [Procs -> Checkpoint \cup {None}] /\ next'[p] = n
      /\ \A q \in Procs \ {p} : next'[q] = next[q]
  BY <1>1 DEF LocalTypes
<1> QED BY <1>2, <1>3, <1>4, <1>5 DEF Moves, LocalTypes

LEMMA Locals ==
  ASSUME Inv, NEW p \in Procs
  PROVE  /\ pc[p] \in PCs /\ call[p] \in Call \cup {None}
         /\ seen[p] \in Checkpoint \cup {None} /\ next[p] \in Checkpoint \cup {None}
         /\ pc = [pc EXCEPT ![p] = pc[p]] /\ call = [call EXCEPT ![p] = call[p]]
         /\ seen = [seen EXCEPT ![p] = seen[p]] /\ next = [next EXCEPT ![p] = next[p]]
  BY DEF Inv, TypeOK

\* A step that only goes on in its call.
LEMMA Going ==
  ASSUME Inv, NEW p \in Procs, NEW t \in PCs, Goto(p, t), UNCHANGED <<call, seen, next>>
  PROVE  Moves(p, t, call[p], seen[p], next[p]) /\ LocalTypes'
<1>1. LocalTypes BY Types DEF Inv
<1>2. pc' \in [Procs -> PCs] /\ pc'[p] = t /\ \A q \in Procs \ {p} : pc'[q] = pc[q]
  BY <1>1 DEF LocalTypes, Goto
<1> QED BY <1>1, <1>2 DEF Moves, LocalTypes

LEMMA Leaving ==
  ASSUME Inv, NEW p \in Procs, Leave(p)
  PROVE  Moves(p, "idle", None, None, None) /\ LocalTypes'
<1>1. "idle" \in PCs BY DEF PCs
<1> QED BY <1>1, Moving DEF Leave, Goto, Hold

\* What the ledgers and histories never lose.
Grows ==
    /\ Len(log) <= Len(log') /\ Len(log') \in Nat
    /\ \A i \in 1..Len(log) : log'[i] = log[i]
    /\ reserved => reserved'
    /\ audits \subseteq audits'
    /\ \A a \in Actions : ran[a] # <<>> => ran'[a] # <<>>

LEMMA StoredStays ==
  ASSUME Inv, Grows, NEW c, Stored(c)
  PROVE  Stored(c)'
<1>1. Len(log) \in Nat BY LogTypes
<1> QED BY <1>1 DEF Grows, Stored

LEMMA FitsStays ==
  ASSUME Inv, Grows, NEW t, NEW k, NEW s, NEW n, Fits(t, k, s, n)
  PROVE  Fits(t, k, s, n)'
<1>1. Stored(s) => Stored(s)' BY StoredStays
<1>2. Allowed(k.action) => Allowed(k.action)' BY DEF Grows, Allowed
<1>3. reserved => reserved' BY DEF Grows
<1>4. Decided(k, s, n) => Decided(k, s, n)'
  BY DEF Grows, Decided, CheckpointOK, Failed
<1>5. t \in Deciding /\ k \in Call => Stored(s) BY DEF Fits
<1> QED BY <1>1, <1>2, <1>3, <1>4 DEF Fits, Admissible

LEMMA CallNow ==
  ASSUME NEW p \in Procs, NEW t, NEW k, NEW s, NEW n, Moves(p, t, k, s, n), Fits(t, k, s, n)'
  PROVE  CallOK(p)'
<1>1. pc'[p] = t /\ call'[p] = k /\ seen'[p] = s /\ next'[p] = n BY DEF Moves
<1> QED BY <1>1 DEF CallOK, Fits, Stored, Allowed, Admissible, Decided, CheckpointOK, Failed

LEMMA OthersOK ==
  ASSUME Inv, Grows, NEW p \in Procs, NEW t, NEW k, NEW s, NEW n, Moves(p, t, k, s, n),
         NEW q \in Procs \ {p}
  PROVE  CallOK(q)'
<1> PICK u, l, r, m : u = pc[q] /\ l = call[q] /\ r = seen[q] /\ m = next[q] OBVIOUS
<1>1. Fits(u, l, r, m) BY DEF Inv, CallOK
<1>2. Fits(u, l, r, m)' BY <1>1, FitsStays
<1>3. pc'[q] = u /\ call'[q] = l /\ seen'[q] = r /\ next'[q] = m BY DEF Moves
<1> QED BY <1>2, <1>3 DEF CallOK, Fits, Stored, Allowed, Admissible, Decided, CheckpointOK, Failed

LEMMA StepInv ==
  ASSUME Inv, Grows, NEW p \in Procs, NEW t, NEW k, NEW s, NEW n, Moves(p, t, k, s, n),
         Fits(t, k, s, n)', LocalTypes', OtherTypes', LedgerTypes', LogOK', RowsOK', RunsOK'
  PROVE  Inv'
<1>1. \A q \in Procs : CallOK(q)' BY CallNow, OthersOK
<1>2. TypeOK' BY DEF TypeOK, LocalTypes, OtherTypes, LedgerTypes
<1> QED BY <1>1, <1>2 DEF Inv

-----------------------------------------------------------------------------
(* Steps that write nothing the invariant is about *)

LEMMA LogStays ==
  ASSUME Inv, UNCHANGED log
  PROVE  LogOK'
<1>1. log' = log /\ Latest' = Latest BY DEF Latest
<1>2. \A i \in 1..Len(log) :
          /\ log[i].revision = i - 1 /\ CheckpointOK(log[i])
          /\ i < Len(log) => log[i].status \notin Terminal
          /\ \A a \in Actions : log[i].nodes[a] # "pending" => Latest.nodes[a] = log[i].nodes[a]
  BY DEF Inv, LogOK
<1> SUFFICES ASSUME NEW i \in 1..Len(log')
             PROVE  /\ log'[i].revision = i - 1
                    /\ CheckpointOK(log'[i])
                    /\ i < Len(log') => log'[i].status \notin Terminal
                    /\ \A a \in Actions : log'[i].nodes[a] # "pending" =>
                          Latest'.nodes[a] = log'[i].nodes[a]
  BY DEF LogOK, CheckpointOK, Failed
<1> QED BY <1>1, <1>2

LEMMA EverStays ==
  ASSUME Inv, Grows
  PROVE  /\ EverActive => EverActive'
         /\ \A a \in Actions : /\ InTurn(a) => InTurn(a)'
                               /\ Allowed(a) => Allowed(a)'
<1>1. Len(log) \in Nat /\ \A i \in 1..Len(log) : i \in 1..Len(log') /\ log'[i] = log[i]
  BY LogTypes DEF Grows
<1>2. EverActive => EverActive' BY <1>1 DEF EverActive
<1>3. ASSUME NEW a \in Actions PROVE InTurn(a) => InTurn(a)'
  BY <1>1 DEF InTurn
<1>4. ASSUME NEW a \in Actions PROVE Allowed(a) => Allowed(a)'
  BY DEF Grows, Allowed
<1> QED BY <1>2, <1>3, <1>4

\* The adapter was not called, and no claim has another attempt.
LEMMA RunsStay ==
  ASSUME Inv, NEW p \in Procs, NEW t, NEW k, NEW s, NEW n, Moves(p, t, k, s, n), t # "run",
         UNCHANGED ran,
         \A a \in Actions : rows[a] # None => rows'[a] # None /\ rows'[a].attempt = rows[a].attempt
  PROVE  RunsOK'
<1>1. AttemptsOnce' BY DEF Inv, RunsOK, AttemptsOnce
<1>2. \A a \in Actions : \A j \in 1..Len(ran'[a]) :
          rows'[a] # None /\ ran'[a][j] <= rows'[a].attempt
  BY DEF Inv, RunsOK
<1>3. \A q \in Procs : pc'[q] = "run" => q # p /\ pc[q] = "run" /\ call'[q] = call[q]
  BY DEF Moves
<1>4. ASSUME NEW q \in Procs, pc'[q] = "run"
      PROVE  /\ rows'[call'[q].action] # None
             /\ call'[q].attempt <= rows'[call'[q].action].attempt
             /\ \A j \in 1..Len(ran'[call'[q].action]) :
                   ran'[call'[q].action][j] # call'[q].attempt
             /\ \A r \in Procs \ {q} :
                   pc'[r] = "run" /\ call'[r].action = call'[q].action =>
                       call'[r].attempt # call'[q].attempt
  <2>1. pc[q] = "run" /\ call'[q] = call[q] BY <1>3, <1>4
  <2>2. call[q].action \in Actions BY <2>1 DEF Inv, CallOK, Fits, Executing
  <2>3. /\ rows[call[q].action] # None
        /\ call[q].attempt <= rows[call[q].action].attempt
        /\ \A j \in 1..Len(ran[call[q].action]) : ran[call[q].action][j] # call[q].attempt
        /\ \A r \in Procs \ {q} :
              pc[r] = "run" /\ call[r].action = call[q].action => call[r].attempt # call[q].attempt
    BY <2>1 DEF Inv, RunsOK
  <2> QED BY <1>3, <2>1, <2>2, <2>3
<1> QED BY <1>1, <1>2, <1>4 DEF RunsOK

LEMMA RowsStay ==
  ASSUME Inv, Grows, UNCHANGED <<log, rows, ran>>
  PROVE  RowsOK'
<1>1. LedgerAgrees' BY DEF Inv, RowsOK, LedgerAgrees, Exists, Latest
<1>2. ReservedFirst' BY DEF Inv, RowsOK, ReservedFirst, Exists, Grows
<1>3. \A a \in Actions :
          /\ rows'[a] # None => EverActive'
          /\ rows'[a] # None /\ rows'[a].state = "completed" => ran'[a] # <<>>
          /\ ran'[a] # <<>> => Allowed(a)' /\ InTurn(a)'
  BY EverStays DEF Inv, RowsOK
<1> QED BY <1>1, <1>2, <1>3 DEF RowsOK

LEMMA LedgerStays ==
  ASSUME Inv, UNCHANGED <<log, rows, audits, reserved, ran>>
  PROVE  Grows /\ LedgerTypes' /\ LogOK' /\ RowsOK'
<1>1. Grows BY LogTypes DEF Grows
<1>2. LedgerTypes BY Types DEF Inv
<1>3. LedgerTypes' BY <1>2 DEF LedgerTypes
<1> QED BY <1>1, <1>3, LogStays, RowsStay

LEMMA QuietInv ==
  ASSUME Inv, NEW p \in Procs, NEW t, NEW k, NEW s, NEW n, Moves(p, t, k, s, n), t # "run",
         Fits(t, k, s, n), LocalTypes', OtherTypes',
         UNCHANGED <<log, rows, audits, reserved, ran>>
  PROVE  Inv'
<1>1. Grows /\ LedgerTypes' /\ LogOK' /\ RowsOK' BY LedgerStays
<1>2. RunsOK' BY RunsStay
<1>3. Fits(t, k, s, n)' BY <1>1, FitsStays
<1> QED BY <1>1, <1>2, <1>3, StepInv

LEMMA OthersStill ==
  ASSUME Inv, UNCHANGED <<parent, environment, history>>
  PROVE  OtherTypes'
<1>1. OtherTypes BY Types DEF Inv
<1> QED BY <1>1 DEF OtherTypes, parent, environment, history

LEMMA RefuseInv ==
  ASSUME Inv, NEW p \in Procs, Refuse(p)
  PROVE  Inv'
<1>1. /\ Leave(p) /\ UNCHANGED <<log, rows, audits, reserved, ran>>
      /\ UNCHANGED <<parent, environment, history>>
  BY DEF Refuse, ledger, parent, history
<1>2. Fits("idle", None, None, None) BY DEF Fits, Executing, Deciding, Admitted
<1> QED BY <1>1, <1>2, Leaving, OthersStill, QuietInv

\* A step of a call that leaves the ledgers and histories alone.
LEMMA StayInv ==
  ASSUME Inv, NEW p \in Procs, NEW t, NEW k, NEW s, NEW n, Moves(p, t, k, s, n), t # "run",
         Fits(t, k, s, n), LocalTypes', Stay
  PROVE  Inv'
<1>1. UNCHANGED <<log, rows, audits, reserved, ran>> /\ UNCHANGED <<parent, environment, history>>
  BY DEF Stay, ledger, parent, history
<1> QED BY <1>1, OthersStill, QuietInv

-----------------------------------------------------------------------------
(* The steps that read *)

\* What a call begins with.
Given(kind, a, b, n) ==
    [kind |-> kind, now |-> clock, live |-> scopeLive, action |-> a, base |-> b,
     attempt |-> n, outcome |-> None, abandon |-> FALSE]

LEMMA GivenTypes ==
  ASSUME Inv, NEW kind \in {"create", "execute", "stop"},
         NEW a \in Actions \cup {None}, NEW b \in Nat, NEW n \in 1..MaxAttempts
  PROVE  Given(kind, a, b, n) \in Call
<1>1. clock \in Nat /\ scopeLive \in BOOLEAN BY Types DEF Inv, OtherTypes
<1> QED BY <1>1 DEF Call, Given

LEMMA BeginCreateInv ==
  ASSUME Inv, NEW p \in Procs, BeginCreate(p)
  PROVE  Inv'
<1> DEFINE k == Given("create", None, 0, 1)
<1>1. /\ call' = [call EXCEPT ![p] = k] /\ pc' = [pc EXCEPT ![p] = "reserve"]
      /\ UNCHANGED <<seen, next>> /\ Stay
  BY DEF BeginCreate, Begin, Goto, Given
<1>2. 1 \in 1..MaxAttempts /\ 0 \in Nat /\ "reserve" \in PCs BY DEF MaxAttempts, PCs
<1>3. k \in Call /\ k.kind = "create" BY <1>2, GivenTypes DEF Given
<1> HIDE DEF k
<1> DEFINE s == seen[p]
           n == next[p]
<1>4. /\ s \in Checkpoint \cup {None} /\ n \in Checkpoint \cup {None}
      /\ seen' = [seen EXCEPT ![p] = s] /\ next' = [next EXCEPT ![p] = n]
  BY <1>1, Locals
<1> HIDE DEF s, n
<1>5. Moves(p, "reserve", k, s, n) /\ LocalTypes' BY <1>1, <1>2, <1>4, <1>3, Moving
<1>6. Fits("reserve", k, s, n) BY <1>3 DEF Fits, Executing, Deciding, Admitted
<1> QED BY <1>1, <1>5, <1>6, StayInv

LEMMA BeginExecuteInv ==
  ASSUME Inv, NEW p \in Procs, NEW a \in Actions, NEW n \in 1..MaxAttempts,
         BeginExecute(p, a, n)
  PROVE  Inv'
<1>1. /\ Exists /\ (rows[a] # None => rows[a].state # "completed")
      /\ Hold(p, Latest, None) /\ Stay
  BY DEF BeginExecute
<1> PICK b \in Bases(a) : Begin(p, "execute", "preflight", a, b, n) BY DEF BeginExecute
<1> DEFINE k == Given("execute", a, b, n)
<1>2. call' = [call EXCEPT ![p] = k] /\ pc' = [pc EXCEPT ![p] = "preflight"]
  BY DEF Begin, Goto, Given
<1>3. Latest \in Checkpoint /\ Stored(Latest) BY <1>1, LogTypes
<1>4. b \in Nat
  <2>1. rows[a] \in Row \cup {None} BY DEF Inv, TypeOK
  <2>2. Latest.revision \in Nat BY <1>3, Nodes
  <2> QED BY <2>1, <2>2 DEF Bases, Row
<1>5. "preflight" \in PCs /\ Latest \in Checkpoint \cup {None} BY <1>3 DEF PCs
<1>6. k \in Call /\ k.kind = "execute" /\ k.action = a BY <1>4, GivenTypes DEF Given
<1> HIDE DEF k
<1>7. Moves(p, "preflight", k, Latest, None) /\ LocalTypes'
  BY <1>1, <1>5, <1>2, <1>6, Moving DEF Hold
<1>8. Latest.nodes[a] = "pending"
  <2>1. Latest.nodes[a] \in {"pending"} \cup Results BY <1>3, Nodes DEF Results
  <2>2. LedgerAgrees BY DEF Inv, RowsOK
  <2> QED BY <1>1, <2>1, <2>2 DEF LedgerAgrees
<1>9. Fits("preflight", k, Latest, None)
  BY <1>3, <1>8, <1>6 DEF Fits, Executing, Deciding, Admitted
<1> QED BY <1>1, <1>7, <1>9, StayInv

LEMMA AssertLatestInv ==
  ASSUME Inv, NEW p \in Procs, AssertLatest(p)
  PROVE  Inv'
<1>1. CASE Latest = seen[p]
  <2> PICK k, s, n : k = call[p] /\ s = seen[p] /\ n = next[p] OBVIOUS
  <2>1. pc[p] = "assert" /\ Goto(p, "write") /\ UNCHANGED <<call, seen, next>> /\ Stay
    BY <1>1 DEF AssertLatest
  <2>2. "write" \in PCs BY DEF PCs
  <2>3. Moves(p, "write", k, s, n) /\ LocalTypes' BY <2>1, <2>2, Going
  <2>4. Fits("assert", k, s, n) BY <2>1 DEF Inv, CallOK
  <2>5. Fits("write", k, s, n) BY <2>4 DEF Fits, Executing, Deciding, Admitted
  <2> QED BY <2>1, <2>3, <2>5, StayInv
<1>2. CASE Latest # seen[p]
  <2>1. Refuse(p) BY <1>2 DEF AssertLatest
  <2> QED BY <2>1, RefuseInv
<1> QED BY <1>1, <1>2

\* The flow boundary is broken: what the call will write to stop the chain.
LEMMA PreflightStopsInv ==
  ASSUME Inv, NEW p \in Procs, PreflightStops(p)
  PROVE  Inv'
<1> PICK l, s : l = call[p] /\ s = seen[p] OBVIOUS
<1> DEFINE abandon == Started # {}
           required == ChangedTarget(s)
           n == stop_attack_chain(s, required)
           k == [l EXCEPT !.kind = "stop", !.abandon = abandon]
<1>1. /\ pc[p] = "preflight" /\ s.status \in Active /\ Stay
      /\ call' = [call EXCEPT ![p].kind = "stop", ![p].abandon = abandon]
      /\ seen' = [seen EXCEPT ![p] = s] /\ next' = [next EXCEPT ![p] = n]
      /\ pc' = [pc EXCEPT ![p] = "assert"]
  BY DEF PreflightStops, Hold, Goto
<1>2. Fits("preflight", l, s, next[p]) BY <1>1 DEF Inv, CallOK
<1>3. /\ l \in Call /\ Stored(s) /\ l.action \in Actions
  BY <1>2 DEF Fits, Executing
<1>4. s \in Checkpoint /\ CheckpointOK(s) BY <1>3, StoredTypes
<1>5. required \in BOOLEAN /\ (s.nodes[1] = "succeeded" => required) /\ abandon \in BOOLEAN
  BY DEF ChangedTarget
<1> HIDE DEF required, abandon
<1>6. /\ n \in Checkpoint /\ CheckpointOK(n) /\ n.revision = s.revision + 1
      /\ n.nodes = s.nodes
  BY <1>1, <1>4, <1>5, StopOK
<1> HIDE DEF n
<1>7. k \in Call /\ k.kind = "stop" /\ k.action = l.action BY <1>3, <1>5 DEF Call
<1>8. call' = [call EXCEPT ![p] = k]
  <2>1. call \in [Procs -> Call \cup {None}] BY DEF Inv, TypeOK
  <2> QED BY <1>1, <2>1
<1> HIDE DEF k
<1>9. "assert" \in PCs /\ k \in Call \cup {None} /\ s \in Checkpoint \cup {None}
      /\ n \in Checkpoint \cup {None}
  BY <1>4, <1>6, <1>7 DEF PCs
<1>10. Moves(p, "assert", k, s, n) /\ LocalTypes' BY <1>1, <1>8, <1>9, Moving
<1>11. Fits("assert", k, s, n)
  BY <1>1, <1>3, <1>6, <1>7 DEF Fits, Executing, Deciding, Admitted, Decided, Active, Terminal
<1> QED BY <1>1, <1>10, <1>11, StayInv

LEMMA PreflightInv ==
  ASSUME Inv, NEW p \in Procs, Preflight(p)
  PROVE  Inv'
<1> PICK k, s, n : k = call[p] /\ s = seen[p] /\ n = next[p] OBVIOUS
<1>1. pc[p] = "preflight" /\ UNCHANGED <<call, seen, next>> /\ Stay BY DEF Preflight
<1>2. Fits("preflight", k, s, n) BY <1>1 DEF Inv, CallOK
<1> PICK t \in {"authorize", "reject"} :
        Goto(p, t) /\ (t = "authorize" => Admissible(s, k))
  BY DEF Preflight
<1>3. t \in PCs BY DEF PCs
<1>4. Moves(p, t, k, s, n) /\ LocalTypes' BY <1>1, <1>3, Going
<1>5. Fits(t, k, s, n) BY <1>2 DEF Fits, Executing, Deciding, Admitted
<1> QED BY <1>1, <1>4, <1>5, StayInv

LEMMA AuthorizeInv ==
  ASSUME Inv, NEW p \in Procs, Authorize(p)
  PROVE  Inv'
<1> PICK k, s, n : k = call[p] /\ s = seen[p] /\ n = next[p] OBVIOUS
<1>1. pc[p] = "authorize" /\ UNCHANGED <<call, seen, next>> /\ Stay BY DEF Authorize
<1>2. Fits("authorize", k, s, n) BY <1>1 DEF Inv, CallOK
<1> PICK t \in {"allow", "reject"} : Goto(p, t) BY DEF Authorize
<1>3. t \in PCs BY DEF PCs
<1>4. Moves(p, t, k, s, n) /\ LocalTypes' BY <1>1, <1>3, Going
<1>5. Fits(t, k, s, n) BY <1>2 DEF Fits, Executing, Deciding, Admitted
<1> QED BY <1>1, <1>4, <1>5, StayInv

LEMMA CrashInv ==
  ASSUME Inv, NEW p \in Procs, Crash(p)
  PROVE  Inv'
<1>1. /\ Leave(p) /\ UNCHANGED <<log, rows, audits, reserved, ran>>
      /\ UNCHANGED <<flow, scopeLive, clock, changed>> /\ crashes' = crashes + 1
  BY DEF Crash, ledger, parent, history
<1>2. Fits("idle", None, None, None) BY DEF Fits, Executing, Deciding, Admitted
<1>3. OtherTypes BY Types DEF Inv
<1>4. OtherTypes' BY <1>1, <1>3 DEF OtherTypes
<1> QED BY <1>1, <1>2, <1>4, Leaving, QuietInv

\* The environment moves on, and no call does.
LEMMA OutsideInv ==
  ASSUME Inv, UNCHANGED <<log, rows, audits, reserved, ran>>, UNCHANGED <<pc, call, seen, next>>,
         OtherTypes'
  PROVE  Inv'
<1>1. Grows /\ LedgerTypes' /\ LogOK' /\ RowsOK' BY LedgerStays
<1>2. RunsOK' BY DEF Inv, RunsOK, AttemptsOnce
<1>3. ASSUME NEW q \in Procs PROVE CallOK(q)'
  <2> PICK t, k, s, n : t = pc[q] /\ k = call[q] /\ s = seen[q] /\ n = next[q] OBVIOUS
  <2>1. Fits(t, k, s, n) BY DEF Inv, CallOK
  <2>2. Fits(t, k, s, n)' BY <1>1, <2>1, FitsStays
  <2>3. Moves(q, t, k, s, n) BY DEF Moves
  <2> QED BY <2>2, <2>3, CallNow
<1>4. LocalTypes' BY Types DEF Inv, LocalTypes
<1>5. TypeOK' BY <1>1, <1>4 DEF TypeOK, LocalTypes, OtherTypes, LedgerTypes
<1> QED BY <1>1, <1>2, <1>3, <1>5 DEF Inv

-----------------------------------------------------------------------------
(* The steps that write *)

LEMMA ReserveInv ==
  ASSUME Inv, NEW p \in Procs, Reserve(p)
  PROVE  Inv'
<1> PICK k, s, n : k = call[p] /\ s = seen[p] /\ n = next[p] OBVIOUS
<1>1. /\ pc[p] = "reserve" /\ reserved' = TRUE /\ Goto(p, "store")
      /\ UNCHANGED <<call, seen, next>> /\ UNCHANGED <<log, rows, audits, ran>>
      /\ UNCHANGED <<flow, scopeLive, clock, crashes, changed>>
  BY DEF Reserve, ledger, environment, history
<1>2. Fits("reserve", k, s, n) BY <1>1 DEF Inv, CallOK
<1>3. "store" \in PCs BY DEF PCs
<1>4. Moves(p, "store", k, s, n) /\ LocalTypes' BY <1>1, <1>3, Going
<1>5. Grows BY <1>1, LogTypes DEF Grows
<1>6. LedgerTypes' /\ OtherTypes'
  <2>1. LedgerTypes /\ OtherTypes BY Types DEF Inv
  <2> QED BY <1>1, <2>1 DEF LedgerTypes, OtherTypes
<1>7. LogOK' /\ RowsOK' BY <1>1, <1>5, LogStays, RowsStay
<1>8. RunsOK' BY <1>1, <1>4, RunsStay
<1>9. Fits("reserve", k, s, n)' BY <1>2, <1>5, FitsStays
<1>10. Fits("store", k, s, n)' BY <1>1, <1>9 DEF Fits, Executing, Deciding, Admitted
<1> QED BY <1>4, <1>5, <1>6, <1>7, <1>8, <1>10, StepInv

\* An audit record is added.
LEMMA AuditInv ==
  ASSUME Inv, NEW p \in Procs, NEW t, t # "run", NEW k, NEW s, NEW n, Moves(p, t, k, s, n),
         LocalTypes', audits \subseteq audits', audits' \subseteq AuditRecord,
         UNCHANGED <<log, rows, reserved, ran>>, UNCHANGED <<parent, environment, history>>,
         Grows => Fits(t, k, s, n)'
  PROVE  Inv'
<1>1. Grows BY LogTypes DEF Grows
<1>2. LedgerTypes'
  <2>1. LedgerTypes BY Types DEF Inv
  <2> QED BY <2>1 DEF LedgerTypes
<1>3. LogOK' /\ RowsOK' BY <1>1, LogStays, RowsStay
<1>4. RunsOK' BY RunsStay
<1> QED BY <1>1, <1>2, <1>3, <1>4, OthersStill, StepInv

LEMMA AllowInv ==
  ASSUME Inv, NEW p \in Procs, Allow(p)
  PROVE  Inv'
<1> PICK k, s, n : k = call[p] /\ s = seen[p] /\ n = next[p] OBVIOUS
<1> DEFINE x == [action |-> k.action, decision |-> "allowed"]
<1>1. /\ pc[p] = "allow" /\ audits' = audits \cup {x} /\ Goto(p, "claim")
      /\ UNCHANGED <<call, seen, next>> /\ UNCHANGED <<log, rows, reserved, ran>>
      /\ UNCHANGED <<parent, environment, history>>
  BY DEF Allow, Audit, parent, history
<1>2. Fits("allow", k, s, n) BY <1>1 DEF Inv, CallOK
<1>3. k.action \in Actions /\ x \in AuditRecord BY <1>2 DEF Fits, Executing, AuditRecord
<1>4. audits' \subseteq AuditRecord BY <1>1, <1>3 DEF Inv, TypeOK
<1>5. Allowed(k.action)' BY <1>1 DEF Allowed
<1>6. Moves(p, "claim", k, s, n) /\ LocalTypes' BY <1>1, Going DEF PCs
<1>7. ASSUME Grows PROVE Fits("claim", k, s, n)'
  <2>1. Fits("allow", k, s, n)' BY <1>2, <1>7, FitsStays
  <2> QED BY <1>5, <2>1 DEF Fits, Executing, Deciding, Admitted
<1> QED BY <1>1, <1>4, <1>6, <1>7, AuditInv

LEMMA RejectInv ==
  ASSUME Inv, NEW p \in Procs, Reject(p)
  PROVE  Inv'
<1> DEFINE x == [action |-> call[p].action, decision |-> "rejected"]
<1>1. /\ pc[p] = "reject" /\ audits' = audits \cup {x} /\ Leave(p)
      /\ UNCHANGED <<log, rows, reserved, ran>> /\ UNCHANGED <<parent, environment, history>>
  BY DEF Reject, Audit, parent, history
<1>2. x \in AuditRecord BY <1>1 DEF Inv, CallOK, Fits, AuditRecord
<1>3. audits' \subseteq AuditRecord BY <1>1, <1>2 DEF Inv, TypeOK
<1>4. Moves(p, "idle", None, None, None) /\ LocalTypes' BY <1>1, Leaving
<1>5. Fits("idle", None, None, None)' BY DEF Fits, Executing, Deciding, Admitted
<1> QED BY <1>1, <1>3, <1>4, <1>5, AuditInv

\* A checkpoint is appended that records what the latest one does, and the
\* claims are left open or closed, but not completed.
LEMMA RowsGrow ==
  ASSUME Inv, NEW d \in Checkpoint, log' = Append(log, d), Grows, reserved',
         UNCHANGED ran,
         IF Exists THEN d.nodes = Latest.nodes ELSE \A a \in Actions : d.nodes[a] = "pending",
         \A a \in Actions :
            /\ rows'[a] # None <=> rows[a] # None
            /\ rows[a] # None => /\ rows'[a].outcome = rows[a].outcome
                                 /\ rows'[a].state = "completed" <=> rows[a].state = "completed"
  PROVE  RowsOK'
<1>1. Exists' /\ Latest' = d BY Appended
<1>2. ASSUME NEW a \in Actions, NEW o \in Results
      PROVE  d.nodes[a] = o <=> rows'[a] # None /\ rows'[a].state = "completed" /\ rows'[a].outcome = o
  <2>1. CASE Exists
    <3>1. Latest.nodes[a] = o <=> rows[a] # None /\ rows[a].state = "completed" /\ rows[a].outcome = o
      BY <2>1 DEF Inv, RowsOK, LedgerAgrees
    <3> QED BY <2>1, <3>1
  <2>2. CASE ~ Exists
    <3>1. rows[a] = None
      <4>1. ~ EverActive BY <2>2, LogTypes DEF EverActive
      <4> QED BY <4>1 DEF Inv, RowsOK
    <3> QED BY <2>2, <3>1 DEF Results
  <2> QED BY <2>1, <2>2
<1>3. LedgerAgrees' BY <1>1, <1>2 DEF LedgerAgrees
<1>4. ReservedFirst' BY DEF ReservedFirst
<1>5. \A a \in Actions :
          /\ rows'[a] # None => EverActive'
          /\ rows'[a] # None /\ rows'[a].state = "completed" => ran'[a] # <<>>
          /\ ran'[a] # <<>> => Allowed(a)' /\ InTurn(a)'
  BY EverStays DEF Inv, RowsOK
<1> QED BY <1>3, <1>4, <1>5 DEF RowsOK

\* What a call may write follows the latest checkpoint.
LEMMA WriteNext ==
  ASSUME Inv, NEW p \in Procs, pc[p] = "write", RevisionFree(next[p])
  PROVE  /\ Exists /\ seen[p] = Latest /\ Latest.status \notin Terminal
         /\ next[p] \in Checkpoint /\ CheckpointOK(next[p]) /\ next[p].revision = Len(log)
         /\ call[p] \in Call /\ Decided(call[p], seen[p], next[p])
         /\ \A a \in Actions : Latest.nodes[a] # "pending" => next[p].nodes[a] = Latest.nodes[a]
<1> PICK k, s, n : k = call[p] /\ s = seen[p] /\ n = next[p] OBVIOUS
<1>1. Fits("write", k, s, n) BY DEF Inv, CallOK
<1>2. k \in Call /\ Stored(s) /\ Decided(k, s, n) BY <1>1 DEF Fits, Deciding
<1>3. n \in Checkpoint /\ CheckpointOK(n) /\ n.revision = s.revision + 1 /\ s.status \notin Terminal
  BY <1>2 DEF Decided
<1>4. s = Latest /\ n.revision = Len(log) /\ Exists BY <1>2, <1>3, FreeIsNext, StoredTypes
<1>5. s \in Checkpoint BY <1>2, StoredTypes
<1>6. ASSUME NEW a \in Actions, s.nodes[a] # "pending" PROVE n.nodes[a] = s.nodes[a]
  <2>1. CASE k.kind # "execute" BY <1>2, <2>1 DEF Decided
  <2>2. CASE k.kind = "execute"
    <3>1. /\ s.nodes[k.action] = "pending"
          /\ n.nodes = [s.nodes EXCEPT ![k.action] = k.outcome]
      BY <1>2, <2>2 DEF Decided
    <3> QED BY <1>5, <1>6, <3>1, Nodes
  <2> QED BY <2>1, <2>2
<1> QED BY <1>2, <1>3, <1>4, <1>6

\* The append of such a checkpoint, whatever it means for the claims.
LEMMA Writing ==
  ASSUME Inv, NEW p \in Procs, pc[p] = "write", RevisionFree(next[p]),
         log' = Append(log, next[p]), reserved => reserved', audits \subseteq audits', UNCHANGED ran
  PROVE  Grows /\ LogOK' /\ log' \in Seq(Checkpoint) /\ Exists' /\ Latest' = next[p]
<1> PICK d : d = next[p] OBVIOUS
<1>1. /\ d \in Checkpoint /\ CheckpointOK(d) /\ d.revision = Len(log) /\ Latest.status \notin Terminal
      /\ \A a \in Actions : Latest.nodes[a] # "pending" => d.nodes[a] = Latest.nodes[a]
  BY WriteNext
<1>2. LogOK' BY <1>1, LogGrows
<1>3. /\ log' \in Seq(Checkpoint) /\ Exists' /\ Latest' = d /\ Len(log') = Len(log) + 1
      /\ \A i \in 1..Len(log) : log'[i] = log[i]
  BY <1>1, Appended
<1>4. Grows BY <1>3, LogTypes DEF Grows
<1> QED BY <1>2, <1>3, <1>4

LEMMA WriteStartInv ==
  ASSUME Inv, NEW p \in Procs, WriteStart(p)
  PROVE  Inv'
<1> PICK d : d = next[p] OBVIOUS
<1>1. /\ pc[p] = "write" /\ call[p].kind = "create" /\ RevisionFree(d)
      /\ log' = Append(log, d) /\ Leave(p) /\ UNCHANGED <<rows, audits, reserved, ran>>
      /\ UNCHANGED <<parent, environment, history>>
  BY DEF WriteStart, parent, history
<1>2. /\ Exists /\ d \in Checkpoint /\ seen[p] = Latest /\ Decided(call[p], seen[p], d)
  BY <1>1, WriteNext
<1>3. d.nodes = Latest.nodes BY <1>1, <1>2 DEF Decided
<1>4. Grows /\ LogOK' /\ log' \in Seq(Checkpoint) BY <1>1, Writing
<1>5. reserved BY <1>2 DEF Inv, RowsOK, ReservedFirst
<1>6. RowsOK' BY <1>1, <1>2, <1>3, <1>4, <1>5, RowsGrow
<1>7. Moves(p, "idle", None, None, None) /\ LocalTypes' BY <1>1, Leaving
<1>8. RunsOK' BY <1>1, <1>7, RunsStay
<1>9. LedgerTypes'
  <2>1. LedgerTypes BY Types DEF Inv
  <2> QED BY <1>1, <1>4, <2>1 DEF LedgerTypes
<1>10. Fits("idle", None, None, None)' BY DEF Fits, Executing, Deciding, Admitted
<1> QED BY <1>1, <1>4, <1>6, <1>7, <1>8, <1>9, <1>10, OthersStill, StepInv

\* The claims that are open are closed without an outcome.
LEMMA Abandoning ==
  ASSUME Inv, NEW p \in Procs
  PROVE  /\ Abandon(p) \in [Actions -> Row \cup {None}]
         /\ \A a \in Actions :
               /\ Abandon(p)[a] # None <=> rows[a] # None
               /\ rows[a] # None =>
                     /\ Abandon(p)[a].outcome = rows[a].outcome
                     /\ Abandon(p)[a].attempt = rows[a].attempt
                     /\ Abandon(p)[a].state = "completed" <=> rows[a].state = "completed"
<1> DEFINE left(a) == IF call[p].abandon /\ a \in Started
                      THEN [rows[a] EXCEPT !.state = "abandoned"] ELSE rows[a]
<1>1. ASSUME NEW a \in Actions
      PROVE  /\ left(a) \in Row \cup {None}
             /\ left(a) # None <=> rows[a] # None
             /\ rows[a] # None =>
                   /\ left(a).outcome = rows[a].outcome /\ left(a).attempt = rows[a].attempt
                   /\ left(a).state = "completed" <=> rows[a].state = "completed"
  <2>1. rows[a] \in Row \cup {None} BY DEF Inv, TypeOK
  <2>2. CASE call[p].abandon /\ a \in Started
    <3> DEFINE r == [rows[a] EXCEPT !.state = "abandoned"]
    <3>1. rows[a] # None /\ rows[a].state = "started" BY <2>2 DEF Started
    <3>2. rows[a] \in Row BY <2>1, <3>1
    <3>3. /\ r \in Row /\ r.outcome = rows[a].outcome /\ r.attempt = rows[a].attempt
          /\ r.state = "abandoned"
      BY <3>2 DEF Row
    <3>4. left(a) = r BY <2>2
    <3> HIDE DEF r, left
    <3> QED BY <3>1, <3>3, <3>4, NoneIsNothing
  <2>3. CASE ~ (call[p].abandon /\ a \in Started) BY <2>1, <2>3
  <2> QED BY <2>2, <2>3
<1>2. Abandon(p) = [a \in Actions |-> left(a)] BY DEF Abandon
<1> HIDE DEF left
<1> QED BY <1>1, <1>2

LEMMA WriteStopInv ==
  ASSUME Inv, NEW p \in Procs, WriteStop(p)
  PROVE  Inv'
<1> PICK k, s, d : k = call[p] /\ s = seen[p] /\ d = next[p] OBVIOUS
<1>1. /\ pc[p] = "write" /\ k.kind = "stop" /\ RevisionFree(d)
      /\ log' = Append(log, d) /\ rows' = Abandon(p) /\ Goto(p, "reject")
      /\ UNCHANGED <<call, seen, next>> /\ UNCHANGED <<audits, reserved, ran>>
      /\ UNCHANGED <<parent, environment, history>>
  BY DEF WriteStop, parent, history
<1>2. Exists /\ d \in Checkpoint /\ s = Latest /\ k \in Call /\ Decided(k, s, d)
  BY <1>1, WriteNext
<1>3. d.nodes = Latest.nodes /\ k.action \in Actions BY <1>1, <1>2 DEF Decided
<1>4. Grows /\ LogOK' /\ log' \in Seq(Checkpoint) BY <1>1, Writing
<1>5. reserved' BY <1>1, <1>2 DEF Inv, RowsOK, ReservedFirst
<1>6. RowsOK' BY <1>1, <1>2, <1>3, <1>4, <1>5, Abandoning, RowsGrow
<1>7. Moves(p, "reject", k, s, d) /\ LocalTypes' BY <1>1, Going DEF PCs
<1>8. RunsOK' BY <1>1, <1>7, Abandoning, RunsStay
<1>9. LedgerTypes'
  <2>1. LedgerTypes BY Types DEF Inv
  <2> QED BY <1>1, <1>4, <2>1, Abandoning DEF LedgerTypes
<1>10. Fits("reject", k, s, d)' BY <1>2, <1>3 DEF Fits, Executing, Deciding, Admitted
<1> QED BY <1>1, <1>4, <1>6, <1>7, <1>8, <1>9, <1>10, OthersStill, StepInv

\* create_and_start finds the chain, or makes it.
LEMMA StoreInv ==
  ASSUME Inv, NEW p \in Procs, Store(p)
  PROVE  Inv'
<1> PICK k : k = call[p] OBVIOUS
<1>1. pc[p] = "store" BY DEF Store
<1>2. Fits("store", k, seen[p], next[p]) BY <1>1 DEF Inv, CallOK
<1>3. k \in Call /\ k.kind = "create" /\ reserved BY <1>2 DEF Fits
<1>4. /\ UNCHANGED <<rows, audits, reserved, ran>> /\ UNCHANGED <<parent, environment, history>>
  BY DEF Store, parent, history
\* A call that starts a planned chain c.
<1>5. ASSUME NEW c \in Checkpoint, CheckpointOK(c), c.status = "planned",
             Goto(p, "assert"), UNCHANGED call, Hold(p, c, start_attack_chain(c, k.now))
      PROVE  \E n \in Checkpoint :
                /\ Moves(p, "assert", k, c, n) /\ LocalTypes'
                /\ Decided(k, c, n)
  <2> DEFINE n == start_attack_chain(c, k.now)
  <2>1. /\ n \in Checkpoint /\ CheckpointOK(n) /\ n.revision = c.revision + 1
        /\ n.nodes = c.nodes /\ n.status # "killed"
    BY <1>5, StartOK
  <2>2. /\ pc' = [pc EXCEPT ![p] = "assert"] /\ call' = [call EXCEPT ![p] = k]
        /\ seen' = [seen EXCEPT ![p] = c] /\ next' = [next EXCEPT ![p] = n]
    BY <1>5, Locals DEF Goto, Hold
  <2> HIDE DEF n
  <2>3. /\ "assert" \in PCs /\ k \in Call \cup {None} /\ c \in Checkpoint \cup {None}
        /\ n \in Checkpoint \cup {None}
    BY <1>3, <2>1 DEF PCs
  <2>4. Moves(p, "assert", k, c, n) /\ LocalTypes' BY <2>2, <2>3, Moving
  <2>5. Decided(k, c, n) BY <1>3, <1>5, <2>1 DEF Decided, Terminal
  <2> QED BY <2>1, <2>4, <2>5
<1>6. CASE Exists
  <2>1. log' = log BY <1>6 DEF Store
  <2>2. CASE Latest.status = "planned"
    <3>1. /\ Goto(p, "assert") /\ UNCHANGED call
          /\ Hold(p, Latest, start_attack_chain(Latest, k.now))
      BY <1>6, <2>2 DEF Store
    <3> PICK c : c = Latest OBVIOUS
    <3>2. c \in Checkpoint /\ CheckpointOK(c) /\ Stored(c) BY <1>6, LogTypes
    <3> PICK n \in Checkpoint :
            Moves(p, "assert", k, c, n) /\ LocalTypes' /\ Decided(k, c, n)
      BY <1>5, <2>2, <3>1, <3>2
    <3>3. Fits("assert", k, c, n) BY <1>3, <3>2 DEF Fits, Executing, Deciding, Admitted
    <3> QED BY <1>4, <2>1, <3>3, OthersStill, QuietInv
  <2>3. CASE Latest.status # "planned"
    <3>1. Leave(p) BY <1>6, <2>3 DEF Store
    <3>2. Fits("idle", None, None, None) BY DEF Fits, Executing, Deciding, Admitted
    <3> QED BY <1>4, <2>1, <3>1, <3>2, Leaving, OthersStill, QuietInv
  <2> QED BY <2>2, <2>3
<1>7. CASE ~ Exists
  <2> PICK c : c = PlannedCheckpoint OBVIOUS
  <2>1. /\ c \in Checkpoint /\ CheckpointOK(c) /\ c.revision = 0 /\ c.status = "planned"
        /\ \A a \in Actions : c.nodes[a] = "pending"
    BY PlannedOK
  <2>2. /\ log' = <<c>> /\ Goto(p, "assert") /\ UNCHANGED call
        /\ Hold(p, c, start_attack_chain(c, k.now))
    BY <1>7, <2>1 DEF Store
  <2> PICK n \in Checkpoint :
          Moves(p, "assert", k, c, n) /\ LocalTypes' /\ Decided(k, c, n)
    BY <1>5, <2>1, <2>2
  <2>3. log = <<>> /\ Len(log) = 0 BY <1>7, LogTypes DEF Exists
  <2>4. log' = Append(log, c) BY <2>2, <2>3
  <2>5. LogOK' BY <1>7, <2>1, <2>3, <2>4, LogGrows
  <2>6. /\ log' \in Seq(Checkpoint) /\ Len(log') = 1 /\ log'[1] = c
    BY <2>1, <2>3, <2>4, Appended
  <2>7. Grows BY <1>4, <2>3, <2>6 DEF Grows
  <2>8. RowsOK' BY <1>3, <1>4, <1>7, <2>1, <2>4, <2>7, RowsGrow
  <2>9. RunsOK' BY <1>4, RunsStay
  <2>10. LedgerTypes'
    <3>1. LedgerTypes BY Types DEF Inv
    <3> QED BY <1>4, <2>6, <3>1 DEF LedgerTypes
  <2>11. Fits("assert", k, c, n)'
    <3>1. Stored(c)' BY <2>1, <2>6 DEF Stored
    <3>2. Decided(k, c, n)' BY <1>4 DEF Decided, CheckpointOK, Failed
    <3> QED BY <1>3, <3>1, <3>2 DEF Fits, Executing, Deciding, Admitted
  <2> QED BY <1>4, <2>5, <2>7, <2>8, <2>9, <2>10, <2>11, OthersStill, StepInv
<1> QED BY <1>6, <1>7

\* The types of one action's row and history.
LEMMA RowTypes ==
  ASSUME Inv, NEW a \in Actions
  PROVE  /\ rows[a] \in Row \cup {None}
         /\ rows[a] # None => rows[a] \in Row /\ rows[a].attempt \in 1..MaxAttempts
         /\ ran[a] \in Seq(1..MaxAttempts) /\ Len(ran[a]) \in Nat
         /\ \A j \in 1..Len(ran[a]) : ran[a][j] \in 1..MaxAttempts
<1>1. rows[a] \in Row \cup {None} /\ ran[a] \in Seq(1..MaxAttempts) BY DEF Inv, TypeOK
<1>2. rows[a] # None => rows[a] \in Row /\ rows[a].attempt \in 1..MaxAttempts BY <1>1 DEF Row
<1>3. Len(ran[a]) \in Nat /\ \A j \in 1..Len(ran[a]) : ran[a][j] \in 1..MaxAttempts
  <2>1. Len(ran[a]) \in Nat BY <1>1, LenProperties
  <2>2. ASSUME NEW j \in 1..Len(ran[a]) PROVE ran[a][j] \in 1..MaxAttempts
    BY <1>1, ElementOfSeq
  <2> QED BY <2>1, <2>2
<1> QED BY <1>1, <1>2, <1>3

\* A claimed attempt is later than every one before it.
LEMMA ClaimIsNew ==
  ASSUME Inv, NEW a \in Actions, NEW k \in Call, FirstClaim(a, k) \/ NextClaim(a, k)
  PROVE  /\ \A j \in 1..Len(ran[a]) : ran[a][j] < k.attempt
         /\ \A q \in Procs : pc[q] = "run" /\ call[q].action = a => call[q].attempt < k.attempt
         /\ rows[a] # None => rows[a].state # "completed"
<1>1. \A j \in 1..Len(ran[a]) : rows[a] # None /\ ran[a][j] <= rows[a].attempt
  BY DEF Inv, RunsOK
<1>2. \A q \in Procs : pc[q] = "run" /\ call[q].action = a =>
          rows[a] # None /\ call[q].attempt <= rows[a].attempt
  BY DEF Inv, RunsOK
<1>3. CASE rows[a] = None BY <1>1, <1>2, <1>3
<1>4. CASE rows[a] # None
  <2>1. k.attempt = rows[a].attempt + 1 /\ rows[a].state = "started"
    BY <1>4 DEF FirstClaim, NextClaim
  <2>2. rows[a].attempt \in Nat BY <1>4, RowTypes DEF MaxAttempts
  <2>3. \A j \in 1..Len(ran[a]) : ran[a][j] \in Nat BY RowTypes DEF MaxAttempts
  <2>4. \A q \in Procs : pc[q] = "run" => call[q].attempt \in Nat
    <3> SUFFICES ASSUME NEW q \in Procs, pc[q] = "run" PROVE call[q].attempt \in Nat OBVIOUS
    <3>1. call[q] \in Call BY DEF Inv, CallOK, Fits
    <3> QED BY <3>1 DEF Call, MaxAttempts
  <2>5. \A j \in 1..Len(ran[a]) : ran[a][j] < k.attempt BY <1>1, <2>1, <2>2, <2>3
  <2>6. \A q \in Procs : pc[q] = "run" /\ call[q].action = a => call[q].attempt < k.attempt
    BY <1>2, <2>1, <2>2, <2>4
  <2> QED BY <2>1, <2>5, <2>6
<1> QED BY <1>3, <1>4

LEMMA ClaimInv ==
  ASSUME Inv, NEW p \in Procs, Claim(p)
  PROVE  Inv'
<1> PICK k, s, n, a : k = call[p] /\ s = seen[p] /\ n = next[p] /\ a = k.action OBVIOUS
<1> PICK r : r = NewRow(k) OBVIOUS
<1>1. /\ pc[p] = "claim" /\ (FirstClaim(a, k) \/ NextClaim(a, k))
      /\ rows' = [rows EXCEPT ![a] = r] /\ Goto(p, "run")
      /\ UNCHANGED <<call, seen, next>> /\ UNCHANGED <<log, audits, reserved, ran>>
      /\ UNCHANGED <<parent, environment, history>>
  BY DEF Claim, parent, history
<1>2. Fits("claim", k, s, n) BY <1>1 DEF Inv, CallOK
<1>3. /\ k \in Call /\ a \in Actions /\ Stored(s) /\ Admissible(s, k)
  BY <1>2 DEF Fits, Executing, Admitted
<1>4. r \in Row /\ r.state = "started" /\ r.attempt = k.attempt BY <1>3 DEF NewRow, Row, Call
<1>5. r # None BY <1>4, NoneIsNothing
<1>6. Moves(p, "run", k, s, n) /\ LocalTypes' BY <1>1, Going DEF PCs
<1>7. Grows BY <1>1, LogTypes DEF Grows
<1>8. LedgerTypes'
  <2>1. LedgerTypes BY Types DEF Inv
  <2> QED BY <1>1, <1>3, <1>4, <2>1 DEF LedgerTypes
<1>9. rows'[a] = r /\ \A b \in Actions : b # a => rows'[b] = rows[b]
  BY <1>1, <1>3 DEF Inv, TypeOK
<1>10. /\ \A j \in 1..Len(ran[a]) : ran[a][j] < k.attempt
       /\ \A q \in Procs : pc[q] = "run" /\ call[q].action = a => call[q].attempt < k.attempt
       /\ rows[a] # None => rows[a].state # "completed"
  BY <1>1, <1>3, ClaimIsNew
<1>11. RowsOK'
  <2>1. EverActive
    <3>1. s.revision + 1 \in 1..Len(log) /\ log[s.revision + 1].status \in Active
      BY <1>3 DEF Stored, Admissible
    <3> QED BY <3>1 DEF EverActive
  <2>2. EverActive' BY <1>7, <2>1, EverStays
  <2>3. LedgerAgrees'
    <3>1. LedgerAgrees BY DEF Inv, RowsOK
    <3> QED BY <1>1, <1>4, <1>9, <1>10, <3>1 DEF LedgerAgrees, Exists, Latest
  <2>4. ReservedFirst' BY <1>1 DEF Inv, RowsOK, ReservedFirst, Exists
  <2>5. \A b \in Actions :
            /\ rows'[b] # None /\ rows'[b].state = "completed" => ran'[b] # <<>>
            /\ ran'[b] # <<>> => Allowed(b)' /\ InTurn(b)'
    BY <1>1, <1>4, <1>7, <1>9, EverStays DEF Inv, RowsOK
  <2> QED BY <2>2, <2>3, <2>4, <2>5 DEF RowsOK
<1>12. RunsOK'
  <2>1. AttemptsOnce' BY <1>1 DEF Inv, RunsOK, AttemptsOnce
  <2>2. k.attempt \in Nat BY <1>3 DEF Call, MaxAttempts
  <2>3. ASSUME NEW b \in Actions, NEW j \in 1..Len(ran[b])
        PROVE  rows'[b] # None /\ ran[b][j] <= rows'[b].attempt
    <3>1. rows[b] # None /\ ran[b][j] <= rows[b].attempt BY DEF Inv, RunsOK
    <3>2. ran[b][j] \in Nat BY RowTypes DEF MaxAttempts
    <3> QED BY <1>4, <1>5, <1>9, <1>10, <2>2, <3>1, <3>2
  <2>4. ASSUME NEW q \in Procs, pc'[q] = "run", q # p
        PROVE  /\ pc[q] = "run" /\ call[q] \in Call /\ call[q].action \in Actions
               /\ rows'[call[q].action] # None
               /\ call[q].attempt <= rows'[call[q].action].attempt
    <3>1. pc[q] = "run" BY <1>6, <2>4 DEF Moves
    <3>2. call[q] \in Call /\ call[q].action \in Actions
      BY <3>1 DEF Inv, CallOK, Fits, Executing
    <3>3. rows[call[q].action] # None /\ call[q].attempt <= rows[call[q].action].attempt
      BY <3>1 DEF Inv, RunsOK
    <3>4. call[q].attempt \in Nat BY <3>2 DEF Call, MaxAttempts
    <3> QED BY <1>4, <1>5, <1>9, <1>10, <2>2, <3>1, <3>2, <3>3, <3>4
  <2>5. ASSUME NEW q \in Procs, pc'[q] = "run"
        PROVE  /\ rows'[call[q].action] # None
               /\ call[q].attempt <= rows'[call[q].action].attempt
               /\ \A j \in 1..Len(ran[call[q].action]) : ran[call[q].action][j] # call[q].attempt
               /\ \A u \in Procs \ {q} :
                     pc'[u] = "run" /\ call[u].action = call[q].action =>
                         call[u].attempt # call[q].attempt
    <3>1. CASE q = p
      <4>1. rows'[a] # None /\ k.attempt <= rows'[a].attempt BY <1>4, <1>5, <1>9, <2>2
      <4>2. \A j \in 1..Len(ran[a]) : ran[a][j] # k.attempt
        <5>1. \A j \in 1..Len(ran[a]) : ran[a][j] \in Nat BY <1>3, RowTypes DEF MaxAttempts
        <5> QED BY <1>10, <2>2, <5>1
      <4>3. ASSUME NEW u \in Procs, u # p, pc'[u] = "run", call[u].action = a
            PROVE  call[u].attempt # k.attempt
        <5>1. pc[u] = "run" /\ call[u] \in Call BY <2>4, <4>3
        <5>2. call[u].attempt \in Nat BY <5>1 DEF Call, MaxAttempts
        <5> QED BY <1>10, <2>2, <4>3, <5>1, <5>2
      <4> QED BY <3>1, <4>1, <4>2, <4>3
    <3>2. CASE q # p
      <4>1. /\ pc[q] = "run" /\ call[q] \in Call
            /\ rows'[call[q].action] # None /\ call[q].attempt <= rows'[call[q].action].attempt
        BY <2>4, <2>5, <3>2
      <4>2. /\ \A j \in 1..Len(ran[call[q].action]) : ran[call[q].action][j] # call[q].attempt
            /\ \A u \in Procs \ {q} :
                  pc[u] = "run" /\ call[u].action = call[q].action =>
                      call[u].attempt # call[q].attempt
        BY <4>1 DEF Inv, RunsOK
      <4>3. ASSUME NEW u \in Procs \ {q}, pc'[u] = "run", call[u].action = call[q].action
            PROVE  call[u].attempt # call[q].attempt
        <5>1. CASE u = p
          <6>1. call[q].attempt < k.attempt BY <1>10, <4>1, <4>3, <5>1
          <6>2. call[q].attempt \in Nat BY <4>1 DEF Call, MaxAttempts
          <6> QED BY <2>2, <5>1, <6>1, <6>2
        <5>2. CASE u # p BY <2>4, <4>2, <4>3, <5>2
        <5> QED BY <5>1, <5>2
      <4> QED BY <4>1, <4>2, <4>3
    <3> QED BY <3>1, <3>2
  <2> QED BY <1>1, <2>1, <2>3, <2>5 DEF RunsOK
<1>13. Fits("run", k, s, n)'
  <2>1. Fits("claim", k, s, n)' BY <1>2, <1>7, FitsStays
  <2> QED BY <2>1 DEF Fits, Executing, Deciding, Admitted
<1> QED BY <1>1, <1>6, <1>7, <1>8, <1>11, <1>12, <1>13, LogStays, OthersStill, StepInv

\* The request leaves: the attempt of the call is added to the history.
Sent(a, n) == ran' = [ran EXCEPT ![a] = Append(@, n)]

LEMMA SentOK ==
  ASSUME Inv, NEW p \in Procs, pc[p] = "run", NEW a, a = call[p].action,
         NEW m, m = call[p].attempt, Sent(a, m), UNCHANGED <<log, rows, audits, reserved>>,
         NEW t, t # "run", NEW k, NEW s, NEW n, Moves(p, t, k, s, n)
  PROVE  /\ Grows /\ LedgerTypes' /\ LogOK' /\ RowsOK' /\ RunsOK'
         /\ a \in Actions /\ ran'[a] # <<>>
<1> PICK l, r : l = call[p] /\ r = seen[p] OBVIOUS
<1>1. Fits("run", l, r, next[p]) BY DEF Inv, CallOK
<1>2. /\ l \in Call /\ a \in Actions /\ Stored(r) /\ Admissible(r, l) /\ Allowed(a)
      /\ m \in 1..MaxAttempts
  BY <1>1 DEF Fits, Executing, Admitted, Call
<1>3. /\ rows[a] # None /\ m <= rows[a].attempt
      /\ \A j \in 1..Len(ran[a]) : ran[a][j] # m
      /\ \A q \in Procs \ {p} : pc[q] = "run" /\ call[q].action = a => call[q].attempt # m
  BY DEF Inv, RunsOK
<1>4. ran \in [Actions -> Seq(1..MaxAttempts)] BY DEF Inv, TypeOK
<1>5. /\ ran' \in [Actions -> Seq(1..MaxAttempts)]
      /\ ran'[a] = Append(ran[a], m) /\ \A b \in Actions : b # a => ran'[b] = ran[b]
  <2>1. Append(ran[a], m) \in Seq(1..MaxAttempts) BY <1>2, <1>4, AppendProperties
  <2> QED BY <1>2, <1>4, <2>1 DEF Sent
<1>6. /\ Len(ran'[a]) = Len(ran[a]) + 1 /\ ran'[a][Len(ran[a]) + 1] = m
      /\ \A j \in 1..Len(ran[a]) : ran'[a][j] = ran[a][j]
      /\ Len(ran[a]) \in Nat
  BY <1>2, <1>4, <1>5, AppendProperties, RowTypes
<1>7. ran'[a] # <<>>
  <2>1. ran'[a] \in Seq(1..MaxAttempts) BY <1>2, <1>5
  <2>2. Len(ran'[a]) # 0 BY <1>6
  <2> QED BY <2>1, <2>2, EmptySeq
<1>8. Grows BY <1>5, <1>7, LogTypes DEF Grows
<1>9. LedgerTypes'
  <2>1. LedgerTypes BY Types DEF Inv
  <2> QED BY <1>5, <2>1 DEF LedgerTypes
<1>10. RowsOK'
  <2>1. LedgerAgrees' BY DEF Inv, RowsOK, LedgerAgrees, Exists, Latest
  <2>2. ReservedFirst' BY DEF Inv, RowsOK, ReservedFirst, Exists
  <2>3. InTurn(a)
    <3> DEFINE i == r.revision + 1
    <3>1. i \in 1..Len(log) /\ log[i] = r /\ r \in Checkpoint /\ CheckpointOK(r)
      BY <1>2, StoredTypes
    <3> HIDE DEF i
    <3>2. CASE r.status = "cleanup_required"
      BY <1>2, <3>1, <3>2 DEF Admissible, InTurn
    <3>3. CASE r.status = "running"
      <4>1. ASSUME NEW b \in 1..(a - 1) PROVE r.nodes[b] = "succeeded"
        <5>1. b \in Actions BY <1>2, Graph DEF Actions
        <5>2. r.nodes[b] # "pending" BY <1>2, <3>3 DEF Admissible
        <5>3. r.nodes[b] \in {"pending", "succeeded"} BY <3>1, <3>3, <5>1 DEF CheckpointOK
        <5> QED BY <5>2, <5>3
      <4> QED BY <3>1, <4>1 DEF InTurn
    <3> QED BY <1>2, <3>2, <3>3 DEF Admissible, Active
  <2>4. \A b \in Actions :
            /\ rows'[b] # None => EverActive'
            /\ rows'[b] # None /\ rows'[b].state = "completed" => ran'[b] # <<>>
            /\ ran'[b] # <<>> => Allowed(b)' /\ InTurn(b)'
    BY <1>2, <1>5, <1>7, <1>8, <2>3, EverStays DEF Inv, RowsOK
  <2> QED BY <2>1, <2>2, <2>4 DEF RowsOK
<1>11. RunsOK'
  <2>1. ASSUME NEW b \in Actions, NEW i \in 1..Len(ran'[b]), NEW j \in 1..Len(ran'[b]),
               ran'[b][i] = ran'[b][j]
        PROVE  i = j
    <3>1. \A x, y \in 1..Len(ran[b]) : ran[b][x] = ran[b][y] => x = y
      BY DEF Inv, RunsOK, AttemptsOnce
    <3>2. CASE b # a BY <1>5, <2>1, <3>1, <3>2
    <3>3. CASE b = a
      <4>1. i \in 1..Len(ran[a]) \/ i = Len(ran[a]) + 1 BY <1>6, <3>3
      <4>2. j \in 1..Len(ran[a]) \/ j = Len(ran[a]) + 1 BY <1>6, <3>3
      <4> QED BY <1>3, <1>6, <2>1, <3>1, <3>3, <4>1, <4>2
    <3> QED BY <3>2, <3>3
  <2>2. ASSUME NEW b \in Actions, NEW j \in 1..Len(ran'[b])
        PROVE  rows[b] # None /\ ran'[b][j] <= rows[b].attempt
    <3>1. \A x \in 1..Len(ran[b]) : rows[b] # None /\ ran[b][x] <= rows[b].attempt
      BY DEF Inv, RunsOK
    <3>2. CASE b # a BY <1>5, <3>1, <3>2
    <3>3. CASE b = a
      <4>1. j \in 1..Len(ran[a]) \/ j = Len(ran[a]) + 1 BY <1>6, <3>3
      <4> QED BY <1>3, <1>6, <3>1, <3>3, <4>1
    <3> QED BY <3>2, <3>3
  <2>3. ASSUME NEW q \in Procs, pc'[q] = "run"
        PROVE  /\ rows[call'[q].action] # None
               /\ call'[q].attempt <= rows[call'[q].action].attempt
               /\ \A j \in 1..Len(ran'[call'[q].action]) :
                     ran'[call'[q].action][j] # call'[q].attempt
               /\ \A u \in Procs \ {q} :
                     pc'[u] = "run" /\ call'[u].action = call'[q].action =>
                         call'[u].attempt # call'[q].attempt
    <3>1. \A u \in Procs : pc'[u] = "run" => u # p /\ pc[u] = "run" /\ call'[u] = call[u]
      BY DEF Moves
    <3> PICK c : c = call[q] OBVIOUS
    <3>2. c.action \in Actions BY <2>3, <3>1 DEF Inv, CallOK, Fits, Executing
    <3>3. /\ rows[c.action] # None /\ c.attempt <= rows[c.action].attempt
          /\ \A j \in 1..Len(ran[c.action]) : ran[c.action][j] # c.attempt
          /\ \A u \in Procs \ {q} :
                pc[u] = "run" /\ call[u].action = c.action => call[u].attempt # c.attempt
      BY <2>3, <3>1 DEF Inv, RunsOK
    <3>4. ASSUME NEW j \in 1..Len(ran'[c.action]) PROVE ran'[c.action][j] # c.attempt
      <4>1. CASE c.action # a BY <1>5, <3>2, <3>3, <4>1
      <4>2. CASE c.action = a
        <5>1. c.attempt # m BY <1>3, <2>3, <3>1, <4>2
        <5>2. j \in 1..Len(ran[a]) \/ j = Len(ran[a]) + 1 BY <1>6, <4>2
        <5> QED BY <1>6, <3>3, <4>2, <5>1, <5>2
      <4> QED BY <4>1, <4>2
    <3> QED BY <2>3, <3>1, <3>3, <3>4
  <2> QED BY <2>1, <2>2, <2>3 DEF RunsOK, AttemptsOnce
<1> QED BY <1>2, <1>7, <1>8, <1>9, <1>10, <1>11, LogStays

LEMMA EffectTypes ==
  ASSUME Inv, NEW a, NEW o
  PROVE  Effect(a, o) \subseteq BOOLEAN
<1>1. changed \in BOOLEAN BY Types DEF Inv, OtherTypes
<1> QED BY <1>1 DEF Effect

LEMMA RunInterruptedInv ==
  ASSUME Inv, NEW p \in Procs, RunInterrupted(p)
  PROVE  Inv'
<1> PICK a, m : a = call[p].action /\ m = call[p].attempt OBVIOUS
<1> PICK o \in Outcomes : Dispatch(p, o) BY DEF RunInterrupted
<1>1. /\ pc[p] = "run" /\ Leave(p) /\ Sent(a, m) /\ changed' \in Effect(a, o)
      /\ UNCHANGED <<log, rows, audits, reserved>>
      /\ UNCHANGED <<flow, scopeLive, clock, crashes>>
  BY DEF RunInterrupted, Dispatch, Sent, ledger, parent, environment
<1>2. OtherTypes'
  <2>1. OtherTypes BY Types DEF Inv
  <2> QED BY <1>1, <2>1, EffectTypes DEF OtherTypes
<1>3. Moves(p, "idle", None, None, None) /\ LocalTypes' BY <1>1, Leaving
<1>4. Fits("idle", None, None, None)' BY DEF Fits, Executing, Deciding, Admitted
<1>5. Grows /\ LedgerTypes' /\ LogOK' /\ RowsOK' /\ RunsOK' BY <1>1, <1>3, SentOK
<1> QED BY <1>2, <1>3, <1>4, <1>5, StepInv

LEMMA CrashInRunInv ==
  ASSUME Inv, NEW p \in Procs, CrashInRun(p)
  PROVE  Inv'
<1> PICK a, m : a = call[p].action /\ m = call[p].attempt OBVIOUS
<1>1. /\ pc[p] = "run" /\ Leave(p) /\ Sent(a, m) /\ changed' \in Effect(a, "interrupted")
      /\ UNCHANGED <<log, rows, audits, reserved>>
      /\ UNCHANGED <<flow, scopeLive, clock>> /\ crashes' = crashes + 1
  BY DEF CrashInRun, Sent, ledger, parent
<1>2. OtherTypes'
  <2>1. OtherTypes BY Types DEF Inv
  <2> QED BY <1>1, <2>1, EffectTypes DEF OtherTypes
<1>3. Moves(p, "idle", None, None, None) /\ LocalTypes' BY <1>1, Leaving
<1>4. Fits("idle", None, None, None)' BY DEF Fits, Executing, Deciding, Admitted
<1>5. Grows /\ LedgerTypes' /\ LogOK' /\ RowsOK' /\ RunsOK' BY <1>1, <1>3, SentOK
<1> QED BY <1>2, <1>3, <1>4, <1>5, StepInv

LEMMA RunInv ==
  ASSUME Inv, NEW p \in Procs, Run(p)
  PROVE  Inv'
<1> PICK l, s, a, m : l = call[p] /\ s = seen[p] /\ a = l.action /\ m = l.attempt OBVIOUS
<1> PICK o, r, n, k :
        /\ o \in Outcomes /\ (r = "failed" \/ (r = o /\ o # "interrupted"))
        /\ n = record_attack_observation(s, a, r) /\ k = [l EXCEPT !.outcome = r]
        /\ Dispatch(p, o)
        /\ call' = [call EXCEPT ![p].outcome = r]
        /\ Hold(p, s, n)
  BY DEF Run, Interrupted
<1>1. /\ pc[p] = "run" /\ pc' = [pc EXCEPT ![p] = "assert"]
      /\ Sent(a, m) /\ changed' \in Effect(a, o)
      /\ UNCHANGED <<log, rows, audits, reserved>>
      /\ UNCHANGED <<flow, scopeLive, clock, crashes>>
  BY DEF Run, Dispatch, Goto, Sent, ledger, parent, environment
<1>2. /\ call' = [call EXCEPT ![p].outcome = r]
      /\ seen' = [seen EXCEPT ![p] = s] /\ next' = [next EXCEPT ![p] = n]
  BY DEF Hold
<1>3. r \in Results BY ChainConstants DEF Results
<1>4. Fits("run", l, s, next[p]) BY <1>1 DEF Inv, CallOK
<1>5. /\ l \in Call /\ l.kind = "execute" /\ a \in Actions /\ Stored(s) /\ Admissible(s, l)
      /\ s.nodes[a] = "pending"
  BY <1>4 DEF Fits, Executing, Admitted
<1>6. s \in Checkpoint /\ CheckpointOK(s) BY <1>5, StoredTypes
<1>7. /\ n \in Checkpoint /\ CheckpointOK(n) /\ n.revision = s.revision + 1
      /\ n.nodes = [s.nodes EXCEPT ![a] = r] /\ n.status # "killed"
  BY <1>3, <1>5, <1>6, RecordOK
<1>8. k \in Call /\ k.kind = "execute" /\ k.action = a /\ k.outcome = r
  BY <1>3, <1>5 DEF Call
<1>9. call' = [call EXCEPT ![p] = k]
  <2>1. call \in [Procs -> Call \cup {None}] BY DEF Inv, TypeOK
  <2> QED BY <1>2, <2>1
<1>10. Moves(p, "assert", k, s, n) /\ LocalTypes'
  <2>1. "assert" \in PCs /\ k \in Call \cup {None} /\ s \in Checkpoint \cup {None}
        /\ n \in Checkpoint \cup {None}
    BY <1>6, <1>7, <1>8 DEF PCs
  <2> QED BY <1>1, <1>2, <1>9, <2>1, Moving
<1>11. Grows /\ LedgerTypes' /\ LogOK' /\ RowsOK' /\ RunsOK' /\ ran'[a] # <<>>
  BY <1>1, <1>10, SentOK
<1>12. OtherTypes'
  <2>1. OtherTypes BY Types DEF Inv
  <2> QED BY <1>1, <2>1, EffectTypes DEF OtherTypes
<1>13. Fits("assert", k, s, n)'
  <2>1. Stored(s)' BY <1>5, <1>11, StoredStays
  <2>2. s.status \notin Terminal BY <1>5 DEF Admissible, Active, Terminal
  <2>3. Decided(k, s, n)'
    BY <1>3, <1>5, <1>7, <1>8, <1>11, <2>2 DEF Decided, CheckpointOK, Failed
  <2> QED BY <1>8, <2>1, <2>3 DEF Fits, Executing, Deciding, Admitted
<1> QED BY <1>10, <1>11, <1>12, <1>13, StepInv

LEMMA WriteCompleteInv ==
  ASSUME Inv, NEW p \in Procs, WriteComplete(p)
  PROVE  Inv'
<1> PICK k, s, d, a, o :
        k = call[p] /\ s = seen[p] /\ d = next[p] /\ a = k.action /\ o = k.outcome
  OBVIOUS
<1>1. pc[p] = "write" /\ k.kind = "execute" /\ RevisionFree(d) BY DEF WriteComplete
<1>2. CASE ~ OwnsClaim(p)
  <2>1. Refuse(p) BY <1>2 DEF WriteComplete
  <2> QED BY <2>1, RefuseInv
<1>3. CASE OwnsClaim(p)
  <2>1. /\ log' = Append(log, d)
        /\ rows' = [rows EXCEPT ![a].state = "completed", ![a].outcome = o]
        /\ Leave(p) /\ UNCHANGED <<audits, reserved, ran>>
        /\ UNCHANGED <<parent, environment, history>>
    BY <1>3 DEF WriteComplete, parent, history
  <2>2. Exists /\ d \in Checkpoint /\ s = Latest /\ s \in Checkpoint /\ Decided(k, s, d)
    BY <1>1, WriteNext, LogTypes
  <2>3. /\ a \in Actions /\ o \in Results /\ ran[a] # <<>>
        /\ d.nodes = [s.nodes EXCEPT ![a] = o]
    BY <1>1, <2>2 DEF Decided
  <2>4. rows[a] # None /\ rows[a].state = "started" BY <1>3 DEF OwnsClaim
  <2> PICK r : r = [rows[a] EXCEPT !.state = "completed", !.outcome = o] OBVIOUS
  <2>5. /\ r \in Row /\ r.state = "completed" /\ r.outcome = o /\ r.attempt = rows[a].attempt
    <3>1. rows[a] \in Row BY <2>3, <2>4, RowTypes
    <3> QED BY <2>3, <3>1 DEF Row
  <2>6. r # None BY <2>5, NoneIsNothing
  <2>7. /\ rows' \in [Actions -> Row \cup {None}]
        /\ rows'[a] = r /\ \A b \in Actions : b # a => rows'[b] = rows[b]
    <3>1. rows \in [Actions -> Row \cup {None}] BY DEF Inv, TypeOK
    <3>2. rows' = [rows EXCEPT ![a] = r] BY <2>1, <2>3, <3>1
    <3> QED BY <2>3, <2>5, <3>1, <3>2
  <2>8. d.nodes[a] = o /\ \A b \in Actions : b # a => d.nodes[b] = s.nodes[b]
    BY <2>2, <2>3, Nodes
  <2>9. Grows /\ LogOK' /\ log' \in Seq(Checkpoint) /\ Exists' /\ Latest' = d
    BY <1>1, <2>1, Writing
  <2>10. RowsOK'
    <3>1. ASSUME NEW b \in Actions, NEW u \in Results
          PROVE  d.nodes[b] = u <=>
                    rows'[b] # None /\ rows'[b].state = "completed" /\ rows'[b].outcome = u
      <4>1. CASE b = a BY <2>5, <2>6, <2>7, <2>8, <4>1
      <4>2. CASE b # a
        <5>1. s.nodes[b] = u <=>
                 rows[b] # None /\ rows[b].state = "completed" /\ rows[b].outcome = u
          BY <2>2 DEF Inv, RowsOK, LedgerAgrees
        <5> QED BY <2>7, <2>8, <4>2, <5>1
      <4> QED BY <4>1, <4>2
    <3>2. LedgerAgrees' BY <2>9, <3>1 DEF LedgerAgrees
    <3>3. ReservedFirst' BY <2>1, <2>2 DEF Inv, RowsOK, ReservedFirst
    <3>4. ASSUME NEW b \in Actions
          PROVE  /\ rows'[b] # None => EverActive'
                 /\ rows'[b] # None /\ rows'[b].state = "completed" => ran'[b] # <<>>
                 /\ ran'[b] # <<>> => Allowed(b)' /\ InTurn(b)'
      <4>1. /\ rows[b] # None => EverActive
            /\ rows[b] # None /\ rows[b].state = "completed" => ran[b] # <<>>
            /\ ran[b] # <<>> => Allowed(b) /\ InTurn(b)
        BY DEF Inv, RowsOK
      <4>2. /\ EverActive => EverActive'
            /\ InTurn(b) => InTurn(b)'
            /\ Allowed(b) => Allowed(b)'
        BY <2>9, EverStays
      <4>3. ran' = ran BY <2>1
      <4>4. rows'[b] # None => EverActive'
        <5>1. rows'[b] # None => rows[b] # None BY <2>4, <2>7
        <5> QED BY <4>1, <4>2, <5>1
      <4>5. rows'[b] # None /\ rows'[b].state = "completed" => ran'[b] # <<>>
        <5>1. CASE b = a BY <2>3, <4>3, <5>1
        <5>2. CASE b # a BY <2>7, <4>1, <4>3, <5>2
        <5> QED BY <5>1, <5>2
      <4>6. ran'[b] # <<>> => Allowed(b)' /\ InTurn(b)' BY <4>1, <4>2, <4>3
      <4> QED BY <4>4, <4>5, <4>6
    <3> QED BY <3>2, <3>3, <3>4 DEF RowsOK
  <2>11. Moves(p, "idle", None, None, None) /\ LocalTypes' BY <2>1, Leaving
  <2>12. RunsOK'
    <3>1. \A b \in Actions : rows[b] # None =>
             rows'[b] # None /\ rows'[b].attempt = rows[b].attempt
      BY <2>5, <2>6, <2>7
    <3> QED BY <2>1, <2>11, <3>1, RunsStay
  <2>13. LedgerTypes'
    <3>1. LedgerTypes BY Types DEF Inv
    <3> QED BY <2>1, <2>7, <2>9, <3>1 DEF LedgerTypes
  <2>14. Fits("idle", None, None, None)' BY DEF Fits, Executing, Deciding, Admitted
  <2> QED BY <2>1, <2>9, <2>10, <2>11, <2>12, <2>13, <2>14, OthersStill, StepInv
<1> QED BY <1>2, <1>3

-----------------------------------------------------------------------------
(* The invariant *)

LEMMA EnvironmentInv ==
  ASSUME Inv, Tick \/ RevokeScope \/ FlowStep \/ UNCHANGED vars
  PROVE  Inv'
<1>1. UNCHANGED <<log, rows, audits, reserved, ran>> /\ UNCHANGED <<pc, call, seen, next>>
  BY DEF Tick, RevokeScope, FlowStep, vars, ledger, parent, local, environment, history
<1>2. OtherTypes BY Types DEF Inv
<1>3. CASE Tick \/ RevokeScope \/ UNCHANGED vars
  <2>1. UNCHANGED <<flow, crashes, changed>> /\ scopeLive' \in BOOLEAN /\ clock' \in Nat
    <3>1. CASE Tick BY <1>2, <3>1 DEF Tick, parent, history, OtherTypes
    <3>2. CASE RevokeScope BY <1>2, <3>2 DEF RevokeScope, parent, history, OtherTypes
    <3>3. CASE UNCHANGED vars
      BY <1>2, <3>3 DEF vars, parent, environment, history, OtherTypes
    <3> QED BY <1>3, <3>1, <3>2, <3>3
  <2>2. OtherTypes' BY <1>2, <2>1 DEF OtherTypes
  <2> QED BY <1>1, <2>2, OutsideInv
<1>4. CASE FlowStep
  <2>1. UNCHANGED <<scopeLive, clock, crashes, changed>> BY <1>4 DEF FlowStep, environment, history
  <2>2. flow \in Flow!States /\ flow' \in Flow!Later[flow]
    BY <1>2, <1>4 DEF FlowStep, Flow!Next, OtherTypes
  <2>3. flow' \in Flow!States BY <2>2 DEF Flow!States, Flow!Later, Flow!Stopped
  <2>4. OtherTypes' BY <1>2, <2>1, <2>3 DEF OtherTypes
  <2> QED BY <1>1, <2>4, OutsideInv
<1> QED BY <1>3, <1>4

LEMMA InitInv == Init => Inv
<1> SUFFICES ASSUME Init PROVE Inv OBVIOUS
<1>1. /\ log = <<>> /\ ~ Exists /\ Len(log) = 0
      /\ \A a \in Actions : rows[a] = None /\ ran[a] = <<>> /\ Len(ran[a]) = 0
      /\ \A p \in Procs : pc[p] = "idle"
  BY DEF Init, Exists
<1>2. LocalTypes BY DEF Init, LocalTypes, PCs
<1>3. OtherTypes BY DEF Init, OtherTypes, Flow!States
<1>4. LedgerTypes
  <2>1. <<>> \in Seq(Checkpoint) /\ <<>> \in Seq(1..MaxAttempts) OBVIOUS
  <2> QED BY <2>1 DEF Init, LedgerTypes
<1>5. LogOK BY <1>1 DEF LogOK
<1>6. RowsOK BY <1>1 DEF RowsOK, ReservedFirst, LedgerAgrees
<1>7. RunsOK BY <1>1 DEF RunsOK, AttemptsOnce
<1>8. \A p \in Procs : CallOK(p) BY <1>1 DEF CallOK, Fits, Executing, Deciding, Admitted
<1> QED BY <1>2, <1>3, <1>4, <1>5, <1>6, <1>7, <1>8, Types DEF Inv

LEMMA CreateNextInv ==
  ASSUME Inv, NEW p \in Procs, CreateNext(p)
  PROVE  Inv'
<1>1. CASE CreateRefused(p)
  <2>1. UNCHANGED vars BY <1>1 DEF CreateRefused
  <2> QED BY <2>1, EnvironmentInv
<1>2. CASE ReserveRefused(p) \/ StoreRefused(p)
  BY <1>2, RefuseInv DEF ReserveRefused, StoreRefused
<1> QED BY <1>1, <1>2, BeginCreateInv, ReserveInv, StoreInv, WriteStartInv DEF CreateNext

LEMMA ExecuteNextInv ==
  ASSUME Inv, NEW p \in Procs, ExecuteNext(p)
  PROVE  Inv'
<1>1. CASE ClaimRefused(p) BY <1>1, RefuseInv DEF ClaimRefused
<1> QED BY <1>1, BeginExecuteInv, PreflightStopsInv, PreflightInv, WriteStopInv, AuthorizeInv,
           AllowInv, RejectInv, ClaimInv, RunInterruptedInv, RunInv, WriteCompleteInv
        DEF ExecuteNext

LEMMA NextInv ==
  ASSUME Inv, [Next]_vars
  PROVE  Inv'
<1>1. ASSUME NEW p \in Procs, WriteRefused(p) PROVE Inv'
  BY <1>1, RefuseInv DEF WriteRefused
<1> QED BY <1>1, CreateNextInv, ExecuteNextInv, AssertLatestInv, CrashInv, CrashInRunInv,
           EnvironmentInv DEF Next

\* The invariant holds in every state, whichever calls overlap or die and
\* whatever the parent flow does (attack_service.py, attack_store.py).
THEOREM ChainInvariant == Spec => []Inv
<1>1. Init => Inv BY InitInv
<1>2. Inv /\ [Next]_vars => Inv' BY NextInv
<1> QED BY <1>1, <1>2, PTL DEF Spec

-----------------------------------------------------------------------------
(* The properties *)

\* The two tables of the ledger tell the same story, whatever calls of execute
\* overlap: no completion is lost to a stop and none is recorded twice
\* (attack_store.py, claim, complete and advance).
THEOREM ChainTablesAgree == Spec => []LedgerAgrees
<1>1. Inv => LedgerAgrees BY DEF Inv, RowsOK
<1> QED BY <1>1, ChainInvariant, PTL

\* An attempt reaches the adapter once (attack_store.py, claim).
THEOREM AttemptsReachTheAdapterOnce == Spec => []AttemptsOnce
<1>1. Inv => AttemptsOnce BY DEF Inv, RunsOK
<1> QED BY <1>1, ChainInvariant, PTL

\* Every checkpoint in the ledger passes the validator that reads apply
\* (attack_models.py, AttackChainCheckpoint.sealed).
THEOREM CheckpointsAreSealed == Spec => []Sealed
<1>1. ASSUME Inv PROVE Sealed
  <2> SUFFICES ASSUME NEW i \in 1..Len(log), NEW c, c = log[i]
               PROVE  /\ c.failures = Cardinality(Failed(c))
                      /\ (c.status = "cleanup_required") <=> (c.deferred # None)
                      /\ c.status = "cleanup_required" => c.nodes[Cleanup] = "pending"
                      /\ c.objective => c.nodes[Objective] = "succeeded"
                      /\ c.status = "goal_reached" =>
                            c.objective /\ \A a \in Actions : c.nodes[a] = "succeeded"
    BY DEF Sealed
  <2>1. CheckpointOK(c) /\ c \in Checkpoint BY <1>1, LogTypes DEF Inv, LogOK
  <2>2. c.objective \in BOOLEAN BY <2>1, Nodes
  <2>3. c.status = "goal_reached" => c.objective = TRUE BY <2>1, Graph DEF CheckpointOK
  <2> QED BY <2>1, <2>2, <2>3 DEF CheckpointOK, Active
<1> QED BY <1>1, ChainInvariant, PTL

\* A chain is written in the order its safety rests on, wherever a call dies:
\* budget, chain, audit record, claim, request, and no request out of turn
\* (attack_service.py, create_and_start and execute).
THEOREM ChainsAreWrittenInOrder == Spec => []WrittenInOrder
<1>1. ASSUME Inv PROVE WrittenInOrder
  <2>1. TypeOK /\ ReservedFirst BY <1>1 DEF Inv, RowsOK
  <2>2. AuditedRuns BY <1>1 DEF Inv, RowsOK, AuditedRuns, Allowed
  <2>3. NoSkippedStep
    <3> SUFFICES ASSUME NEW a \in Actions, ran[a] # <<>>
                 PROVE  \/ \A b \in 1..(a - 1) : Latest.nodes[b] = "succeeded"
                        \/ a = Cleanup /\ \E i \in 1..Len(log) : log[i].status = "cleanup_required"
      BY DEF NoSkippedStep
    <3>1. InTurn(a) BY <1>1 DEF Inv, RowsOK
    <3> PICK i \in 1..Len(log) :
            \/ \A b \in 1..(a - 1) : log[i].nodes[b] = "succeeded"
            \/ a = Cleanup /\ log[i].status = "cleanup_required"
      BY <3>1 DEF InTurn
    <3>2. \A b \in Actions : log[i].nodes[b] = "succeeded" => Latest.nodes[b] = "succeeded"
      BY <1>1 DEF Inv, LogOK
    <3>3. \A b \in 1..(a - 1) : b \in Actions BY Graph DEF Actions
    <3> QED BY <3>2, <3>3
  <2> QED BY <2>1, <2>2, <2>3 DEF WrittenInOrder
<1> QED BY <1>1, ChainInvariant, PTL

\* A change of the target is not forgotten, however the chain ends
\* (attack_service.py, execute, and attack_state_machine.py).
THEOREM ChangesAreNotForgotten == Spec => []ChangesAreCleanedUp
<1>1. ASSUME Inv PROVE ChangesAreCleanedUp
  <2>1. Exists => CheckpointOK(Latest) /\ Latest \in Checkpoint BY <1>1, LogTypes
  <2>2. ConfirmedChangeNotKilled BY <2>1 DEF ConfirmedChangeNotKilled, CheckpointOK
  <2>3. EndsThroughCleanup
    <3> SUFFICES ASSUME Exists, Latest.status \in {"goal_reached", "failed", "timed_out"},
                        ran[1] # <<>>
                 PROVE  ran[Cleanup] # <<>>
      BY DEF EndsThroughCleanup
    <3>1. Latest.nodes[Cleanup] # "pending" \/ Latest.revision = 1 BY <2>1 DEF CheckpointOK
    <3>2. CASE Latest.nodes[Cleanup] # "pending"
      <4>1. Latest.nodes[Cleanup] \in Results BY <2>1, <3>2, Nodes, Graph DEF Results
      <4>2. rows[Cleanup] # None /\ rows[Cleanup].state = "completed"
        BY <1>1, <4>1, Graph DEF Inv, RowsOK, LedgerAgrees
      <4> QED BY <1>1, <4>2, Graph DEF Inv, RowsOK
    <3>3. CASE Latest.revision = 1
\* Only a start leads here, and before it nothing was claimed.
      <4>1. Len(log) = 2 BY <1>1, <3>3, LogTypes
      <4>2. 1 \in 1..Len(log) /\ log[1].revision = 0 /\ CheckpointOK(log[1])
        BY <1>1, <4>1 DEF Inv, LogOK
      <4>3. log[1].status = "planned" /\ Latest = log[2]
        BY <4>1, <4>2 DEF CheckpointOK, Latest
      <4>4. ~ EverActive
        <5> SUFFICES ASSUME NEW i \in 1..Len(log), log[i].status \in Active PROVE FALSE
          BY DEF EverActive
        <5>1. i = 1 \/ i = 2 BY <4>1
        <5> QED BY <4>3, <5>1 DEF Active
      <4>5. rows[1] # None
        <5>1. ran[1] \in Seq(1..MaxAttempts) /\ Len(ran[1]) \in Nat BY <1>1, RowTypes, Graph
        <5>2. Len(ran[1]) # 0 BY <5>1, EmptySeq
        <5>3. 1 \in 1..Len(ran[1]) BY <5>1, <5>2
        <5> QED BY <1>1, <5>3, Graph DEF Inv, RunsOK
      <4> QED BY <1>1, <4>4, <4>5, Graph DEF Inv, RowsOK
    <3> QED BY <3>1, <3>2, <3>3
  <2> QED BY <2>2, <2>3 DEF ChangesAreCleanedUp
<1> QED BY <1>1, ChainInvariant, PTL

-----------------------------------------------------------------------------
(* What has ended *)

\* The ledger's log changes by one write.
LEMMA LogSteps ==
  ASSUME Inv, Next, log' # log
  PROVE  \/ ~ Exists /\ log' = <<PlannedCheckpoint>>
         \/ \E p \in Procs : /\ pc[p] = "write" /\ RevisionFree(next[p])
                             /\ log' = Append(log, next[p])
<1>1. \A p \in Procs : Refuse(p) => log' = log BY DEF Refuse, ledger
<1>2. ASSUME NEW p \in Procs, CreateNext(p) \/ ExecuteNext(p)
      PROVE  Store(p) \/ WriteStart(p) \/ WriteStop(p) \/ WriteComplete(p)
  <2>1. CreateNext(p) => Store(p) \/ WriteStart(p)
    BY <1>1 DEF CreateNext, BeginCreate, CreateRefused, Reserve, ReserveRefused, StoreRefused,
                Stay, vars, ledger
  <2>2. ExecuteNext(p) => WriteStop(p) \/ WriteComplete(p)
    BY <1>1 DEF ExecuteNext, BeginExecute, PreflightStops, Preflight, Authorize, Allow, Reject,
                Claim, ClaimRefused, RunInterrupted, Run, Dispatch, Stay, ledger
  <2> QED BY <1>2, <2>1, <2>2
<1>3. PICK p \in Procs : Store(p) \/ WriteStart(p) \/ WriteStop(p) \/ WriteComplete(p)
  <2>1. \A p \in Procs : AssertLatest(p) \/ WriteRefused(p) \/ Crash(p) \/ CrashInRun(p) =>
           log' = log
    BY <1>1 DEF AssertLatest, WriteRefused, Crash, CrashInRun, Stay, ledger
  <2>2. Tick \/ RevokeScope \/ FlowStep => log' = log
    BY DEF Tick, RevokeScope, FlowStep, ledger
  <2> QED BY <1>2, <2>1, <2>2 DEF Next
<1>4. CASE Store(p) BY <1>4 DEF Store
<1>5. CASE WriteStart(p) \/ WriteStop(p) BY <1>5 DEF WriteStart, WriteStop
<1>6. CASE WriteComplete(p) BY <1>1, <1>6 DEF WriteComplete
<1> QED BY <1>3, <1>4, <1>5, <1>6

LEMMA PrefixOfAppend ==
  ASSUME NEW S, NEW s \in Seq(S), NEW d \in S
  PROVE  SubSeq(Append(s, d), 1, Len(s)) = s
<1> DEFINE t == Append(s, d)
           u == SubSeq(t, 1, Len(s))
<1>1. /\ t \in Seq(S) /\ Len(t) = Len(s) + 1 /\ Len(s) \in Nat
      /\ \A i \in 1..Len(s) : t[i] = s[i]
  BY AppendProperties, LenProperties
<1>2. CASE Len(s) = 0
  <2>1. s = <<>> BY <1>2, EmptySeq
  <2>2. u = <<>> BY <1>1, <1>2, SubSeqEmpty
  <2> QED BY <2>1, <2>2
<1>3. CASE Len(s) # 0
  <2>1. \A i \in 1..Len(s) : t[i] \in S BY <1>1, ElementOfSeq
  <2>2. u \in Seq(S) /\ Len(u) = Len(s) /\ \A i \in 1..Len(s) : u[i] = t[1 + i - 1]
    <3> HIDE DEF t
    <3>1. 1 \in Int /\ Len(s) \in Int /\ 1 <= Len(s) /\ Len(s) - 1 + 1 = Len(s) BY <1>1, <1>3
    <3> QED BY <2>1, <3>1, SubSeqProperties
  <2> HIDE DEF t, u
  <2>3. \A i \in 1..Len(s) : u[i] = s[i] BY <1>1, <2>2
  <2>4. u = s BY <2>2, <2>3, SeqEqual
  <2> QED BY <2>4 DEF t, u
<1> QED BY <1>2, <1>3

LEMMA StepsAppend ==
  ASSUME Inv, Next, log' # log
  PROVE  /\ Len(log') = Len(log) + 1 /\ SubSeq(log', 1, Len(log)) = log
         /\ log'[Len(log')].revision = Len(log)
         /\ Exists => Latest.status \notin Terminal
<1>1. log \in Seq(Checkpoint) /\ Len(log) \in Nat BY LogTypes
<1>2. CASE ~ Exists /\ log' = <<PlannedCheckpoint>>
  <2> PICK d : d = PlannedCheckpoint OBVIOUS
  <2>1. d \in Checkpoint /\ d.revision = 0 BY PlannedOK
  <2>2. log = <<>> /\ Len(log) = 0 BY <1>2, LogTypes DEF Exists
  <2>3. log' = Append(log, d) BY <1>2, <2>2
  <2>4. Len(log') = 1 /\ log'[1] = d BY <2>1, <2>2, <2>3, Appended
  <2>5. SubSeq(log', 1, Len(log)) = log BY <1>1, <2>1, <2>3, PrefixOfAppend
  <2> QED BY <1>2, <2>1, <2>2, <2>4, <2>5
<1>3. ASSUME NEW p \in Procs, pc[p] = "write", RevisionFree(next[p]), log' = Append(log, next[p])
      PROVE  /\ Len(log') = Len(log) + 1 /\ SubSeq(log', 1, Len(log)) = log
             /\ log'[Len(log')].revision = Len(log)
             /\ Exists => Latest.status \notin Terminal
  <2> PICK d : d = next[p] OBVIOUS
  <2>1. d \in Checkpoint /\ d.revision = Len(log) /\ Latest.status \notin Terminal
    BY <1>3, WriteNext
  <2>2. Len(log') = Len(log) + 1 /\ log'[Len(log) + 1] = d BY <1>3, <2>1, Appended
  <2>3. SubSeq(log', 1, Len(log)) = log BY <1>1, <1>3, <2>1, PrefixOfAppend
  <2> QED BY <2>1, <2>2, <2>3
<1> QED BY <1>2, <1>3, LogSteps

LEMMA ClosedStay ==
  ASSUME Inv, Next, NEW a \in Actions, rows[a] # None, rows[a].state # "started"
  PROVE  rows'[a] = rows[a]
<1>1. \A p \in Procs : Refuse(p) => rows' = rows BY DEF Refuse, ledger
<1>2. rows \in [Actions -> Row \cup {None}] BY DEF Inv, TypeOK
<1>3. ASSUME NEW p \in Procs, Claim(p) PROVE rows'[a] = rows[a]
  <2> PICK k, b : k = call[p] /\ b = k.action OBVIOUS
  <2>1. (FirstClaim(b, k) \/ NextClaim(b, k)) /\ rows' = [rows EXCEPT ![b] = NewRow(k)]
    BY <1>3 DEF Claim
  <2>2. b # a BY <2>1 DEF FirstClaim, NextClaim
  <2> QED BY <1>2, <2>1, <2>2
<1>4. ASSUME NEW p \in Procs, WriteStop(p) PROVE rows'[a] = rows[a]
  <2>1. rows' = Abandon(p) BY <1>4 DEF WriteStop
  <2>2. a \notin Started BY DEF Started
  <2> QED BY <2>1, <2>2 DEF Abandon
<1>5. ASSUME NEW p \in Procs, WriteComplete(p) PROVE rows'[a] = rows[a]
  <2>1. CASE OwnsClaim(p)
    <3> PICK b : b = call[p].action OBVIOUS
    <3>1. /\ rows' = [rows EXCEPT ![b].state = "completed", ![b].outcome = call[p].outcome]
          /\ b # a
      BY <1>5, <2>1 DEF WriteComplete, OwnsClaim
    <3> QED BY <1>2, <3>1
  <2>2. CASE ~ OwnsClaim(p) BY <1>1, <1>5, <2>2 DEF WriteComplete
  <2> QED BY <2>1, <2>2
<1>6. ASSUME NEW p \in Procs, CreateNext(p) PROVE rows' = rows
  BY <1>1, <1>6 DEF CreateNext, BeginCreate, CreateRefused, Reserve, ReserveRefused, Store,
                    StoreRefused, WriteStart, Stay, vars, ledger
<1>7. ASSUME NEW p \in Procs, ExecuteNext(p) PROVE rows'[a] = rows[a]
  <2>1. Claim(p) \/ WriteStop(p) \/ WriteComplete(p) \/ rows' = rows
    BY <1>1, <1>7 DEF ExecuteNext, BeginExecute, PreflightStops, Preflight, Authorize, Allow,
                      Reject, ClaimRefused, RunInterrupted, Run, Dispatch, Stay, ledger
  <2> QED BY <1>3, <1>4, <1>5, <2>1
<1>8. \A p \in Procs : AssertLatest(p) \/ WriteRefused(p) \/ Crash(p) \/ CrashInRun(p) =>
         rows' = rows
  BY <1>1 DEF AssertLatest, WriteRefused, Crash, CrashInRun, Stay, ledger
<1>9. Tick \/ RevokeScope \/ FlowStep => rows' = rows BY DEF Tick, RevokeScope, FlowStep, ledger
<1> QED BY <1>6, <1>7, <1>8, <1>9 DEF Next

\* What has ended stays ended: the chain, and each claim of it, even for a call
\* that read the ledger before (attack_store.py, _assert_latest, claim, complete).
THEOREM EndsStayEnded == Spec => EndsAreFinal
<1>1. Inv /\ [Next]_vars =>
         [log' # log =>
             /\ Len(log') = Len(log) + 1 /\ SubSeq(log', 1, Len(log)) = log
             /\ log'[Len(log')].revision = Len(log)
             /\ Exists => Latest.status \notin Terminal]_vars
  BY StepsAppend DEF vars, ledger
<1>2. Inv /\ [Next]_vars =>
         [\A a \in Actions :
             rows[a] # None /\ rows[a].state # "started" => rows'[a] = rows[a]]_vars
  BY ClosedStay DEF vars, ledger
<1>3. Spec => StopsAreFinal BY <1>1, ChainInvariant, PTL DEF Spec, StopsAreFinal
<1>4. Spec => ClosedClaimsStayClosed BY <1>2, ChainInvariant, PTL DEF Spec, ClosedClaimsStayClosed
<1> QED BY <1>3, <1>4 DEF EndsAreFinal

-----------------------------------------------------------------------------
(* Stops, when calls do not overlap *)

\* A call that is about to stop the chain has just found the flow boundary
\* broken, or was about to before and has written nothing since.
LEMMA StopSteps ==
  ASSUME Inv, [Next]_vars, OneCaller, NEW p \in Procs,
         pc'[p] \in Deciding, call'[p].kind = "stop"
  PROVE  PreflightStops(p) \/ (pc[p] \in Deciding /\ next'[p] = next[p] /\ rows' = rows)
<1>1. /\ pc \in [Procs -> PCs] /\ call \in [Procs -> Call \cup {None}]
      /\ \A q \in Procs : q = p
  BY DEF Inv, TypeOK, OneCaller
<1>2. \A t : Goto(p, t) => pc'[p] = t BY <1>1 DEF Goto
<1>3. ~ Leave(p) /\ ~ Refuse(p) BY <1>2 DEF Leave, Refuse, Deciding
<1>4. ~ CreateNext(p)
  <2>1. ~ BeginCreate(p) /\ ~ Reserve(p) BY <1>2 DEF BeginCreate, Begin, Reserve, Deciding
  <2>2. ~ ReserveRefused(p) /\ ~ StoreRefused(p) /\ ~ WriteStart(p)
    BY <1>3 DEF ReserveRefused, StoreRefused, WriteStart
  <2>3. ~ Store(p)
    <3> SUFFICES ASSUME Store(p) PROVE FALSE OBVIOUS
    <3>1. pc[p] = "store" BY DEF Store
    <3>2. call[p].kind = "create" BY <3>1 DEF Inv, CallOK, Fits
    <3>3. call' = call BY <1>3 DEF Store
    <3> QED BY <3>2, <3>3
  <2>4. CreateRefused(p) => pc'[p] = "idle"
    BY DEF CreateRefused, vars, local
  <2> QED BY <2>1, <2>2, <2>3, <2>4 DEF CreateNext, Deciding
<1>5. ExecuteNext(p) => PreflightStops(p)
  <2>1. \A a \in Actions, n \in 1..MaxAttempts : ~ BeginExecute(p, a, n)
    BY <1>2 DEF BeginExecute, Begin, Deciding
  <2>2. ~ Preflight(p) /\ ~ WriteStop(p) /\ ~ Authorize(p) /\ ~ Allow(p) /\ ~ Claim(p)
    BY <1>2 DEF Preflight, WriteStop, Authorize, Allow, Claim, Deciding
  <2>3. ~ Reject(p) /\ ~ ClaimRefused(p) /\ ~ RunInterrupted(p) /\ ~ WriteComplete(p)
    BY <1>3 DEF Reject, ClaimRefused, RunInterrupted, WriteComplete
  <2>4. ~ Run(p)
    <3> SUFFICES ASSUME Run(p) PROVE FALSE OBVIOUS
    <3>1. pc[p] = "run" BY DEF Run
    <3>2. call[p] \in Call /\ call[p].kind = "execute"
      BY <3>1 DEF Inv, CallOK, Fits, Executing
    <3> PICK r : call' = [call EXCEPT ![p].outcome = r] BY DEF Run
    <3>3. call'[p] = [call[p] EXCEPT !.outcome = r] BY <1>1
    <3>4. call'[p].kind = "execute" BY <3>2, <3>3 DEF Call
    <3> QED BY <3>4
  <2> QED BY <2>1, <2>2, <2>3, <2>4 DEF ExecuteNext
<1>6. ~ WriteRefused(p) /\ ~ Crash(p) /\ ~ CrashInRun(p)
  BY <1>3 DEF WriteRefused, Crash, CrashInRun
<1>7. AssertLatest(p) => pc[p] \in Deciding /\ next' = next /\ rows' = rows
  BY <1>3 DEF AssertLatest, Deciding, Stay, ledger
<1>8. Tick \/ RevokeScope \/ FlowStep \/ UNCHANGED vars => pc' = pc /\ next' = next /\ rows' = rows
  BY DEF Tick, RevokeScope, FlowStep, vars, local, ledger
<1>9. \A q \in Procs :
         CreateNext(q) \/ ExecuteNext(q) \/ AssertLatest(q) \/ WriteRefused(q) \/ Crash(q)
         \/ CrashInRun(q) => q = p
  BY <1>1
<1> QED BY <1>4, <1>5, <1>6, <1>7, <1>8, <1>9 DEF Next

LEMMA QuietStopsKept ==
  ASSUME Inv, [Next]_vars, QuietStops
  PROVE  QuietStops'
<1> SUFFICES ASSUME OneCaller, NEW p \in Procs, pc'[p] \in Deciding, next'[p].status = "killed"
             PROVE  Started' = {}
  BY DEF QuietStops, Started, OneCaller
<1>1. call'[p].kind = "stop"
  <2>1. Inv' BY NextInv
  <2> QED BY <2>1 DEF Inv, CallOK, Fits, Decided
<1>2. CASE PreflightStops(p)
  <2> PICK s : s = seen[p] OBVIOUS
  <2> DEFINE required == ChangedTarget(s)
  <2>1. /\ pc[p] = "preflight" /\ s.status \in Active /\ rows' = rows
        /\ next' = [next EXCEPT ![p] = stop_attack_chain(s, required)]
    BY <1>2 DEF PreflightStops, Hold, Stay, ledger
  <2>2. Fits("preflight", call[p], s, next[p]) BY <2>1 DEF Inv, CallOK
  <2>3. Stored(s) BY <2>2 DEF Fits, Executing
  <2>4. s \in Checkpoint /\ CheckpointOK(s) BY <2>3, StoredTypes
  <2>5. /\ required \in BOOLEAN /\ (s.nodes[1] = "succeeded" => required)
        /\ Started # {} => required
    BY DEF ChangedTarget
  <2>6. next'[p] = stop_attack_chain(s, required) BY <2>1 DEF Inv, TypeOK
  <2> HIDE DEF required
  <2>7. ~ required BY <2>1, <2>4, <2>5, <2>6, StopOK
  <2> QED BY <2>1, <2>5, <2>7 DEF Started
<1>3. CASE pc[p] \in Deciding /\ next'[p] = next[p] /\ rows' = rows
  BY <1>3 DEF QuietStops, Started
<1> QED BY <1>1, <1>2, <1>3, StopSteps

\* With one caller at a time, a stop that meets a claim left open by a call that
\* was interrupted or died does not close the chain as killed
\* (attack_service.py, execute).
THEOREM UncertainIsNotKilled ==
  ASSUME OneCaller
  PROVE  Spec => UncertainNotKilled
<1>1. Init => QuietStops BY DEF Init, QuietStops, Deciding
<1>2. Inv /\ QuietStops /\ [Next]_vars => QuietStops' BY QuietStopsKept
<1>3. Spec => []QuietStops BY <1>1, <1>2, ChainInvariant, PTL DEF Spec
<1>4. Inv /\ QuietStops /\ [Next]_vars =>
         [log' # log /\ log'[Len(log')].status = "killed" => Started = {}]_vars
  <2> SUFFICES ASSUME Inv, QuietStops, Next, log' # log, log'[Len(log')].status = "killed"
               PROVE  Started = {}
    BY DEF vars, ledger
  <2>1. ~ (~ Exists /\ log' = <<PlannedCheckpoint>>) BY PlannedOK
  <2> PICK p \in Procs : pc[p] = "write" /\ RevisionFree(next[p]) /\ log' = Append(log, next[p])
    BY <2>1, LogSteps
  <2>2. next[p] \in Checkpoint BY WriteNext
  <2>3. log'[Len(log')] = next[p] BY <2>2, Appended
  <2> QED BY <2>3 DEF QuietStops, Deciding
<1> QED BY <1>3, <1>4, ChainInvariant, PTL DEF Spec, UncertainNotKilled
=============================================================================
