--------------------------- MODULE StageRunProofs ---------------------------
(***************************************************************************)
(* Proofs about StageRun, for any catalogue of well-formed services, any   *)
(* number of plans competing for a key and any number of callers.          *)
(***************************************************************************)
EXTENDS StageRun, TLAPS, FiniteSetTheorems, WellFoundedInduction

\* Every non-empty set of numbers has a least element: what the proofs use in
\* the place of induction.
LEMMA LeastNumber ==
  ASSUME NEW T, T \subseteq Nat, T # {}
  PROVE  \E x \in T : \A y \in T : x <= y
<1> DEFINE R == {ss \in Nat \X Nat : ss[1] < ss[2]}
<1>1. IsWellFoundedOn(R, Nat) BY NatLessThanWellFounded DEF OpToRel
<1>2. ASSUME NEW x \in Nat, NEW y \in Nat, <<y, x>> \notin R PROVE x <= y
  BY <1>2
<1> HIDE DEF R
<1>3. PICK x \in T : \A y \in T : ~ (<<y, x>> \in R) BY <1>1, WFMin
<1> QED BY <1>2, <1>3

-----------------------------------------------------------------------------
(* Phases of a program *)

\* The steps that PhasesUpTo counts.
Saves(prog, n) == {i \in 1..n : i <= Len(prog) /\ prog[i] = "save"}

\* They are finitely many, so their number is one.
LEMMA PhasesNat ==
  ASSUME NEW prog \in Seq(Steps), NEW n \in Nat
  PROVE  /\ IsFiniteSet(Saves(prog, n))
         /\ PhasesUpTo(prog, n) = Cardinality(Saves(prog, n))
         /\ PhasesUpTo(prog, n) \in Nat
<1>1. IsFiniteSet(1..n) BY FS_Interval
<1>2. Saves(prog, n) \subseteq 1..n BY DEF Saves
<1>3. IsFiniteSet(Saves(prog, n)) BY <1>1, <1>2, FS_Subset
<1> QED BY <1>3, FS_CardinalityType DEF PhasesUpTo, Saves

\* A step adds a phase exactly if it saves one.
LEMMA PhasesStep ==
  ASSUME NEW prog \in Seq(Steps), NEW n \in 1..Len(prog)
  PROVE  PhasesUpTo(prog, n) =
            PhasesUpTo(prog, n - 1) + (IF prog[n] = "save" THEN 1 ELSE 0)
<1>1. n \in Nat /\ n - 1 \in Nat /\ (n - 1) + 1 = n OBVIOUS
<1>2. /\ IsFiniteSet(Saves(prog, n - 1))
      /\ PhasesUpTo(prog, n - 1) = Cardinality(Saves(prog, n - 1))
      /\ PhasesUpTo(prog, n - 1) \in Nat
      /\ PhasesUpTo(prog, n) = Cardinality(Saves(prog, n))
  BY <1>1, PhasesNat
<1>3. CASE prog[n] = "save"
  <2>1. Saves(prog, n) = Saves(prog, n - 1) \cup {n} BY <1>3 DEF Saves
  <2>2. n \notin Saves(prog, n - 1) BY DEF Saves
  <2> QED BY <1>2, <1>3, <2>1, <2>2, FS_AddElement
<1>4. CASE prog[n] # "save"
  <2>1. Saves(prog, n) = Saves(prog, n - 1) BY <1>4 DEF Saves
  <2> QED BY <1>2, <1>4, <2>1
<1> QED BY <1>3, <1>4

\* The count only grows along a program.
LEMMA PhasesMonotone ==
  ASSUME NEW prog \in Seq(Steps), NEW m \in Nat, NEW n \in Nat, m <= n
  PROVE  PhasesUpTo(prog, m) <= PhasesUpTo(prog, n)
<1>1. Saves(prog, m) \subseteq Saves(prog, n) BY DEF Saves
<1> QED BY <1>1, PhasesNat, FS_Subset

\* Between two steps the count takes every value in between, and there is a
\* first step at which it does.
LEMMA PhasesReach ==
  ASSUME NEW prog \in Seq(Steps), NEW m \in Nat, NEW n \in 0..Len(prog), m <= n,
         NEW k \in Nat, PhasesUpTo(prog, m) <= k, k <= PhasesUpTo(prog, n)
  PROVE  \E i \in m..n : /\ PhasesUpTo(prog, i) = k
                         /\ \A j \in m..(i - 1) : PhasesUpTo(prog, j) < k
<1> DEFINE T == {i \in m..n : PhasesUpTo(prog, i) >= k}
<1>1. n \in T /\ T \subseteq Nat OBVIOUS
<1>2. PICK i \in T : \A y \in T : i <= y BY <1>1, LeastNumber
<1>3. i \in m..n /\ PhasesUpTo(prog, i) >= k OBVIOUS
<1>4. ASSUME NEW j \in m..(i - 1) PROVE PhasesUpTo(prog, j) < k
  <2>1. j \in m..n /\ j \notin T BY <1>2, <1>3
  <2>2. j \in Nat BY <1>3
  <2>3. PhasesUpTo(prog, j) \in Nat BY <2>2, PhasesNat
  <2> QED BY <2>1, <2>3
<1>5. PhasesUpTo(prog, i) = k
  <2>0. i \in Nat /\ PhasesUpTo(prog, i) \in Nat BY <1>1, PhasesNat
  <2>1. CASE i = m BY <1>3, <2>0, <2>1
  <2>2. CASE i # m
    <3>1. i - 1 \in m..(i - 1) /\ i - 1 \in Nat /\ i \in 1..Len(prog) BY <1>3, <2>2
    <3>2. PhasesUpTo(prog, i - 1) < k BY <1>4, <3>1
    <3>3. PhasesUpTo(prog, i - 1) \in Nat BY <3>1, PhasesNat
    <3>4. PhasesUpTo(prog, i) = PhasesUpTo(prog, i - 1) + (IF prog[i] = "save" THEN 1 ELSE 0)
      BY <3>1, PhasesStep
    <3> QED BY <1>3, <2>0, <3>2, <3>3, <3>4
  <2> QED BY <2>1, <2>2
<1> QED BY <1>3, <1>4, <1>5

-----------------------------------------------------------------------------
(* Types, and where a call is in its program *)

\* A row that is there has had an attempt, and holds no more phases than the
\* programs save; a finished one holds an outcome.
RowOK ==
    /\ row.state # "none" => row.attempt >= 1
    /\ row.saved <= Phases
    /\ Finished => row.outcome \in Outcomes

\* A call under way is at a step of its program, and has an attempt exactly
\* if it is past the step that takes the row.
Running(c) ==
    call[c].on =>
        /\ call[c].pc \in 1..Len(Program(c))
        /\ call[c].attempt >= 1 <=> After(Program(c), call[c].pc, Takes)

StageType == TypeOK /\ RowOK /\ \A c \in Calls : Running(c)

\* The service studied is one of the catalogue.
LEMMA Shape ==
  ASSUME TypeOK, NEW op \in Ops
  PROVE  svc[op] \in Seq(Steps) /\ Ordered(svc[op])
  BY ServicesWellFormed DEF TypeOK, WellFormed

\* What a service says about itself.
LEMMA ShapeFields ==
  ASSUME TypeOK
  PROVE  /\ svc.shared \in BOOLEAN /\ svc.fenced \in BOOLEAN /\ svc.takeover \in BOOLEAN
         /\ svc.attempts \in Nat /\ svc.exhausts \in BOOLEAN
         /\ svc.catches \subseteq Ends \ {"completed"}
         /\ SamePhases(svc) /\ SharedOnce(svc) /\ LooseOnly(svc) /\ KeepsPromises(svc)
  BY ServicesWellFormed DEF TypeOK, WellFormed

\* The program of a call.
LEMMA ProgramShape ==
  ASSUME TypeOK, NEW c \in Calls
  PROVE  /\ call[c].op \in Ops /\ Program(c) = svc[call[c].op]
         /\ Program(c) \in Seq(Steps) /\ Ordered(Program(c))
         /\ Len(Program(c)) \in Nat
<1>1. call[c].op \in Ops BY DEF TypeOK, Ops
<1> QED BY <1>1, Shape DEF Program

\* Both programs save Phases phases.
LEMMA PhasesOfBoth ==
  ASSUME TypeOK, NEW c \in Calls, Program(c) # <<>>
  PROVE  PhasesUpTo(Program(c), Len(Program(c))) = Phases
<1>1. CASE call[c].op = "execute" BY <1>1 DEF Program, Phases
<1>2. CASE call[c].op = "recover"
  BY <1>2, ShapeFields DEF Program, Phases, SamePhases
<1> QED BY <1>1, <1>2, ProgramShape DEF Ops

\* After a step that does not end the call there is a next one.
LEMMA GoesOn ==
  ASSUME TypeOK, NEW c \in Calls, call[c].on, Running(c),
         Program(c)[call[c].pc] \notin {"finish", "put"}
  PROVE  /\ call[c].pc + 1 \in 1..Len(Program(c))
         /\ After(Program(c), call[c].pc + 1, Takes) <=>
               \/ After(Program(c), call[c].pc, Takes)
               \/ Program(c)[call[c].pc] \in Takes
<1>1. call[c].pc \in 1..Len(Program(c)) /\ call[c].pc # Len(Program(c))
  BY ProgramShape DEF Running, Ordered
<1>2. call[c].pc + 1 \in 1..Len(Program(c)) BY <1>1, ProgramShape
<1>3. 1..((call[c].pc + 1) - 1) = 1..(call[c].pc - 1) \cup {call[c].pc}
  BY <1>1
<1> QED BY <1>2, <1>3 DEF After

\* No phase is saved up to the step that takes the row.
LEMMA NothingSavedYet ==
  ASSUME NEW prog \in Seq(Steps), Ordered(prog), NEW n \in 1..Len(prog), prog[n] \in Takes
  PROVE  PhasesUpTo(prog, n) = 0
<1>1. ASSUME NEW i \in 1..n, prog[i] = "save" PROVE FALSE
  <2>1. i \in 1..Len(prog) /\ prog[i] \in UnderClaim BY <1>1 DEF UnderClaim
  <2>2. PICK j \in 1..(i - 1) : prog[j] \in Takes BY <2>1 DEF Ordered, After
  <2>3. j \in 1..Len(prog) /\ j < n BY <2>1
  <2> QED BY <2>2, <2>3 DEF Ordered
<1>2. Saves(prog, n) = {} BY <1>1 DEF Saves
<1> QED BY <1>2, PhasesNat, FS_EmptySet

\* The last step saves nothing.
LEMMA LastSavesNothing ==
  ASSUME NEW prog \in Seq(Steps), Ordered(prog), prog # <<>>
  PROVE  PhasesUpTo(prog, Len(prog) - 1) = PhasesUpTo(prog, Len(prog))
<1>1. Len(prog) \in 1..Len(prog) /\ Len(prog) - 1 \in Nat OBVIOUS
<1>2. prog[Len(prog)] # "save" BY <1>1 DEF Ordered
<1>3. PhasesUpTo(prog, Len(prog)) = PhasesUpTo(prog, Len(prog) - 1) + 0
  BY <1>1, <1>2, PhasesStep
<1>4. PhasesUpTo(prog, Len(prog) - 1) \in Nat BY <1>1, PhasesNat
<1> QED BY <1>3, <1>4

\* A caller that joins a row goes on at a step after the claim, the first one
\* that has the phases of the row behind it.
LEMMA JoinAtType ==
  ASSUME StageType, NEW c \in Calls, At(c, "claim")
  PROVE  /\ JoinAt(c) \in 1..Len(Program(c)) /\ JoinAt(c) > call[c].pc
         /\ PhasesUpTo(Program(c), JoinAt(c) - 1) = row.saved
         /\ \A j \in 1..(JoinAt(c) - 1) : j > call[c].pc =>
                PhasesUpTo(Program(c), j - 1) # row.saved
<1> DEFINE prog == Program(c)
           n == call[c].pc
<1>1. prog \in Seq(Steps) /\ Ordered(prog) /\ n \in 1..Len(prog) /\ prog[n] = "claim"
  BY ProgramShape DEF StageType, Running, At
<1>2. n < Len(prog) BY <1>1 DEF Ordered
<1>3. PhasesUpTo(prog, n) = 0 BY <1>1, NothingSavedYet DEF Takes
<1>4. PhasesUpTo(prog, Len(prog) - 1) = Phases
  <2>1. prog # <<>> BY <1>1
  <2> QED BY <1>1, <2>1, LastSavesNothing, PhasesOfBoth DEF StageType
<1>5. row.saved \in Nat /\ row.saved <= Phases BY DEF StageType, RowOK, TypeOK
<1> HIDE DEF prog, n
<1>6. n \in Nat /\ Len(prog) - 1 \in 0..Len(prog) /\ n <= Len(prog) - 1 BY <1>1, <1>2
<1>7. PICK i \in n..(Len(prog) - 1) :
          /\ PhasesUpTo(prog, i) = row.saved
          /\ \A j \in n..(i - 1) : PhasesUpTo(prog, j) < row.saved
  <2>1. PhasesUpTo(prog, n) <= row.saved /\ row.saved <= PhasesUpTo(prog, Len(prog) - 1)
    BY <1>3, <1>4, <1>5
  <2> QED BY <1>1, <1>5, <1>6, <2>1, PhasesReach
<1>8. /\ i + 1 \in 1..Len(prog) /\ i + 1 > n /\ (i + 1) - 1 = i
      /\ PhasesUpTo(prog, (i + 1) - 1) = row.saved
  BY <1>6, <1>7
<1>9. ASSUME NEW j \in 1..((i + 1) - 1), j > n PROVE PhasesUpTo(prog, j - 1) # row.saved
  <2>1. j - 1 \in n..(i - 1) /\ j - 1 \in Nat BY <1>6, <1>9
  <2>2. PhasesUpTo(prog, j - 1) \in Nat BY <1>1, <2>1, PhasesNat
  <2> QED BY <1>5, <1>7, <2>1, <2>2
<1>10. \E k \in 1..Len(prog) :
          /\ k > n /\ PhasesUpTo(prog, k - 1) = row.saved
          /\ \A j \in 1..(k - 1) : j > n => PhasesUpTo(prog, j - 1) # row.saved
  BY <1>8, <1>9
<1> QED BY <1>10 DEF JoinAt, prog, n

\* The parts of TypeOK that most steps change.
RowType == [state : {"none", "started", "waiting"} \cup Ends, plan : Plans, attempt : Nat,
            saved : Nat, outcome : Outcomes \cup {NoOutcome}, at : Times]
CallType == [on : BOOLEAN, op : Ops, pc : Nat, plan : Plans, attempt : Nat, inTime : BOOLEAN,
             at : Times]
CallsOK == call \in [Calls -> CallType] /\ \A c \in Calls : Running(c)

\* There is a plan, so the one that stands for none is a plan.
LEMMA AnyPlanType == AnyPlan \in Plans
  BY SomePlan DEF AnyPlan

\* There is a time, so the one that stands for none is one, and so are all that
\* a service compares.
LEMMA AnyTimeType == AnyTime \in Times /\ Instants \subseteq Times
  BY SomeTime DEF AnyTime, Instants

\* StageType in the parts the steps change, in this state ...
LEMMA TypeParts ==
  StageType <=>
    /\ svc \in Services /\ row \in RowType /\ RowOK /\ CallsOK
    /\ upstream \in BOOLEAN /\ moved \in BOOLEAN /\ closed \in BOOLEAN
    /\ prepared \subseteq Plans
    /\ worked \subseteq (Plans \X Nat \X Nat) /\ twice \in BOOLEAN
    /\ artefacts \subseteq (Plans \X Nat \X Nat)
    /\ answers \subseteq Outcomes
    /\ takenFresh \in BOOLEAN
    /\ inner \in InnerRows
  BY DEF StageType, TypeOK, RowType, CallType, CallsOK, Ops

\* ... and in the next one.
LEMMA TypePartsNext ==
  ASSUME svc' \in Services, row' \in RowType, RowOK', CallsOK',
         upstream' \in BOOLEAN, moved' \in BOOLEAN, closed' \in BOOLEAN,
         prepared' \subseteq Plans,
         worked' \subseteq (Plans \X Nat \X Nat), twice' \in BOOLEAN,
         artefacts' \subseteq (Plans \X Nat \X Nat),
         answers' \subseteq Outcomes,
         takenFresh' \in BOOLEAN,
         inner' \in InnerRows
  PROVE  StageType'
  BY DEF StageType, TypeOK, RowType, CallType, CallsOK, Ops

\* The programs save some number of phases.
LEMMA PhasesNatural == ASSUME TypeOK PROVE Phases \in Nat
<1>1. svc.execute \in Seq(Steps) BY Shape DEF Ops
<1> QED BY <1>1, PhasesNat DEF Phases

\* What a call does to its own record: it ends, ...
LEMMA LeaveCalls ==
  ASSUME StageType, NEW c \in Calls, Leave(c), svc' = svc PROVE CallsOK'
<1>1. Idle \in CallType BY AnyPlanType, AnyTimeType DEF Idle, CallType, Ops
<1>2. call' \in [Calls -> CallType] BY <1>1, TypeParts DEF Leave, CallsOK
<1>3. ASSUME NEW d \in Calls PROVE Running(d)'
  BY <1>3, TypeParts DEF Leave, CallsOK, Running, Program, Idle
<1> QED BY <1>2, <1>3 DEF CallsOK

\* ... goes on, ...
LEMMA NextCalls ==
  ASSUME StageType, NEW c \in Calls, call[c].on, Next1(c), svc' = svc,
         Program(c)[call[c].pc] \notin Takes \cup {"finish", "put"}
  PROVE  CallsOK'
<1>1. TypeOK /\ Running(c) BY DEF StageType
<1>2. call' \in [Calls -> CallType] BY TypeParts DEF Next1, CallsOK, CallType
<1>3. ASSUME NEW d \in Calls PROVE Running(d)'
  <2>1. CASE d # c
    BY <2>1, TypeParts DEF Next1, CallsOK, Running, Program
  <2>2. CASE d = c
    <3>1. /\ call'[c].pc = call[c].pc + 1 /\ call'[c].op = call[c].op
          /\ call'[c].attempt = call[c].attempt /\ Program(c)' = Program(c)
      BY TypeParts DEF Next1, CallsOK, CallType, Program
    <3>2. /\ call[c].pc + 1 \in 1..Len(Program(c))
          /\ After(Program(c), call[c].pc + 1, Takes) <=> After(Program(c), call[c].pc, Takes)
      BY <1>1, GoesOn
    <3>3. call'[c].attempt >= 1 <=> After(Program(c)', call'[c].pc, Takes)
      BY <1>1, <3>1, <3>2 DEF Running
    <3> QED BY <2>2, <3>1, <3>2, <3>3 DEF Running
  <2> QED BY <2>1, <2>2
<1> QED BY <1>2, <1>3 DEF CallsOK

\* ... or goes on with an attempt, at a step after the one that takes the row.
LEMMA TakeCalls ==
  ASSUME StageType, NEW c \in Calls, call[c].on, svc' = svc,
         Program(c)[call[c].pc] \in Takes,
         NEW n \in Nat, n >= 1, NEW i \in 1..Len(Program(c)), i > call[c].pc,
         call' = [call EXCEPT ![c].pc = i, ![c].attempt = n]
  PROVE  CallsOK'
<1>1. TypeOK /\ Running(c) BY DEF StageType
<1>0. i \in Nat BY <1>1, ProgramShape
<1>2. call' \in [Calls -> CallType] BY <1>0, TypeParts DEF CallsOK, CallType
<1>3. ASSUME NEW d \in Calls PROVE Running(d)'
  <2>1. CASE d # c
    BY <2>1, TypeParts DEF CallsOK, Running, Program
  <2>2. CASE d = c
    <3>1. /\ call'[c].pc = i /\ call'[c].op = call[c].op
          /\ call'[c].attempt = n /\ Program(c)' = Program(c)
      BY TypeParts DEF CallsOK, CallType, Program
    <3>2. call[c].pc \in 1..(i - 1) BY <1>0, <1>1 DEF Running
    <3>3. After(Program(c), i, Takes) BY <3>2 DEF After
    <3> QED BY <2>2, <3>1, <3>3 DEF Running
  <2> QED BY <2>1, <2>2
<1> QED BY <1>2, <1>3 DEF CallsOK

\* Calls that are left alone.
LEMMA SameCalls ==
  ASSUME StageType, call' = call, svc' = svc PROVE CallsOK'
  BY TypeParts DEF CallsOK, Running, Program

\* A row that is left alone.
LEMMA SameRow == ASSUME StageType, row' = row, svc' = svc PROVE row' \in RowType /\ RowOK'
  BY TypeParts DEF RowOK, Phases, Finished

\* A step of a call finds what its record and its program say.
LEMMA AtStep ==
  ASSUME StageType, NEW c \in Calls, NEW step, At(c, step)
  PROVE  /\ call[c].on /\ Program(c)[call[c].pc] = step
         /\ call[c].pc \in 1..Len(Program(c)) /\ Program(c) \in Seq(Steps)
         /\ call[c] \in CallType /\ Running(c) /\ Ordered(Program(c)) /\ Program(c) # <<>>
<1>1. call[c].on /\ Program(c)[call[c].pc] = step BY DEF At
<1>2. call[c] \in CallType /\ Running(c) /\ TypeOK BY TypeParts DEF CallsOK, StageType
<1>3. call[c].pc \in 1..Len(Program(c)) BY <1>1, <1>2 DEF Running
<1>4. Program(c) \in Seq(Steps) /\ Ordered(Program(c)) BY <1>2, ProgramShape
<1>5. Program(c) # <<>> BY <1>3, <1>4
<1> QED BY <1>1, <1>2, <1>3, <1>4, <1>5

\* Under a claim a call has an attempt.
LEMMA AtWork ==
  ASSUME StageType, NEW c \in Calls, NEW step \in UnderClaim, At(c, step)
  PROVE  call[c].attempt >= 1
<1>1. /\ call[c].on /\ Program(c)[call[c].pc] = step
      /\ call[c].pc \in 1..Len(Program(c)) /\ Running(c) /\ Ordered(Program(c))
  BY AtStep
<1>2. After(Program(c), call[c].pc, Takes) BY <1>1 DEF Ordered
<1> QED BY <1>1, <1>2 DEF Running

\* The initial state has the types.
LEMMA StageTypeInit == Init => StageType
<1> SUFFICES ASSUME Init PROVE StageType OBVIOUS
<1>1. AnyPlan \in Plans /\ AnyTime \in Times BY AnyPlanType, AnyTimeType
<1>2. Idle \in CallType /\ ~Idle.on BY <1>1 DEF Idle, CallType, Ops
<1>3. CallsOK BY <1>2 DEF Init, CallsOK, Running
<1>4. row \in RowType BY <1>1 DEF Init, NoRow, RowType
<1>5. RowOK
  <2>1. svc.execute \in Seq(Steps)
    BY ServicesWellFormed DEF Init, WellFormed, Ops
  <2>2. Phases \in Nat BY <2>1, PhasesNat DEF Phases
  <2> QED BY <2>2 DEF Init, RowOK, NoRow, Finished, Ends
<1>6. inner \in InnerRows BY <1>1 DEF Init, NoInner, InnerRows
<1> QED BY <1>3, <1>4, <1>5, <1>6, TypeParts DEF Init

\* Steps of a call that change its place in the program and nothing of the row.
LEMMA PassType == ASSUME StageType, NEW c \in Calls, Pass(c) PROVE StageType'
<1>1. call[c].on /\ Program(c)[call[c].pc] \notin Takes \cup {"finish", "put"}
  BY DEF Pass, Holds, At, Checks, Takes
<1>2. CallsOK' BY <1>1, NextCalls DEF Pass, EnvUnchanged
<1>3. row' \in RowType /\ RowOK' BY SameRow DEF Pass, EnvUnchanged, LedgerUnchanged
<1> QED BY <1>2, <1>3, TypeParts, TypePartsNext DEF Pass, EnvUnchanged, LedgerUnchanged, WorkUnchanged

\* A run of the wrapped service that begins, or is completed.
LEMMA InnerRowType ==
  /\ \A by \in {"wrapper", "direct"}, t \in Times : InnerRow(by, t) \in InnerRows
  /\ inner \in InnerRows => [inner EXCEPT !.state = "completed"] \in InnerRows
<1>1. (row.state # "none") \in BOOLEAN OBVIOUS
<1>2. ASSUME NEW by \in {"wrapper", "direct"}, NEW t \in Times, NEW g \in BOOLEAN
      PROVE  [state |-> "started", by |-> by, at |-> t, gated |-> g] \in InnerRows
  BY DEF InnerRows
<1>3. inner \in InnerRows => [inner EXCEPT !.state = "completed"] \in InnerRows
  BY DEF InnerRows
<1> QED BY <1>1, <1>2, <1>3, Zenon DEF InnerRow

\* The wrapped service's row is one of its states.
LEMMA InnerType ==
  ASSUME StageType, NEW c \in Calls, Wrap(c) \/ Settle(c) PROVE StageType'
<1>1. call[c].on /\ Program(c)[call[c].pc] \notin Takes \cup {"finish", "put"}
  BY DEF Wrap, Settle, At, Takes
<1>2. CallsOK' BY <1>1, NextCalls DEF Wrap, Settle
<1>3. row' \in RowType /\ RowOK' BY SameRow DEF Wrap, Settle, LedgerUnchanged
<1>4. inner' \in InnerRows
  <2>1. inner \in InnerRows /\ call[c].at \in Times BY TypeParts DEF CallsOK, CallType
  <2> QED BY <2>1, InnerRowType DEF Wrap, Settle
<1> QED BY <1>2, <1>3, <1>4, TypeParts, TypePartsNext DEF Wrap, Settle, LedgerUnchanged, WorkUnchanged

\* The work and the artefacts are of the plan and attempt of the call.
LEMMA WorkType ==
  ASSUME StageType, NEW c \in Calls, Effect(c) \/ Publish(c) PROVE StageType'
<1>1. call[c].on /\ Program(c)[call[c].pc] \notin Takes \cup {"finish", "put"}
  BY DEF Effect, Publish, At, Takes
<1>2. CallsOK' BY <1>1, NextCalls DEF Effect, Publish, EnvUnchanged
<1>3. row' \in RowType /\ RowOK' BY SameRow DEF Effect, Publish, EnvUnchanged, LedgerUnchanged
<1>4. call[c] \in CallType BY TypeParts DEF CallsOK
<1>5. Did(c) \in Plans \X Nat \X Nat BY <1>4 DEF Did, CallType
<1>6. Artefact(c) \in Plans \X Nat \X Nat
  <2>1. call[c].pc \in 1..Len(Program(c)) /\ Program(c) \in Seq(Steps)
    BY <1>1, ProgramShape DEF StageType, Running
  <2>0. call[c].pc - 1 \in Nat BY <2>1
  <2>2. Seen(c) \in Nat BY <2>0, <2>1, PhasesNat DEF Seen
  <2> QED BY <1>4, <2>2 DEF Artefact, CallType
<1>7. worked' \subseteq (Plans \X Nat \X Nat) /\ artefacts' \subseteq (Plans \X Nat \X Nat)
  BY <1>5, <1>6, TypeParts DEF Effect, Publish
<1>8. twice' \in BOOLEAN
  BY TypeParts DEF Effect, Publish
<1> QED BY <1>2, <1>3, <1>7, <1>8, TypeParts, TypePartsNext DEF Effect, Publish, EnvUnchanged, LedgerUnchanged

\* A save adds no phase the programs do not have.
LEMMA SaveType == ASSUME StageType, NEW c \in Calls, Save(c) PROVE StageType'
<1>1. call[c].on /\ Program(c)[call[c].pc] = "save" BY DEF Save, At
<1>2. CallsOK' BY <1>1, NextCalls DEF Save, EnvUnchanged, Takes
<1>3. row' \in RowType /\ RowOK'
  <2> DEFINE prog == Program(c)
             n == call[c].pc
  <2>1. prog \in Seq(Steps) /\ n \in 1..Len(prog) /\ prog # <<>>
    BY AtStep DEF Save
  <2>2. PhasesUpTo(prog, n) = PhasesUpTo(prog, n - 1) + 1 BY <1>1, <2>1, PhasesStep
  <2>3. PhasesUpTo(prog, n) <= PhasesUpTo(prog, Len(prog)) BY <2>1, PhasesMonotone
  <2>4. PhasesUpTo(prog, Len(prog)) = Phases BY <2>1, PhasesOfBoth DEF StageType
  <2>5. Seen(c) + 1 \in Nat /\ Seen(c) + 1 <= Phases
    BY <2>1, <2>2, <2>3, <2>4, PhasesNat DEF Seen
  <2>6. svc' = svc /\ Phases' = Phases BY DEF Save, EnvUnchanged, Phases
  <2>7. CASE row' = row BY <2>6, <2>7, SameRow
  <2>8. CASE row' = [row EXCEPT !.saved = Seen(c) + 1]
    BY <2>5, <2>6, <2>8, TypeParts DEF RowType, RowOK, Finished
  <2> QED BY <2>7, <2>8 DEF Save
<1> QED BY <1>2, <1>3, TypeParts, TypePartsNext DEF Save, EnvUnchanged, WorkUnchanged

\* Steps that take the row.
LEMMA TakeType ==
  ASSUME StageType, NEW c \in Calls, call[c].on, Program(c)[call[c].pc] \in Takes,
         NEW n \in Nat, n >= 1, TakeAttempt(c, n), row' \in RowType, RowOK'
  PROVE  StageType'
<1>1. Program(c)[call[c].pc] \notin {"finish", "put"} BY DEF Takes
<1>2. call[c].pc + 1 \in 1..Len(Program(c)) /\ call[c].pc + 1 > call[c].pc
  BY <1>1, GoesOn, ProgramShape DEF StageType, Running
<1>3. call' = [call EXCEPT ![c].pc = call[c].pc + 1, ![c].attempt = n]
  BY TypeParts DEF TakeAttempt, CallsOK, CallType
<1>4. CallsOK' BY <1>2, <1>3, TakeCalls DEF TakeAttempt, EnvUnchanged
<1> QED BY <1>4, TypeParts, TypePartsNext DEF TakeAttempt, EnvUnchanged, WorkUnchanged

\* All the ways to take the row, and to join one that is shared.
LEMMA ClaimType ==
  ASSUME StageType, NEW c \in Calls, Claim(c) \/ Recover(c) \/ Resume(c) PROVE StageType'
<1>0. call[c].on /\ Program(c)[call[c].pc] \in Takes /\ call[c] \in CallType
  BY TypeParts DEF Claim, Recover, Resume, At, Takes, CallsOK
<1>1. CASE NewRow(c) /\ TakeAttempt(c, 1)
  <2>1. row' = [NoRow EXCEPT !.state = "started", !.plan = call[c].plan, !.attempt = 1,
                             !.at = call[c].at]
    BY <1>1 DEF NewRow
  <2>2. Phases' = Phases /\ Phases \in Nat
    BY <1>1, PhasesNatural DEF TakeAttempt, EnvUnchanged, Phases, StageType
  <2>3. row' \in RowType /\ RowOK'
    <3>1. row' = [state |-> "started", plan |-> call[c].plan, attempt |-> 1, saved |-> 0,
                  outcome |-> NoOutcome, at |-> call[c].at]
      BY <2>1 DEF NoRow
    <3> QED BY <1>0, <2>2, <3>1 DEF RowType, RowOK, CallType, Finished, Ends
  <2> QED BY <1>0, <1>1, <2>3, TakeType
<1>2. CASE NextAttempt(c) /\ TakeAttempt(c, row.attempt + 1)
  <2>1. row.attempt \in Nat /\ row.attempt + 1 >= 1 BY TypeParts DEF RowType
  <2>2. row' = [row EXCEPT !.attempt = row.attempt + 1] BY <1>2 DEF NextAttempt
  <2>3. row' \in RowType /\ RowOK'
    <3>1. row \in RowType /\ RowOK BY TypeParts
    <3>2. Phases' = Phases /\ row.state = "started"
      BY <1>2 DEF Phases, NextAttempt, TakeAttempt, EnvUnchanged
    <3> QED BY <2>1, <2>2, <3>1, <3>2 DEF RowType, RowOK, Finished, Ends
  <2> QED BY <1>0, <1>2, <2>1, <2>3, TakeType
<1>3. CASE At(c, "claim") /\ Join(c)
  <2>1. row.attempt \in Nat /\ row.attempt >= 1
    BY <1>3, TypeParts DEF Join, RowOK, RowType
  <2>2. JoinAt(c) \in 1..Len(Program(c)) /\ JoinAt(c) > call[c].pc BY <1>3, JoinAtType
  <2>3. CallsOK' BY <1>0, <1>3, <2>1, <2>2, TakeCalls DEF Join, EnvUnchanged
  <2>4. row' \in RowType /\ RowOK' BY <1>3, SameRow DEF Join, EnvUnchanged
  <2> QED BY <1>3, <2>3, <2>4, TypeParts, TypePartsNext DEF Join, EnvUnchanged, WorkUnchanged
<1>4. CASE Resume(c)
  <2>1. row.attempt \in Nat /\ row.attempt + 1 >= 1 BY TypeParts DEF RowType
  <2>2. row' = [row EXCEPT !.state = "started", !.attempt = row.attempt + 1] BY <1>4 DEF Resume
  <2>3. Phases' = Phases BY <1>4 DEF Phases, Resume, TakeAttempt, EnvUnchanged
  <2>4. row' \in RowType /\ RowOK'
    <3>1. row \in RowType /\ RowOK BY TypeParts
    <3>2. row' = [state |-> "started", plan |-> row.plan, attempt |-> row.attempt + 1,
                  saved |-> row.saved, outcome |-> row.outcome, at |-> row.at]
      BY <2>2, <3>1 DEF RowType
    <3> QED BY <2>1, <2>3, <3>1, <3>2 DEF RowType, RowOK, Finished, Ends
  <2> QED BY <1>0, <1>4, <2>1, <2>4, TakeType DEF Resume
<1> QED BY <1>1, <1>2, <1>3, <1>4 DEF Claim, Recover

\* Steps that end the call.
LEMMA ReplayType == ASSUME StageType, NEW c \in Calls, Replay(c) PROVE StageType'
<1>0. row.outcome \in Outcomes BY TypeParts DEF Replay, RowOK
<1>1. CallsOK' BY LeaveCalls DEF Replay, EnvUnchanged
<1>2. row' \in RowType /\ RowOK' BY SameRow DEF Replay, EnvUnchanged
<1> QED BY <1>0, <1>1, <1>2, TypeParts, TypePartsNext DEF Replay, EnvUnchanged, WorkUnchanged

\* An end is written with the outcome of the call.
LEMMA EndType ==
  ASSUME StageType, NEW c \in Calls, NEW end \in Ends, row.state # "none", End(c, end)
  PROVE  StageType'
<1>1. CallsOK' BY LeaveCalls DEF End, EnvUnchanged
<1>2. Outcome(c, end) \in Outcomes
  BY TypeParts DEF Outcome, Outcomes, CallsOK, CallType
<1>3. row' \in RowType /\ RowOK'
  BY <1>2, TypeParts DEF End, EnvUnchanged, RowType, RowOK, Phases, Finished, Ends
<1> QED BY <1>1, <1>2, <1>3, TypeParts, TypePartsNext DEF End, EnvUnchanged, WorkUnchanged

\* A row whose attempts are used up ends with an outcome of its own.
LEMMA ExhaustType == ASSUME StageType, NEW c \in Calls, Exhaust(c) PROVE StageType'
<1>1. CallsOK' BY LeaveCalls DEF Exhaust, EnvUnchanged
<1>2. [plan |-> row.plan, attempt |-> row.attempt, end |-> "failed"] \in Outcomes
  BY TypeParts DEF RowType, Outcomes, Ends
<1>3. Phases' = Phases BY DEF Exhaust, EnvUnchanged, Phases
<1>4. row' \in RowType /\ RowOK'
  BY <1>2, <1>3, TypeParts DEF Exhaust, RowType, RowOK, Finished, Ends
<1> QED BY <1>1, <1>4, TypeParts, TypePartsNext DEF Exhaust, EnvUnchanged, WorkUnchanged

\* A row that is put aside keeps all but its state.
LEMMA PauseType == ASSUME StageType, NEW c \in Calls, Pause(c) PROVE StageType'
<1>1. CallsOK' BY LeaveCalls DEF Pause, EnvUnchanged
<1>2. Phases' = Phases BY DEF Pause, EnvUnchanged, Phases
<1>3. row' \in RowType /\ RowOK'
  BY <1>2, TypeParts DEF Pause, Fence, RowType, RowOK, Finished, Ends
<1> QED BY <1>1, <1>3, TypeParts, TypePartsNext DEF Pause, EnvUnchanged, WorkUnchanged

\* A completion that went unnoticed leaves the row.
LEMMA UnnoticedType == ASSUME StageType, NEW c \in Calls, FinishUnnoticed(c) PROVE StageType'
<1>1. CallsOK' BY LeaveCalls DEF FinishUnnoticed, EnvUnchanged
<1>2. row' \in RowType /\ RowOK' BY SameRow DEF FinishUnnoticed, EnvUnchanged
<1>3. Outcome(c, "completed") \in Outcomes
  BY TypeParts DEF Outcome, Outcomes, CallsOK, CallType, Ends
<1> QED BY <1>1, <1>2, <1>3, TypeParts, TypePartsNext DEF FinishUnnoticed, EnvUnchanged, WorkUnchanged

\* A row that is made complete has one attempt and no phases.
LEMMA PutType == ASSUME StageType, NEW c \in Calls, Put(c) PROVE StageType'
<1> DEFINE outcome == [plan |-> call[c].plan, attempt |-> 1, end |-> "completed"]
<1>1. CallsOK' BY LeaveCalls DEF Put, EnvUnchanged
<1>2. call[c].plan \in Plans /\ call[c].at \in Times BY TypeParts DEF CallsOK, CallType
<1>3. outcome \in Outcomes BY <1>2 DEF Outcomes, Ends
<1>4. Phases' = Phases /\ Phases \in Nat
  BY PhasesNatural DEF Put, EnvUnchanged, Phases, StageType
<1>5. row' = [state |-> "completed", plan |-> call[c].plan, attempt |-> 1, saved |-> 0,
              outcome |-> outcome, at |-> call[c].at]
  BY DEF Put, NoRow
<1> HIDE DEF outcome
<1>6. row' \in RowType /\ RowOK' BY <1>2, <1>3, <1>4, <1>5 DEF RowType, RowOK, Ends
<1>7. answers' \subseteq Outcomes /\ takenFresh' \in BOOLEAN
  BY <1>3, TypeParts DEF Put, outcome
<1> QED BY <1>1, <1>6, <1>7, TypeParts, TypePartsNext DEF Put, EnvUnchanged, WorkUnchanged

\* A call that ends for whatever reason leaves the row.
LEMMA AbortType == ASSUME StageType, NEW c \in Calls, Abort(c) PROVE StageType'
<1>1. CallsOK' BY LeaveCalls DEF Abort, EnvUnchanged
<1>2. row' \in RowType /\ RowOK' BY SameRow DEF Abort, EnvUnchanged, LedgerUnchanged
<1> QED BY <1>1, <1>2, TypeParts, TypePartsNext
        DEF Abort, EnvUnchanged, LedgerUnchanged, WorkUnchanged

\* A new call is at the first step of its program.
LEMMA StartType ==
  ASSUME StageType, NEW c \in Calls, NEW op \in Ops, NEW p \in Plans, NEW t \in Times,
         Start(c, op, p, t)
  PROVE  StageType'
<1> DEFINE new == [on |-> TRUE, op |-> op, pc |-> 1, plan |-> p, attempt |-> 0,
                   inTime |-> ~closed, at |-> t]
<1>1. call' = [call EXCEPT ![c] = new] /\ svc[op] # <<>> /\ svc' = svc
  BY DEF Start, EnvUnchanged
<1>2. new \in CallType /\ new.pc = 1 /\ new.attempt = 0 /\ new.op = op BY TypeParts DEF CallType
<1> HIDE DEF new
<1>3. call' \in [Calls -> CallType] BY <1>1, <1>2, TypeParts DEF CallsOK
<1>4. ASSUME NEW d \in Calls PROVE Running(d)'
  <2>1. CASE d # c
    BY <1>1, <2>1, TypeParts DEF CallsOK, Running, Program
  <2>2. CASE d = c
    <3>1. Program(c)' = svc[op] /\ call'[c] = new
      BY <1>1, <1>2, TypeParts DEF Program, CallsOK
    <3>2. 1 \in 1..Len(svc[op]) BY <1>1, Shape DEF StageType
    <3>3. ~After(svc[op], 1, Takes) BY DEF After
    <3> QED BY <1>2, <2>2, <3>1, <3>2, <3>3 DEF Running
  <2> QED BY <2>1, <2>2
<1>5. row' \in RowType /\ RowOK' BY <1>1, SameRow DEF Start, LedgerUnchanged
<1>6. CallsOK' BY <1>3, <1>4 DEF CallsOK
<1> QED BY <1>5, <1>6, TypeParts, TypePartsNext
        DEF Start, EnvUnchanged, LedgerUnchanged, WorkUnchanged

\* The surroundings and prepare.
Surroundings ==
    \/ \E p \in Plans : Prepare(p)
    \/ UpstreamFinishes \/ Withdraw \/ WindowCloses \/ InnerMoves

\* Nothing outside a call touches a row.
LEMMA SurroundingsType == ASSUME StageType, Surroundings PROVE StageType'
<1>1. svc' = svc /\ call' = call /\ row' = row
  BY DEF Surroundings, Prepare, UpstreamFinishes, Withdraw, WindowCloses, InnerMoves,
         EnvUnchanged, LedgerUnchanged
<1>2. CallsOK' BY <1>1, SameCalls
<1>3. row' \in RowType /\ RowOK' BY <1>1, SameRow
<1>4. inner' \in InnerRows
  BY TypeParts, AnyTimeType, InnerRowType
     DEF Surroundings, Prepare, UpstreamFinishes, Withdraw, WindowCloses, InnerMoves,
         EnvUnchanged
<1> QED BY <1>1, <1>2, <1>3, <1>4, TypeParts, TypePartsNext
        DEF Surroundings, Prepare, UpstreamFinishes, Withdraw, WindowCloses, InnerMoves,
            EnvUnchanged, LedgerUnchanged, WorkUnchanged

\* A step of the system is a step of one call, a new call or the surroundings.
Ending(c) == Finish(c) \/ Expire(c) \/ \E end \in Ends : Fail(c, end)

\* An attempt writes its outcome, or finds that another one has.
LEMMA EndingIs ==
  ASSUME NEW c \in Calls, Ending(c)
  PROVE  \/ \E end \in Ends : Fence(c) /\ End(c, end)
         \/ FinishUnnoticed(c)
  BY DEF Ending, Finish, Expire, Fail, Ends

\* Every step keeps the types.
LEMMA StageTypeNext == StageType /\ [Next]_vars => StageType'
<1> SUFFICES ASSUME StageType, [Next]_vars PROVE StageType' OBVIOUS
<1>1. CASE UNCHANGED vars
  BY <1>1, TypeParts, TypePartsNext, SameCalls, SameRow DEF vars
<1>2. ASSUME NEW c \in Calls, Step(c) PROVE StageType'
  <2>1. CASE Pass(c) BY <2>1, PassType
  <2>2. CASE Claim(c) \/ Recover(c) \/ Resume(c) BY <2>2, ClaimType
  <2>3. CASE Replay(c) BY <2>3, ReplayType
  <2>4. CASE Exhaust(c) BY <2>4, ExhaustType
  <2>5. CASE Pause(c) BY <2>5, PauseType
  <2>6. CASE Wrap(c) \/ Settle(c) BY <2>6, InnerType
  <2>7. CASE Effect(c) \/ Publish(c) BY <2>7, WorkType
  <2>8. CASE Save(c) BY <2>8, SaveType
  <2>9. CASE Put(c) BY <2>9, PutType
  <2>10. CASE Expire(c) \/ Finish(c)
    BY <2>10, EndingIs, EndType, UnnoticedType DEF Ending, Fence
  <2> QED BY <1>2, <2>1, <2>2, <2>3, <2>4, <2>5, <2>6, <2>7, <2>8, <2>9, <2>10 DEF Step
<1>3. ASSUME NEW c \in Calls, NEW end \in Ends, Fail(c, end) PROVE StageType'
  BY <1>3, EndType DEF Fail, Fence
<1>4. CASE Surroundings BY <1>4, SurroundingsType
<1> QED BY <1>1, <1>2, <1>3, <1>4, AbortType, StartType DEF Next, Surroundings, Ops

\* In every reachable state the row, the calls and the history variables have
\* their types, every call is at a step of its program, and it has an attempt
\* exactly if that step comes after the one that takes the row.
THEOREM StageTypes == Spec => []StageType
  BY StageTypeInit, StageTypeNext, PTL DEF Spec

-----------------------------------------------------------------------------
(* Claims: who may work, who may write, and what callers hear *)

Claimed(c) == call[c].on /\ call[c].attempt >= 1

\* A call that has an attempt has it of the row of its own plan.
HoldsRow(c) ==
    Claimed(c) => /\ row.state # "none" /\ row.plan = call[c].plan
                  /\ call[c].attempt <= row.attempt

\* No two calls have the same attempt, unless the row is shared.
Alone(c, d) ==
    c # d /\ Claimed(c) /\ Claimed(d) /\ ~svc.shared => call[c].attempt # call[d].attempt

\* The work of an attempt was done at steps its call has behind it.
WorkBehind(c) ==
    Claimed(c) /\ ~svc.shared =>
        \A w \in worked : w[2] = call[c].attempt => w[3] < call[c].pc

CallInv ==
    /\ \A c \in Calls : HoldsRow(c) /\ WorkBehind(c)
    /\ \A c, d \in Calls : Alone(c, d)

\* Where completions are not fenced, the row has no end but completion.
LooseRow == ~svc.fenced => row.state \in {"none", "started", "completed"}

\* The outcome says how the row ended.
EndIsState == Finished => row.outcome.end = row.state

LedgerInv == WorkOnce /\ OneAnswer /\ LastAttemptDecides /\ LooseRow /\ EndIsState

\* What a step may do to the row: a finished row stays as it is, and one that
\* is there keeps its plan and never loses an attempt.
RowGrows ==
    /\ row.state # "none" =>
          row'.state # "none" /\ row'.plan = row.plan /\ row'.attempt >= row.attempt
    /\ Finished => row' = row

\* A row that is left alone.
LEMMA SameRowGrows == ASSUME StageType, row' = row PROVE RowGrows
  BY TypeParts DEF RowGrows, RowType

\* A step of a call that leaves, goes on or begins.
LEMMA OwnStep ==
  ASSUME StageType, CallInv, RowGrows, svc' = svc, worked' = worked, StageType',
         NEW c \in Calls, \A d \in Calls : d # c => call'[d] = call[d],
         \/ ~call'[c].on
         \/ call'[c].attempt = 0
         \/ /\ call[c].on /\ call'[c].attempt = call[c].attempt
            /\ call'[c].plan = call[c].plan /\ call'[c].pc >= call[c].pc
  PROVE  CallInv'
<1>1. row \in RowType /\ row' \in RowType /\ call \in [Calls -> CallType]
      /\ call' \in [Calls -> CallType] /\ worked \subseteq (Plans \X Nat \X Nat)
  BY TypeParts DEF CallsOK, StageType, TypeOK, CallType, RowType, Ops
<1>2. ASSUME NEW d \in Calls, Claimed(d)'
      PROVE  /\ Claimed(d) /\ call'[d].attempt = call[d].attempt
             /\ call'[d].plan = call[d].plan /\ call'[d].pc >= call[d].pc
  BY <1>1, <1>2 DEF Claimed, CallType
<1>3. ASSUME NEW d \in Calls PROVE HoldsRow(d)'
  BY <1>1, <1>2 DEF HoldsRow, CallInv, RowGrows, RowType, CallType
<1>4. ASSUME NEW d \in Calls PROVE WorkBehind(d)'
  <2> SUFFICES ASSUME Claimed(d)', ~svc'.shared, NEW w \in worked', w[2] = call'[d].attempt
               PROVE  w[3] < call'[d].pc
    BY DEF WorkBehind
  <2>1. w[3] < call[d].pc BY <1>2 DEF CallInv, WorkBehind
  <2>2. w[3] \in Nat /\ call[d].pc \in Nat /\ call'[d].pc \in Nat BY <1>1 DEF CallType
  <2> QED BY <1>2, <2>1, <2>2
<1>5. ASSUME NEW d \in Calls, NEW e \in Calls PROVE Alone(d, e)'
  BY <1>2 DEF Alone, CallInv
<1> QED BY <1>3, <1>4, <1>5 DEF CallInv

\* A step of a call that takes the row.
LEMMA TakingStep ==
  ASSUME StageType, CallInv, WorkOnce, RowGrows, svc' = svc, worked' = worked, StageType',
         NEW c \in Calls, \A d \in Calls : d # c => call'[d] = call[d],
         NEW n \in Nat, n >= 1, call'[c].attempt = n, row'.attempt = n,
         row'.state # "none", row'.plan = call'[c].plan,
         row.state # "none" => n > row.attempt
  PROVE  CallInv'
<1>1. row \in RowType /\ row' \in RowType /\ call \in [Calls -> CallType]
      /\ call' \in [Calls -> CallType] /\ worked \subseteq (Plans \X Nat \X Nat)
  BY TypeParts DEF CallsOK, StageType, TypeOK, CallType, RowType, Ops
<1>2. ASSUME NEW d \in Calls, d # c, Claimed(d)'
      PROVE  Claimed(d) /\ call'[d] = call[d] /\ row.state # "none" /\ call[d].attempt < n
  BY <1>1, <1>2 DEF Claimed, CallInv, HoldsRow, CallType, RowType
<1>3. ASSUME NEW d \in Calls PROVE HoldsRow(d)'
  <2>1. CASE d = c BY <1>1, <2>1 DEF HoldsRow, RowType, CallType
  <2>2. CASE d # c BY <1>1, <1>2, <2>2 DEF HoldsRow, CallInv, RowGrows, RowType, CallType
  <2> QED BY <2>1, <2>2
<1>4. ASSUME NEW d \in Calls PROVE WorkBehind(d)'
  <2> SUFFICES ASSUME Claimed(d)', ~svc'.shared, NEW w \in worked', w[2] = call'[d].attempt
               PROVE  w[3] < call'[d].pc
    BY DEF WorkBehind
  <2>1. CASE d = c
    <3>1. row.state # "none" /\ w[2] <= row.attempt BY DEF WorkOnce
    <3>2. w[2] \in Nat BY <1>1
    <3> QED BY <1>1, <2>1, <3>1, <3>2 DEF RowType
  <2>2. CASE d # c BY <1>2, <2>2 DEF WorkBehind, CallInv
  <2> QED BY <2>1, <2>2
<1>5. ASSUME NEW d \in Calls, NEW e \in Calls PROVE Alone(d, e)'
  <2> SUFFICES ASSUME d # e, Claimed(d)', Claimed(e)', ~svc'.shared
               PROVE  call'[d].attempt # call'[e].attempt
    BY DEF Alone
  <2>1. CASE d = c BY <1>1, <1>2, <2>1 DEF CallType
  <2>2. CASE e = c BY <1>1, <1>2, <2>2 DEF CallType
  <2>3. CASE d # c /\ e # c BY <1>2, <2>3 DEF Alone, CallInv
  <2> QED BY <2>1, <2>2, <2>3
<1> QED BY <1>3, <1>4, <1>5 DEF CallInv

\* A step of a call that joins a shared row.
LEMMA JoiningStep ==
  ASSUME StageType, CallInv, svc' = svc, worked' = worked, row' = row, StageType',
         NEW c \in Calls, \A d \in Calls : d # c => call'[d] = call[d],
         svc.shared, row.state # "none", row.plan = call'[c].plan, call'[c].attempt = row.attempt
  PROVE  CallInv'
<1>1. row \in RowType BY TypeParts
<1>2. ASSUME NEW d \in Calls PROVE HoldsRow(d)'
  BY <1>1 DEF HoldsRow, CallInv, Claimed, RowType
<1> QED BY <1>2 DEF CallInv, WorkBehind, Alone

\* Steps that neither work nor answer nor end the row.
LEMMA LedgerKept ==
  ASSUME StageType, StageType', LedgerInv, RowGrows, svc' = svc, worked' = worked, twice' = twice,
         answers' = answers, Finished' => Finished,
         ~svc.fenced => row'.state \in {"none", "started", "completed"}
  PROVE  LedgerInv'
<1>1. row \in RowType /\ row' \in RowType /\ worked \subseteq (Plans \X Nat \X Nat)
  BY TypeParts DEF StageType, TypeOK, RowType
<1>2. WorkOnce'
  <2>1. svc'.shared \/ ~twice' BY DEF LedgerInv, WorkOnce
  <2>2. ASSUME NEW w \in worked
        PROVE  row'.state # "none" /\ row'.plan = w[1] /\ 1 <= w[2] /\ w[2] <= row'.attempt
    <3>1. row.state # "none" /\ row.plan = w[1] /\ 1 <= w[2] /\ w[2] <= row.attempt
      BY DEF LedgerInv, WorkOnce
    <3>2. w[2] \in Nat BY <1>1
    <3> QED BY <1>1, <3>1, <3>2 DEF RowGrows, RowType
  <2> QED BY <2>1, <2>2 DEF WorkOnce
<1>3. OneAnswer' BY DEF LedgerInv, OneAnswer, RowGrows, Finished
<1>4. LastAttemptDecides' BY DEF LedgerInv, LastAttemptDecides, RowGrows
<1>5. EndIsState' BY DEF LedgerInv, EndIsState, RowGrows
<1> QED BY <1>2, <1>3, <1>4, <1>5 DEF LedgerInv, LooseRow

\* The row of a finished key is no longer there to be changed; one that is not
\* finished has answered nobody.
LEMMA NoAnswerYet == ASSUME OneAnswer, ~Finished PROVE answers = {}
  BY DEF OneAnswer

\* An attempt writes its outcome.
LEMMA EndStep ==
  ASSUME StageType, StageType', CallInv, LedgerInv, NEW c \in Calls, NEW end \in Ends,
         Claimed(c), Fence(c), End(c, end), ~svc.fenced => end = "completed"
  PROVE  CallInv' /\ LedgerInv'
<1>1. row \in RowType /\ row.state = "started" /\ row.plan = call[c].plan
      /\ call \in [Calls -> CallType] /\ worked \subseteq (Plans \X Nat \X Nat)
  BY TypeParts DEF Fence, CallsOK
<1>2. row' = [state |-> end, plan |-> row.plan, attempt |-> row.attempt, saved |-> row.saved,
              outcome |-> Outcome(c, end), at |-> row.at]
  BY <1>1 DEF End, RowType
<1>3. svc' = svc /\ worked' = worked /\ twice' = twice BY DEF End, EnvUnchanged, WorkUnchanged
<1>4. ~Finished BY <1>1 DEF Finished, Ends
<1>5. Finished' BY <1>2 DEF Finished
<1>6. RowGrows BY <1>1, <1>2, <1>4 DEF RowGrows, Ends, RowType
<1>7. CallInv'
  <2>1. ~call'[c].on /\ \A d \in Calls : d # c => call'[d] = call[d]
    BY <1>1 DEF End, Leave, Idle
  <2> QED BY <1>3, <1>6, <2>1, OwnStep
<1>8. WorkOnce' BY <1>1, <1>2, <1>3 DEF LedgerInv, WorkOnce, Ends
<1>9. answers' = {Outcome(c, end)} BY <1>4, NoAnswerYet DEF End, LedgerInv
<1>10. OneAnswer' BY <1>2, <1>5, <1>9 DEF OneAnswer, Outcome
<1>11. LastAttemptDecides'
  BY <1>1, <1>2, <1>3 DEF LastAttemptDecides, Outcome, Fence
<1>12. LooseRow' /\ EndIsState' BY <1>2, <1>3 DEF LooseRow, EndIsState, Outcome
<1> QED BY <1>7, <1>8, <1>10, <1>11, <1>12 DEF LedgerInv

\* An update that changes no row: another attempt has completed it.
LEMMA UnnoticedStep ==
  ASSUME StageType, StageType', CallInv, LedgerInv, NEW c \in Calls,
         Claimed(c), FinishUnnoticed(c)
  PROVE  CallInv' /\ LedgerInv'
<1>1. row \in RowType /\ call \in [Calls -> CallType] BY TypeParts DEF CallsOK
<1>2. svc' = svc /\ worked' = worked /\ twice' = twice /\ row' = row /\ ~svc.fenced
  BY DEF FinishUnnoticed, EnvUnchanged, WorkUnchanged
<1>3. ~svc.shared BY <1>2, ShapeFields DEF LooseOnly, StageType
<1>4. row.plan = call[c].plan /\ row.state # "none" BY DEF CallInv, HoldsRow
<1>5. row.state = "completed"
  BY <1>2, <1>3, <1>4 DEF FinishUnnoticed, Fence, LedgerInv, LooseRow
<1>6. RowGrows BY <1>2, SameRowGrows
<1>7. CallInv'
  <2>1. ~call'[c].on /\ \A d \in Calls : d # c => call'[d] = call[d]
    BY <1>1 DEF FinishUnnoticed, Leave, Idle
  <2> QED BY <1>2, <1>6, <2>1, OwnStep
<1>8. row.outcome.plan = row.plan /\ row.outcome.end = "completed" /\ Finished
  <2>1. Finished BY <1>5 DEF Finished, Ends
  <2> QED BY <1>5, <2>1 DEF LedgerInv, LastAttemptDecides, EndIsState
<1>9. OneAnswer'
  BY <1>2, <1>4, <1>8 DEF OneAnswer, LedgerInv, FinishUnnoticed, Outcome, Finished
<1> QED BY <1>2, <1>7, <1>9 DEF LedgerInv, WorkOnce, LastAttemptDecides, LooseRow, EndIsState, Finished

\* A call learns the outcome of a finished row.
LEMMA ReplayStep ==
  ASSUME StageType, StageType', CallInv, LedgerInv, NEW c \in Calls, Replay(c)
  PROVE  CallInv' /\ LedgerInv'
<1>1. row \in RowType /\ call \in [Calls -> CallType] BY TypeParts DEF CallsOK
<1>2. svc' = svc /\ worked' = worked /\ twice' = twice /\ row' = row /\ Finished
  BY DEF Replay, EnvUnchanged, WorkUnchanged
<1>3. RowGrows BY <1>2, SameRowGrows
<1>4. CallInv'
  <2>1. ~call'[c].on /\ \A d \in Calls : d # c => call'[d] = call[d]
    BY <1>1 DEF Replay, Leave, Idle
  <2> QED BY <1>2, <1>3, <2>1, OwnStep
<1>5. OneAnswer' BY <1>2 DEF OneAnswer, LedgerInv, Replay, Finished
<1> QED BY <1>2, <1>4, <1>5
        DEF LedgerInv, WorkOnce, LastAttemptDecides, LooseRow, EndIsState, Finished

\* A row is put whole.
LEMMA PutStep ==
  ASSUME StageType, StageType', CallInv, LedgerInv, NEW c \in Calls, Put(c)
  PROVE  CallInv' /\ LedgerInv'
<1> DEFINE outcome == [plan |-> call[c].plan, attempt |-> 1, end |-> "completed"]
<1>1. call \in [Calls -> CallType] BY TypeParts DEF CallsOK
<1>2. /\ svc' = svc /\ worked' = worked /\ twice' = twice /\ row.state = "none"
      /\ answers' = answers \cup {outcome}
  BY DEF Put, EnvUnchanged, WorkUnchanged
<1>3. row' = [state |-> "completed", plan |-> call[c].plan, attempt |-> 1, saved |-> 0,
              outcome |-> outcome, at |-> call[c].at]
  BY DEF Put, NoRow
<1>4. ~Finished BY <1>2 DEF Finished, Ends
<1>5. RowGrows BY <1>2, <1>4 DEF RowGrows
<1>6. CallInv'
  <2>1. ~call'[c].on /\ \A d \in Calls : d # c => call'[d] = call[d]
    BY <1>1 DEF Put, Leave, Idle
  <2> QED BY <1>2, <1>5, <2>1, OwnStep
<1>7. answers' = {outcome} BY <1>2, <1>4, NoAnswerYet DEF LedgerInv
<1>8. WorkOnce' BY <1>2 DEF LedgerInv, WorkOnce
<1>9. Finished' BY <1>3 DEF Finished, Ends
<1>10. OneAnswer' /\ LastAttemptDecides' /\ LooseRow' /\ EndIsState'
  BY <1>3, <1>7, <1>9 DEF OneAnswer, LastAttemptDecides, LooseRow, EndIsState
<1> QED BY <1>6, <1>8, <1>10 DEF LedgerInv

\* The last attempt is given up.
LEMMA ExhaustStep ==
  ASSUME StageType, StageType', CallInv, LedgerInv, NEW c \in Calls, Exhaust(c)
  PROVE  CallInv' /\ LedgerInv'
<1> DEFINE outcome == [plan |-> row.plan, attempt |-> row.attempt, end |-> "failed"]
<1>1. row \in RowType /\ call \in [Calls -> CallType] BY TypeParts DEF CallsOK
<1>2. /\ svc' = svc /\ worked' = worked /\ twice' = twice /\ row.state = "started"
      /\ answers' = answers /\ svc.exhausts
  BY DEF Exhaust, EnvUnchanged, WorkUnchanged
<1>3. row' = [state |-> "failed", plan |-> row.plan, attempt |-> row.attempt, saved |-> row.saved,
              outcome |-> outcome, at |-> row.at]
  BY <1>1 DEF Exhaust, RowType
<1>4. ~Finished BY <1>2 DEF Finished, Ends
<1>5. RowGrows BY <1>1, <1>2, <1>3, <1>4 DEF RowGrows, RowType
<1>6. CallInv'
  <2>1. ~call'[c].on /\ \A d \in Calls : d # c => call'[d] = call[d]
    BY <1>1 DEF Exhaust, Leave, Idle
  <2> QED BY <1>2, <1>5, <2>1, OwnStep
<1>7. answers' = {} BY <1>2, <1>4, NoAnswerYet DEF LedgerInv
<1>8. svc.fenced BY <1>2, ShapeFields DEF LooseOnly, StageType
<1>9. WorkOnce' BY <1>2, <1>3 DEF LedgerInv, WorkOnce
<1>10. OneAnswer' /\ LastAttemptDecides' /\ LooseRow' /\ EndIsState'
  BY <1>2, <1>3, <1>7, <1>8 DEF OneAnswer, LastAttemptDecides, LooseRow, EndIsState
<1> QED BY <1>6, <1>9, <1>10 DEF LedgerInv

\* The work of an attempt is done once.
LEMMA EffectStep ==
  ASSUME StageType, StageType', CallInv, LedgerInv, NEW c \in Calls, Effect(c)
  PROVE  CallInv' /\ LedgerInv'
<1> DEFINE did == Did(c)
<1>1. /\ row \in RowType /\ call \in [Calls -> CallType]
      /\ worked \subseteq (Plans \X Nat \X Nat) /\ twice \in BOOLEAN
  BY TypeParts DEF CallsOK
<1>2. /\ svc' = svc /\ row' = row /\ answers' = answers
      /\ worked' = worked \cup {did} /\ call' = [call EXCEPT ![c].pc = @ + 1]
  BY DEF Effect, EnvUnchanged, LedgerUnchanged, Next1
<1>3. Claimed(c)
  <2>1. "effect" \in UnderClaim /\ At(c, "effect") BY DEF UnderClaim, Effect
  <2> QED BY <2>1, AtWork, AtStep DEF Claimed
<1>4. did = <<call[c].plan, call[c].attempt, call[c].pc>> BY DEF Did
<1>5. row.state # "none" /\ row.plan = call[c].plan /\ call[c].attempt <= row.attempt
  BY <1>3 DEF CallInv, HoldsRow
<1>6. call'[c] = [call[c] EXCEPT !.pc = @ + 1] /\ \A d \in Calls : d # c => call'[d] = call[d]
  BY <1>1, <1>2
<1>7. /\ call'[c].pc = call[c].pc + 1 /\ call'[c].attempt = call[c].attempt
      /\ call'[c].plan = call[c].plan /\ call'[c].on = call[c].on
      /\ call[c].pc \in Nat /\ call[c].attempt \in Nat
  BY <1>1, <1>6 DEF CallType
<1> HIDE DEF did
<1>8. ASSUME NEW d \in Calls PROVE HoldsRow(d)'
  BY <1>2, <1>6, <1>7 DEF HoldsRow, CallInv, Claimed
<1>9. ASSUME NEW d \in Calls, NEW e \in Calls PROVE Alone(d, e)'
  BY <1>2, <1>6, <1>7 DEF Alone, CallInv, Claimed
<1>10. ASSUME NEW d \in Calls PROVE WorkBehind(d)'
  <2> SUFFICES ASSUME Claimed(d)', ~svc'.shared, NEW w \in worked', w[2] = call'[d].attempt
               PROVE  w[3] < call'[d].pc
    BY DEF WorkBehind
  <2>0. Claimed(d) /\ call'[d].attempt = call[d].attempt BY <1>6, <1>7 DEF Claimed
  <2>1. CASE w \in worked /\ d # c BY <1>2, <1>6, <2>0, <2>1 DEF CallInv, WorkBehind
  <2>2. CASE w \in worked /\ d = c
    <3>1. w[3] < call[c].pc BY <1>2, <2>0, <2>2 DEF CallInv, WorkBehind
    <3>2. w[3] \in Nat BY <1>1, <2>2
    <3> QED BY <1>7, <2>2, <3>1, <3>2
  <2>3. CASE w = did
    <3>1. w[2] = call[c].attempt /\ w[3] = call[c].pc BY <1>4, <2>3
    <3>2. d = c BY <1>2, <1>3, <2>0, <3>1 DEF CallInv, Alone
    <3> QED BY <1>7, <3>1, <3>2
  <2> QED BY <1>2, <2>1, <2>2, <2>3
<1>11. svc.shared \/ ~twice'
  <2>1. svc.shared \/ did \notin worked
    <3> SUFFICES ASSUME ~svc.shared, did \in worked PROVE FALSE OBVIOUS
    <3>1. did[2] = call[c].attempt /\ did[3] = call[c].pc BY <1>4
    <3>2. call[c].pc < call[c].pc BY <1>3, <3>1 DEF CallInv, WorkBehind
    <3> QED BY <1>7, <3>2
  <2>2. svc.shared \/ ~twice BY DEF LedgerInv, WorkOnce
  <2>3. twice' = (twice \/ did \in worked) BY DEF Effect, did
  <2> QED BY <2>1, <2>2, <2>3
<1>12. WorkOnce'
  <2>1. ASSUME NEW w \in worked'
        PROVE  row.state # "none" /\ row.plan = w[1] /\ 1 <= w[2] /\ w[2] <= row.attempt
    <3>1. CASE w \in worked BY <3>1 DEF LedgerInv, WorkOnce
    <3>2. CASE w = did
      <4>1. w[1] = call[c].plan /\ w[2] = call[c].attempt BY <1>4, <3>2
      <4> QED BY <1>3, <1>5, <1>7, <4>1 DEF Claimed
    <3> QED BY <1>2, <3>1, <3>2
  <2> QED BY <1>2, <1>11, <2>1 DEF WorkOnce
<1> QED BY <1>2, <1>8, <1>9, <1>10, <1>12
        DEF CallInv, LedgerInv, OneAnswer, LastAttemptDecides, LooseRow, EndIsState, Finished

\* Steps that go on in the program.
LEMMA GoingStep ==
  ASSUME StageType, StageType', CallInv, LedgerInv, NEW c \in Calls, call[c].on, Next1(c),
         svc' = svc, worked' = worked, twice' = twice, answers' = answers,
         RowGrows, Finished' => Finished,
         ~svc.fenced => row'.state \in {"none", "started", "completed"}
  PROVE  CallInv' /\ LedgerInv'
<1>1. call \in [Calls -> CallType] BY TypeParts DEF CallsOK
<1>2. call'[c] = [call[c] EXCEPT !.pc = @ + 1] /\ \A d \in Calls : d # c => call'[d] = call[d]
  BY <1>1 DEF Next1
<1>3. /\ call'[c].attempt = call[c].attempt /\ call'[c].plan = call[c].plan
      /\ call'[c].pc >= call[c].pc
  BY <1>1, <1>2 DEF CallType
<1> QED BY <1>2, <1>3, OwnStep, LedgerKept

\* Steps that leave the row alone and end the call.
LEMMA LeavingStep ==
  ASSUME StageType, StageType', CallInv, LedgerInv, NEW c \in Calls, Leave(c),
         svc' = svc, worked' = worked, twice' = twice, answers' = answers,
         RowGrows, Finished' => Finished,
         ~svc.fenced => row'.state \in {"none", "started", "completed"}
  PROVE  CallInv' /\ LedgerInv'
<1>1. call \in [Calls -> CallType] BY TypeParts DEF CallsOK
<1>2. ~call'[c].on /\ \A d \in Calls : d # c => call'[d] = call[d]
  BY <1>1 DEF Leave, Idle
<1> QED BY <1>2, OwnStep, LedgerKept

\* A row that is left alone does not end.
LEMMA QuietRow ==
  ASSUME StageType, LedgerInv, row' = row, svc' = svc
  PROVE  /\ RowGrows /\ (Finished' => Finished)
         /\ ~svc.fenced => row'.state \in {"none", "started", "completed"}
  BY SameRowGrows DEF LedgerInv, LooseRow, Finished

\* Checks, inner calls and artefacts leave row and work alone.
LEMMA PassStep ==
  ASSUME StageType, StageType', CallInv, LedgerInv, NEW c \in Calls,
         Pass(c) \/ Wrap(c) \/ Settle(c) \/ Publish(c)
  PROVE  CallInv' /\ LedgerInv'
<1>1. /\ call[c].on /\ Next1(c) /\ svc' = svc /\ worked' = worked /\ twice' = twice
      /\ answers' = answers /\ row' = row
  BY DEF Pass, Holds, At, Wrap, Settle, Publish, EnvUnchanged, LedgerUnchanged, WorkUnchanged
<1> QED BY <1>1, QuietRow, GoingStep

\* A save ends no row.
LEMMA SaveStep ==
  ASSUME StageType, StageType', CallInv, LedgerInv, NEW c \in Calls, Save(c)
  PROVE  CallInv' /\ LedgerInv'
<1>1. /\ call[c].on /\ Next1(c) /\ svc' = svc /\ worked' = worked /\ twice' = twice
      /\ answers' = answers /\ row.state = "started"
      /\ row' = row \/ row' = [row EXCEPT !.saved = Seen(c) + 1]
  BY DEF Save, At, EnvUnchanged, WorkUnchanged
<1>2. row \in RowType BY TypeParts
<1>3. row'.state = "started" /\ row'.plan = row.plan /\ row'.attempt = row.attempt
  BY <1>1, <1>2 DEF RowType
<1>4. ~Finished /\ ~Finished' BY <1>1, <1>3 DEF Finished, Ends
<1>5. RowGrows BY <1>2, <1>3, <1>4 DEF RowGrows, RowType
<1> QED BY <1>1, <1>3, <1>4, <1>5, GoingStep

\* A row is put aside only where completions are fenced.
LEMMA PauseStep ==
  ASSUME StageType, StageType', CallInv, LedgerInv, NEW c \in Calls, Pause(c)
  PROVE  CallInv' /\ LedgerInv'
<1>1. /\ Leave(c) /\ svc' = svc /\ worked' = worked /\ twice' = twice
      /\ answers' = answers /\ row.state = "started" /\ row' = [row EXCEPT !.state = "waiting"]
      /\ At(c, "pause")
  BY DEF Pause, Fence, EnvUnchanged, WorkUnchanged
<1>2. row \in RowType BY TypeParts
<1>3. row'.state = "waiting" /\ row'.plan = row.plan /\ row'.attempt = row.attempt
  BY <1>1, <1>2 DEF RowType
<1>4. ~Finished /\ ~Finished' BY <1>1, <1>3 DEF Finished, Ends
<1>5. RowGrows BY <1>2, <1>3, <1>4 DEF RowGrows, RowType
<1>6. svc.fenced
  <2>1. Occurs("pause", Program(c)) BY <1>1, AtStep DEF Occurs
  <2> QED BY <2>1, ShapeFields, ProgramShape DEF LooseOnly, StageType
<1> QED BY <1>1, <1>4, <1>5, <1>6, LeavingStep

\* Taking the row, whichever way.
LEMMA ClaimStep ==
  ASSUME StageType, StageType', CallInv, LedgerInv, NEW c \in Calls,
         Claim(c) \/ Recover(c) \/ Resume(c)
  PROVE  CallInv' /\ LedgerInv'
<1>0. row \in RowType /\ call \in [Calls -> CallType] BY TypeParts DEF CallsOK
<1>1. ASSUME NEW n \in Nat, n >= 1, TakeAttempt(c, n), row'.attempt = n, row'.state = "started",
             row'.plan = call[c].plan, row.state # "none" => n > row.attempt /\ row.plan = call[c].plan,
             ~Finished
      PROVE  CallInv' /\ LedgerInv'
  <2>1. RowGrows BY <1>0, <1>1 DEF RowGrows, RowType
  <2>2. /\ svc' = svc /\ worked' = worked /\ twice' = twice /\ answers' = answers
    BY <1>1 DEF TakeAttempt, EnvUnchanged, WorkUnchanged
  <2>3. /\ call'[c].attempt = n /\ call'[c].plan = call[c].plan
        /\ \A d \in Calls : d # c => call'[d] = call[d]
    BY <1>0, <1>1 DEF TakeAttempt, CallType
  <2>4. ~Finished' BY <1>1 DEF Finished, Ends
  <2>5. CallInv' BY <1>1, <2>1, <2>2, <2>3, TakingStep DEF LedgerInv
  <2>6. LedgerInv' BY <1>1, <2>1, <2>2, <2>4, LedgerKept
  <2> QED BY <2>5, <2>6
<1>2. CASE NewRow(c) /\ TakeAttempt(c, 1)
  <2>1. row'.attempt = 1 /\ row'.state = "started" /\ row'.plan = call[c].plan
    BY <1>2 DEF NewRow, NoRow
  <2>2. row.state = "none" /\ ~Finished BY <1>2 DEF NewRow, Finished, Ends
  <2> QED BY <1>1, <1>2, <2>1, <2>2
<1>3. CASE NextAttempt(c) /\ TakeAttempt(c, row.attempt + 1)
  <2>1. /\ row'.attempt = row.attempt + 1 /\ row'.state = "started" /\ row'.plan = call[c].plan
        /\ row.plan = call[c].plan
    BY <1>0, <1>3 DEF NextAttempt, RowType
  <2>2. row.attempt + 1 \in Nat /\ row.attempt + 1 >= 1 /\ row.attempt + 1 > row.attempt
    BY <1>0 DEF RowType
  <2>3. ~Finished BY <1>3 DEF NextAttempt, Finished, Ends
  <2> QED BY <1>1, <1>3, <2>1, <2>2, <2>3
<1>4. CASE Resume(c)
  <2>1. /\ row'.attempt = row.attempt + 1 /\ row'.state = "started" /\ row'.plan = call[c].plan
        /\ row.plan = call[c].plan /\ TakeAttempt(c, row.attempt + 1)
    BY <1>0, <1>4 DEF Resume, RowType
  <2>2. row.attempt + 1 \in Nat /\ row.attempt + 1 >= 1 /\ row.attempt + 1 > row.attempt
    BY <1>0 DEF RowType
  <2>3. ~Finished BY <1>4 DEF Resume, Finished, Ends
  <2> QED BY <1>1, <2>1, <2>2, <2>3
<1>5. CASE Join(c)
  <2>1. /\ svc' = svc /\ worked' = worked /\ twice' = twice /\ answers' = answers
        /\ row' = row /\ svc.shared /\ row.state = "started" /\ row.plan = call[c].plan
    BY <1>5 DEF Join, EnvUnchanged, WorkUnchanged
  <2>2. /\ call'[c].attempt = row.attempt /\ call'[c].plan = call[c].plan
        /\ \A d \in Calls : d # c => call'[d] = call[d]
    BY <1>0, <1>5 DEF Join, CallType
  <2>3. CallInv' BY <2>1, <2>2, JoiningStep
  <2> QED BY <2>1, <2>3, QuietRow, LedgerKept
<1> QED BY <1>2, <1>3, <1>4, <1>5 DEF Claim, Recover

\* The end of an attempt is written by a call that has one.
LEMMA EndingStep ==
  ASSUME StageType, StageType', CallInv, LedgerInv, NEW c \in Calls, Ending(c)
  PROVE  CallInv' /\ LedgerInv'
<1>1. Claimed(c)
  <2>1. CASE Finish(c)
    <3>1. "finish" \in UnderClaim /\ At(c, "finish") BY <2>1 DEF UnderClaim, Finish
    <3> QED BY <3>1, AtWork, AtStep DEF Claimed
  <2>2. CASE Expire(c)
    <3>1. "expire" \in UnderClaim /\ At(c, "expire") BY <2>2 DEF UnderClaim, Expire
    <3> QED BY <3>1, AtWork, AtStep DEF Claimed
  <2>3. CASE \E end \in Ends : Fail(c, end)
    <3>1. call[c].attempt \in Nat BY TypeParts DEF CallsOK, CallType
    <3> QED BY <2>3, <3>1 DEF Fail, Claimed
  <2> QED BY <2>1, <2>2, <2>3 DEF Ending
<1>2. CASE Finish(c)
  BY <1>1, <1>2, EndStep, UnnoticedStep DEF Finish, Ends
<1>3. CASE Expire(c)
  <2>1. svc.fenced
    <3>1. At(c, "expire") BY <1>3 DEF Expire
    <3>2. Occurs("expire", Program(c)) BY <3>1, AtStep DEF Occurs
    <3> QED BY <3>2, ShapeFields, ProgramShape DEF LooseOnly, StageType
  <2>2. "timed_out" \in Ends /\ Fence(c) /\ End(c, "timed_out") BY <1>3 DEF Expire, Ends
  <2> QED BY <1>1, <2>1, <2>2, EndStep
<1>4. ASSUME NEW end \in Ends, Fail(c, end) PROVE CallInv' /\ LedgerInv'
  <2>1. svc.fenced BY <1>4, ShapeFields DEF LooseOnly, StageType, Fail
  <2> QED BY <1>1, <1>4, <2>1, EndStep DEF Fail
<1> QED BY <1>2, <1>3, <1>4 DEF Ending

\* A new call has no attempt.
LEMMA StartStep ==
  ASSUME StageType, StageType', CallInv, LedgerInv, NEW c \in Calls, NEW op \in Ops,
         NEW p \in Plans, NEW t \in Times, Start(c, op, p, t)
  PROVE  CallInv' /\ LedgerInv'
<1>0. call \in [Calls -> CallType] BY TypeParts DEF CallsOK
<1>1. /\ svc' = svc /\ worked' = worked /\ twice' = twice /\ answers' = answers /\ row' = row
  BY DEF Start, EnvUnchanged, LedgerUnchanged, WorkUnchanged
<1>2. call'[c].attempt = 0 /\ \A d \in Calls : d # c => call'[d] = call[d]
  BY <1>0 DEF Start
<1>3. CallInv' BY <1>1, <1>2, QuietRow, OwnStep
<1> QED BY <1>1, <1>3, QuietRow, LedgerKept

\* Nothing that a claim relies on is touched from outside.
LEMMA OutsideStep ==
  ASSUME StageType, StageType', CallInv, LedgerInv,
         svc' = svc, worked' = worked, twice' = twice, answers' = answers, row' = row, call' = call
  PROVE  CallInv' /\ LedgerInv'
<1>1. CallInv' BY DEF CallInv, HoldsRow, WorkBehind, Alone, Claimed
<1> QED BY <1>1, QuietRow, LedgerKept

\* At first there is no row, no claim and no answer.
LEMMA ClaimsInit == Init => CallInv /\ LedgerInv
  BY DEF Init, CallInv, HoldsRow, WorkBehind, Alone, Claimed, Idle, LedgerInv, WorkOnce,
         OneAnswer, LastAttemptDecides, LooseRow, EndIsState, Finished, NoRow, Ends

\* Every step keeps who may work and what callers hear.
LEMMA ClaimsNext ==
  StageType /\ StageType' /\ CallInv /\ LedgerInv /\ [Next]_vars => CallInv' /\ LedgerInv'
<1> SUFFICES ASSUME StageType, StageType', CallInv, LedgerInv, [Next]_vars
             PROVE  CallInv' /\ LedgerInv'
  OBVIOUS
<1>1. CASE UNCHANGED vars BY <1>1, OutsideStep DEF vars
<1>2. ASSUME NEW c \in Calls, Step(c) PROVE CallInv' /\ LedgerInv'
  <2>1. CASE Pass(c) \/ Wrap(c) \/ Settle(c) \/ Publish(c) BY <2>1, PassStep
  <2>2. CASE Claim(c) \/ Recover(c) \/ Resume(c) BY <2>2, ClaimStep
  <2>3. CASE Replay(c) BY <2>3, ReplayStep
  <2>4. CASE Exhaust(c) BY <2>4, ExhaustStep
  <2>5. CASE Pause(c) BY <2>5, PauseStep
  <2>6. CASE Effect(c) BY <2>6, EffectStep
  <2>7. CASE Save(c) BY <2>7, SaveStep
  <2>8. CASE Put(c) BY <2>8, PutStep
  <2>9. CASE Expire(c) \/ Finish(c) BY <2>9, EndingStep DEF Ending
  <2> QED BY <1>2, <2>1, <2>2, <2>3, <2>4, <2>5, <2>6, <2>7, <2>8, <2>9 DEF Step
<1>3. ASSUME NEW c \in Calls, NEW end \in Ends, Fail(c, end) PROVE CallInv' /\ LedgerInv'
  BY <1>3, EndingStep DEF Ending
<1>4. ASSUME NEW c \in Calls, Abort(c) PROVE CallInv' /\ LedgerInv'
  BY <1>4, QuietRow, LeavingStep DEF Abort, EnvUnchanged, LedgerUnchanged, WorkUnchanged
<1>5. CASE Surroundings
  BY <1>5, OutsideStep
     DEF Surroundings, Prepare, UpstreamFinishes, Withdraw, WindowCloses, InnerMoves,
         EnvUnchanged, LedgerUnchanged, WorkUnchanged
<1> QED BY <1>1, <1>2, <1>3, <1>4, <1>5, StartStep DEF Next, Surroundings, Ops

\* The inductive invariant of the claims.
LEMMA ClaimsHold == Spec => [](StageType /\ CallInv /\ LedgerInv)
<1>1. Init => StageType /\ CallInv /\ LedgerInv BY StageTypeInit, ClaimsInit
<1>2. StageType /\ CallInv /\ LedgerInv /\ [Next]_vars => (StageType /\ CallInv /\ LedgerInv)'
  BY StageTypeNext, ClaimsNext
<1> QED BY <1>1, <1>2, PTL DEF Spec

\* Whatever callers race, replay or recover one key, all of them hear the one
\* outcome the ledger holds, and it is never replaced.
THEOREM CallersHearOneAnswer == Spec => []OneAnswer
<1>1. LedgerInv => OneAnswer BY DEF LedgerInv
<1> QED BY <1>1, ClaimsHold, PTL

\* The effects of one attempt are carried out at most once and only under a
\* claim of the row, however calls are taken over and die.
THEOREM WorkIsDoneOnce == Spec => []WorkOnce
<1>1. LedgerInv => WorkOnce BY DEF LedgerInv
<1> QED BY <1>1, ClaimsHold, PTL

\* An attempt that was taken over cannot write its outcome any more.
THEOREM TheLastAttemptDecides == Spec => []LastAttemptDecides
<1>1. LedgerInv => LastAttemptDecides BY DEF LedgerInv
<1> QED BY <1>1, ClaimsHold, PTL

-----------------------------------------------------------------------------
(* Promises: what a call has behind it when it writes the outcome *)

Stores == {"publish", "sealed"}

\* Before it takes the row, a call that has read the records found them finished.
PastLoad(c) ==
    call[c].on /\ call[c].attempt = 0 =>
        \A j \in 1..(call[c].pc - 1) : Program(c)[j] = "load" => upstream

\* A call that settled the inner run, or compared its time, can rely on it.
PastInner(c) ==
    call[c].on /\ ~svc.shared =>
        \A j \in 1..(call[c].pc - 1) :
            /\ Program(c)[j] = "settle" => inner.state = "completed"
            /\ Program(c)[j] = "timed" => inner.state # "none" /\ inner.at = call[c].at

\* A call that found no inner run under its claim binds one made under it.
PastVacant(c) ==
    Claimed(c) /\ ~svc.shared =>
        \A j \in 1..(call[c].pc - 1) :
            Program(c)[j] = "vacant" /\ After(Program(c), j, Takes) =>
                inner.state = "none" \/ inner.gated

\* Where times are compared, the call that holds the row is the one that made it.
SameTime(c) == Claimed(c) /\ "timed" \in svc.promises => call[c].at = row.at

\* The fact still held when the attempt that found it later began.
PastCurrent(c) ==
    Claimed(c) /\ ~svc.shared /\ call[c].attempt = row.attempt =>
        \A j \in 1..(call[c].pc - 1) :
            Program(c)[j] = "current" /\ After(Program(c), j, Takes) => takenFresh

\* The row holds the phases the call has behind it.
PastSaves(c) == Claimed(c) /\ ~svc.shared => row.saved >= Seen(c)

\* What the call published, or found stored, is stored.
PastStores(c) ==
    Claimed(c) =>
        \A j \in 1..(call[c].pc - 1) : Program(c)[j] \in Stores =>
            <<call[c].plan, call[c].attempt, PhasesUpTo(Program(c), j)>> \in artefacts

Past(c) ==
    /\ PastLoad(c) /\ PastInner(c) /\ PastVacant(c) /\ SameTime(c)
    /\ PastCurrent(c) /\ PastSaves(c) /\ PastStores(c)

\* A shared row has one attempt, and the artefacts of its phases are stored.
SharedAttempt(c) == Claimed(c) /\ svc.shared => call[c].attempt = row.attempt

SharedStores ==
    svc.shared /\ row.state # "none" =>
        \A i \in 1..Len(svc.execute) :
            svc.execute[i] \in Stores /\ PhasesUpTo(svc.execute, i) < row.saved =>
                <<row.plan, row.attempt, PhasesUpTo(svc.execute, i)>> \in artefacts

FreshRow == row.state # "none" /\ ~takenFresh => moved

PastInv == \A c \in Calls : Past(c) /\ SharedAttempt(c)
Kept == FreshOutcome /\ SealedOutcome /\ PhasesKept /\ BoundInner /\ RunUnderGate
RowInv == UpstreamFirst /\ FreshRow /\ SharedStores /\ Kept

\* An inner run keeps its time and its place before or under the row's claim.
InnerStays ==
    /\ inner.state # "none" => /\ inner'.state # "none"
                               /\ inner'.at = inner.at /\ inner'.gated = inner.gated
    /\ inner.state = "none" => \/ inner'.state = "none"
                               \/ inner'.gated = (row.state # "none")

\* What every step leaves for the calls and the row to rely on.
Forward ==
    /\ svc' = svc
    /\ upstream => upstream'
    /\ moved => moved'
    /\ inner.state = "completed" => inner'.state = "completed"
    /\ InnerStays
    /\ artefacts \subseteq artefacts'
    /\ RowGrows
    /\ row.state # "none" =>
          /\ row.saved <= row'.saved /\ row'.at = row.at
          /\ row'.attempt > row.attempt \/ takenFresh' = takenFresh
          /\ svc.shared => row'.attempt = row.attempt

\* Calls that do not move lose nothing.
LEMMA PastOther ==
  ASSUME StageType, StageType', CallInv, PastInv, Forward,
         NEW d \in Calls, call'[d] = call[d]
  PROVE  Past(d)' /\ SharedAttempt(d)'
<1>1. /\ row \in RowType /\ row' \in RowType /\ call[d] \in CallType
      /\ takenFresh \in BOOLEAN /\ takenFresh' \in BOOLEAN
  BY TypeParts DEF CallsOK, StageType, TypeOK, RowType
<1>2. Program(d)' = Program(d) /\ (Claimed(d)' <=> Claimed(d)) /\ Seen(d)' = Seen(d)
  BY DEF Forward, Program, Claimed, Seen
<1>3. Claimed(d) => row.state # "none" /\ call[d].attempt <= row.attempt
  BY DEF CallInv, HoldsRow
<1>4. PastLoad(d)' BY <1>2 DEF PastInv, Past, PastLoad, Forward
<1>5. PastInner(d)' BY <1>2 DEF PastInv, Past, PastInner, Forward, InnerStays
<1>10. PastVacant(d)'
  BY <1>2, <1>3 DEF PastInv, Past, PastVacant, Forward, InnerStays, After
<1>11. SameTime(d)' BY <1>2, <1>3 DEF PastInv, Past, SameTime, Forward
<1>6. PastCurrent(d)'
  <2> SUFFICES ASSUME Claimed(d), ~svc.shared, call[d].attempt = row'.attempt,
                      NEW j \in 1..(call[d].pc - 1), Program(d)[j] = "current",
                      After(Program(d), j, Takes)
               PROVE  takenFresh'
    BY <1>2 DEF PastCurrent, Forward, After
  <2>1. row'.attempt = row.attempt /\ takenFresh' = takenFresh
    BY <1>1, <1>3 DEF Forward, RowGrows, RowType, CallType
  <2> QED BY <2>1 DEF PastInv, Past, PastCurrent
<1>7. PastSaves(d)'
  <2> SUFFICES ASSUME Claimed(d), ~svc.shared PROVE row'.saved >= Seen(d)
    BY <1>2 DEF PastSaves, Forward
  <2>0. call[d].on BY DEF Claimed
  <2>1. Seen(d) \in Nat
    <3>1. call[d].pc - 1 \in Nat BY <2>0, ProgramShape DEF StageType, Running
    <3> QED BY <3>1, ProgramShape, PhasesNat DEF Seen, StageType
  <2>2. row.saved >= Seen(d) /\ row.saved <= row'.saved
    BY <1>3 DEF PastInv, Past, PastSaves, Forward
  <2> QED BY <1>1, <2>1, <2>2 DEF RowType
<1>8. PastStores(d)' BY <1>2 DEF PastInv, Past, PastStores, Forward
<1>9. SharedAttempt(d)' BY <1>2, <1>3 DEF PastInv, SharedAttempt, Forward
<1> QED BY <1>4, <1>5, <1>6, <1>7, <1>8, <1>9, <1>10, <1>11 DEF Past

\* A call that left or has just begun has nothing behind it.
LEMMA PastNothing ==
  ASSUME StageType', NEW c \in Calls,
         ~call'[c].on \/ (call'[c].pc = 1 /\ call'[c].attempt = 0)
  PROVE  Past(c)' /\ SharedAttempt(c)'
<1>1. ~Claimed(c)' BY DEF Claimed
<1>2. PastLoad(c)' /\ PastInner(c)' BY DEF PastLoad, PastInner
<1> QED BY <1>1, <1>2
        DEF Past, PastVacant, SameTime, PastCurrent, PastSaves, PastStores, SharedAttempt

\* What passing its step gives a call.
Passing(c) ==
    LET step == Program(c)[call[c].pc] IN
    /\ step = "load" => upstream'
    /\ step = "settle" => inner'.state = "completed"
    /\ step = "timed" => inner'.state # "none" /\ inner'.at = call[c].at
    /\ step = "vacant" => inner'.state = "none"
    /\ step = "current" => ~moved
    /\ step \in Stores => Artefact(c) \in artefacts'
    /\ step = "save" => row'.saved >= Seen(c) + 1

\* A call that goes on has the step it passed behind it.
LEMMA PastGoing ==
  ASSUME StageType, StageType', CallInv, PastInv, RowInv, Forward, NEW c \in Calls,
         call[c].on, Next1(c), Passing(c), row'.attempt = row.attempt, takenFresh' = takenFresh,
         Program(c)[call[c].pc] \notin Takes \cup {"finish", "put"}
  PROVE  Past(c)' /\ SharedAttempt(c)'
<1> DEFINE prog == Program(c)
           n == call[c].pc
<1>1. /\ row \in RowType /\ row' \in RowType /\ call \in [Calls -> CallType]
      /\ takenFresh \in BOOLEAN /\ moved \in BOOLEAN
  BY TypeParts DEF CallsOK, StageType, TypeOK, RowType
<1>2. /\ call'[c].pc = n + 1 /\ call'[c].op = call[c].op /\ call'[c].on
      /\ call'[c].attempt = call[c].attempt /\ call'[c].plan = call[c].plan
      /\ call'[c].at = call[c].at
  BY <1>1 DEF Next1, CallType
<1>3. Program(c)' = prog /\ (Claimed(c)' <=> Claimed(c))
  BY <1>2 DEF Forward, Program, Claimed
<1>4. prog \in Seq(Steps) /\ n \in 1..Len(prog) BY ProgramShape DEF StageType, Running
<1>5. Claimed(c) => row.state # "none" BY DEF CallInv, HoldsRow
<1> HIDE DEF prog, n
<1>6. ASSUME NEW j \in 1..((n + 1) - 1) PROVE j \in 1..(n - 1) \/ j = n
  BY <1>4
<1>7. PastLoad(c)'
  BY <1>2, <1>3, <1>6 DEF PastInv, Past, PastLoad, Forward, Passing, prog, n
<1>8. PastInner(c)'
  BY <1>2, <1>3, <1>6 DEF PastInv, Past, PastInner, Forward, InnerStays, Passing, prog, n
<1>13. PastVacant(c)'
  <2> SUFFICES ASSUME Claimed(c), ~svc.shared, NEW j \in 1..((n + 1) - 1), prog[j] = "vacant",
                      After(prog, j, Takes)
               PROVE  inner'.state = "none" \/ inner'.gated
    BY <1>2, <1>3 DEF PastVacant, Forward, After
  <2>1. CASE j \in 1..(n - 1)
    <3>1. inner.state = "none" \/ inner.gated
      BY <2>1 DEF PastInv, Past, PastVacant, prog, n
    <3> QED BY <1>5, <3>1 DEF Forward, InnerStays
  <2>2. CASE j = n BY <2>2 DEF Passing, prog, n
  <2> QED BY <1>6, <2>1, <2>2
<1>14. SameTime(c)' BY <1>2, <1>3, <1>5 DEF PastInv, Past, SameTime, Forward
<1>9. PastCurrent(c)'
  <2> SUFFICES ASSUME Claimed(c), ~svc.shared, call[c].attempt = row.attempt,
                      NEW j \in 1..((n + 1) - 1), prog[j] = "current", After(prog, j, Takes)
               PROVE  takenFresh
    BY <1>2, <1>3 DEF PastCurrent, Forward, After
  <2>1. CASE j \in 1..(n - 1) BY <2>1 DEF PastInv, Past, PastCurrent, prog, n
  <2>2. CASE j = n
    <3>1. ~moved BY <2>2 DEF Passing, prog, n
    <3> QED BY <1>1, <1>5, <3>1 DEF RowInv, FreshRow
  <2> QED BY <1>6, <2>1, <2>2
<1>10. PastSaves(c)'
  <2> SUFFICES ASSUME Claimed(c), ~svc.shared PROVE row'.saved >= PhasesUpTo(prog, n)
    <3>1. Seen(c)' = PhasesUpTo(prog, (n + 1) - 1) BY <1>2, <1>3 DEF Seen
    <3>2. (n + 1) - 1 = n BY <1>4
    <3> QED BY <1>3, <3>1, <3>2 DEF PastSaves, Forward
  <2>1. Seen(c) = PhasesUpTo(prog, n - 1) BY DEF Seen, prog, n
  <2>2. n - 1 \in Nat BY <1>4
  <2>3. Seen(c) \in Nat BY <1>4, <2>1, <2>2, PhasesNat
  <2>4. row.saved >= Seen(c) /\ row.saved <= row'.saved
    BY <1>5 DEF PastInv, Past, PastSaves, Forward
  <2>5. PhasesUpTo(prog, n) = Seen(c) + (IF prog[n] = "save" THEN 1 ELSE 0)
    BY <1>4, <2>1, PhasesStep
  <2>6. CASE prog[n] = "save" BY <2>3, <2>5, <2>6 DEF Passing, prog, n
  <2>7. CASE prog[n] # "save" BY <1>1, <2>3, <2>4, <2>5, <2>7 DEF RowType
  <2> QED BY <2>6, <2>7
<1>11. PastStores(c)'
  <2> SUFFICES ASSUME Claimed(c), NEW j \in 1..((n + 1) - 1), prog[j] \in Stores
               PROVE  <<call[c].plan, call[c].attempt, PhasesUpTo(prog, j)>> \in artefacts'
    BY <1>2, <1>3 DEF PastStores
  <2>1. CASE j \in 1..(n - 1) BY <2>1 DEF PastInv, Past, PastStores, Forward, prog, n
  <2>2. CASE j = n
    <3>1. Artefact(c) \in artefacts' BY <2>2 DEF Passing, prog, n
    <3>2. prog[n] # "save" BY <2>2 DEF Stores
    <3>3. PhasesUpTo(prog, n) = PhasesUpTo(prog, n - 1) + 0 BY <1>4, <3>2, PhasesStep
    <3>4. n - 1 \in Nat BY <1>4
    <3>5. PhasesUpTo(prog, n) = PhasesUpTo(prog, n - 1) BY <1>4, <3>3, <3>4, PhasesNat
    <3>6. Artefact(c) = <<call[c].plan, call[c].attempt, PhasesUpTo(prog, n - 1)>>
      BY DEF Artefact, Seen, prog, n
    <3> QED BY <2>2, <3>1, <3>5, <3>6
  <2> QED BY <1>6, <2>1, <2>2
<1>12. SharedAttempt(c)' BY <1>2, <1>3 DEF PastInv, SharedAttempt, Forward
<1> QED BY <1>7, <1>8, <1>9, <1>10, <1>11, <1>12, <1>13, <1>14 DEF Past

\* A call that takes the row has nothing of the attempt behind it.
LEMMA PastTaking ==
  ASSUME StageType, StageType', CallInv, PastInv, Forward, NEW c \in Calls,
         call[c].on, Program(c)[call[c].pc] \in Takes,
         NEW n \in Nat, n >= 1, TakeAttempt(c, n), row'.attempt = n,
         "timed" \in svc.promises => row'.at = call[c].at
  PROVE  Past(c)' /\ SharedAttempt(c)'
<1> DEFINE prog == Program(c)
           m == call[c].pc
<1>1. row' \in RowType /\ call \in [Calls -> CallType]
  BY TypeParts DEF CallsOK, StageType, TypeOK, RowType
<1>2. /\ call'[c].pc = m + 1 /\ call'[c].op = call[c].op /\ call'[c].on
      /\ call'[c].attempt = n /\ call'[c].plan = call[c].plan /\ call'[c].at = call[c].at
  BY <1>1 DEF TakeAttempt, CallType
<1>3. Program(c)' = prog BY <1>2 DEF Forward, Program
<1>4. prog \in Seq(Steps) /\ Ordered(prog) /\ m \in 1..Len(prog) /\ prog[m] \in Takes
  BY ProgramShape DEF StageType, Running
<1> HIDE DEF prog, m
<1>5. ASSUME NEW j \in 1..((m + 1) - 1)
      PROVE  /\ j \in 1..(m - 1) \/ j = m
             /\ j \in 1..Len(prog) /\ ~After(prog, j, Takes)
             /\ prog[j] \notin UnderClaim
  <2>1. j \in 1..Len(prog) /\ j <= m BY <1>4
  <2>2. ASSUME NEW i \in 1..(j - 1), prog[i] \in Takes PROVE FALSE
    <3>1. i \in 1..Len(prog) /\ i # m BY <1>4, <2>1
    <3> QED BY <1>4, <2>2, <3>1 DEF Ordered
  <2>3. ~After(prog, j, Takes) BY <2>2 DEF After
  <2> QED BY <1>4, <2>1, <2>3 DEF Ordered
<1>6. PastLoad(c)' BY <1>2 DEF PastLoad
<1>7. PastInner(c)'
  BY <1>2, <1>3, <1>4, <1>5
     DEF PastInv, Past, PastInner, Forward, InnerStays, Takes, prog, m
<1>12. PastVacant(c)' BY <1>2, <1>3, <1>5 DEF PastVacant, After
<1>13. SameTime(c)' BY <1>2 DEF SameTime, Forward
<1>8. PastCurrent(c)' BY <1>2, <1>3, <1>5 DEF PastCurrent, After
<1>9. PastSaves(c)'
  <2>1. Seen(c)' = PhasesUpTo(prog, (m + 1) - 1) BY <1>2, <1>3 DEF Seen
  <2>2. (m + 1) - 1 = m BY <1>4
  <2>3. Seen(c)' = 0 BY <1>4, <2>1, <2>2, NothingSavedYet
  <2> QED BY <1>1, <2>3 DEF PastSaves, RowType
<1>10. PastStores(c)'
  <2>1. Stores \subseteq UnderClaim BY DEF Stores, UnderClaim
  <2> QED BY <1>2, <1>3, <1>5, <2>1 DEF PastStores
<1>11. SharedAttempt(c)' BY <1>2 DEF SharedAttempt
<1> QED BY <1>6, <1>7, <1>8, <1>9, <1>10, <1>11, <1>12, <1>13 DEF Past

\* A call that joins a shared row finds the artefacts of the phases it holds.
LEMMA PastJoining ==
  ASSUME StageType, StageType', CallInv, PastInv, RowInv, Forward, NEW c \in Calls,
         At(c, "claim"), Join(c)
  PROVE  Past(c)' /\ SharedAttempt(c)'
<1> DEFINE prog == Program(c)
           m == call[c].pc
           n == JoinAt(c)
<1>1. row \in RowType /\ call \in [Calls -> CallType]
  BY TypeParts DEF CallsOK, StageType, TypeOK, RowType
<1>2. /\ call'[c].pc = n /\ call'[c].op = call[c].op
      /\ call'[c].attempt = row.attempt /\ call'[c].plan = call[c].plan
  BY <1>1 DEF Join, CallType
<1>3. Program(c)' = prog BY <1>2 DEF Forward, Program
<1>4. prog \in Seq(Steps) /\ Ordered(prog) /\ m \in 1..Len(prog) /\ prog[m] = "claim"
  BY AtStep
<1>5. /\ n \in 1..Len(prog) /\ n > m /\ PhasesUpTo(prog, n - 1) = row.saved
      /\ \A j \in 1..(n - 1) : j > m => PhasesUpTo(prog, j - 1) # row.saved
  BY JoinAtType
<1>6. svc.shared /\ row' = row /\ row.state # "none" /\ row.plan = call[c].plan /\ row.attempt >= 1
      /\ artefacts' = artefacts /\ svc' = svc
  BY <1>1, TypeParts DEF Join, RowOK, EnvUnchanged, WorkUnchanged
<1>7. prog = svc.execute
  <2>1. svc.recover = <<>> BY <1>6, ShapeFields DEF SharedOnce, StageType
  <2>2. prog # <<>> BY <1>4
  <2> QED BY <2>1, <2>2, ProgramShape DEF Ops, StageType
<1> HIDE DEF prog, m, n
<1>8. ASSUME NEW j \in 1..(n - 1), prog[j] \in Stores
      PROVE  <<row.plan, row.attempt, PhasesUpTo(prog, j)>> \in artefacts
  <2>1. j \in 1..Len(prog) /\ n \in Nat /\ j \in Nat /\ j - 1 \in Nat /\ n - 1 \in Nat /\ m \in Nat
    BY <1>4, <1>5
  <2>2. j > m
    <3>1. prog[j] \in UnderClaim BY <1>8 DEF Stores, UnderClaim
    <3>2. PICK i \in 1..(j - 1) : prog[i] \in Takes BY <2>1, <3>1, <1>4 DEF Ordered, After
    <3>3. i \in 1..Len(prog) /\ i < j BY <2>1
    <3>4. prog[m] \in Takes BY <1>4 DEF Takes
    <3>5. i = m BY <1>4, <3>2, <3>3, <3>4 DEF Ordered
    <3> QED BY <2>1, <3>3, <3>5
  <2>3. PhasesUpTo(prog, j) = PhasesUpTo(prog, j - 1) + 0
    <3>1. prog[j] # "save" BY <1>8 DEF Stores
    <3> QED BY <1>4, <2>1, <3>1, PhasesStep
  <2>4. PhasesUpTo(prog, j - 1) <= PhasesUpTo(prog, n - 1)
    <3>1. j - 1 <= n - 1 BY <2>1
    <3>2. n - 1 <= Len(prog) BY <1>5, <2>1
    <3> QED BY <1>4, <2>1, <3>1, <3>2, PhasesMonotone
  <2>5. PhasesUpTo(prog, j - 1) # row.saved BY <1>5, <2>2
  <2>6. PhasesUpTo(prog, j - 1) \in Nat /\ row.saved \in Nat
    BY <1>1, <1>4, <2>1, PhasesNat DEF RowType
  <2>7. PhasesUpTo(prog, j) < row.saved BY <1>5, <2>3, <2>4, <2>5, <2>6
  <2> QED BY <1>6, <1>7, <1>8, <2>1, <2>7 DEF RowInv, SharedStores
<1>9. PastLoad(c)' BY <1>2, <1>6 DEF PastLoad
<1>10. PastStores(c)' BY <1>2, <1>3, <1>6, <1>8 DEF PastStores
<1>11. PastInner(c)' /\ PastVacant(c)' /\ PastCurrent(c)' /\ PastSaves(c)'
  BY <1>6 DEF PastInner, PastVacant, PastCurrent, PastSaves
<1>13. SameTime(c)'
  <2>1. prog # <<>> BY <1>4
  <2>2. "timed" \notin svc.promises
    BY <1>6, <1>7, <2>1, ShapeFields DEF KeepsPromises, Ops, StageType
  <2> QED BY <1>6, <2>2 DEF SameTime
<1>12. SharedAttempt(c)' BY <1>2, <1>6 DEF SharedAttempt
<1> QED BY <1>9, <1>10, <1>11, <1>12, <1>13 DEF Past

\* One call moves, and what it has behind it is all there.
LEMMA PastAll ==
  ASSUME StageType, StageType', CallInv, PastInv, Forward, NEW c \in Calls,
         \A d \in Calls : d # c => call'[d] = call[d], Past(c)' /\ SharedAttempt(c)'
  PROVE  PastInv'
  BY PastOther DEF PastInv

\* A step that leaves the row alone, ...
LEMMA QuietForward ==
  ASSUME StageType, svc' = svc, row' = row, takenFresh' = takenFresh,
         upstream => upstream', moved => moved', artefacts \subseteq artefacts',
         inner.state = "completed" => inner'.state = "completed",
         InnerStays
  PROVE  Forward
<1>1. row \in RowType BY TypeParts
<1> QED BY <1>1, SameRowGrows DEF Forward, RowType

\* ... or at least does not complete it, keeps what a completed row promises.
LEMMA KeptStays ==
  ASSUME StageType, StageType', Kept, Forward,
         row'.state = "completed" => row.state = "completed"
  PROVE  Kept'
<1> SUFFICES ASSUME row'.state = "completed" PROVE Kept' 
  BY DEF Kept, FreshOutcome, SealedOutcome, PhasesKept, BoundInner, RunUnderGate
<1>1. row' = row /\ row.state = "completed" BY DEF Forward, RowGrows, Finished, Ends
<1>2. row \in RowType BY TypeParts
<1>3. svc' = svc /\ takenFresh' = takenFresh /\ Phases' = Phases /\ (Uses("wrap")' <=> Uses("wrap"))
  BY <1>1, <1>2 DEF Forward, RowType, Phases, Uses
<1>4. FreshOutcome' /\ PhasesKept' /\ BoundInner'
  BY <1>1, <1>3 DEF Kept, FreshOutcome, PhasesKept, BoundInner, Forward
<1>6. RunUnderGate'
  <2>1. KeepsPromises(svc) BY ShapeFields DEF StageType
  <2>2. Uses("wrap") => inner.state # "none" BY <1>1 DEF Kept, BoundInner
  <2>3. "gated" \in svc.promises \/ "timed" \in svc.promises => Uses("wrap")
    BY <2>1 DEF KeepsPromises, Uses, Occurs, Ops
  <2> QED BY <1>1, <1>3, <2>2, <2>3 DEF Kept, RunUnderGate, Forward, InnerStays
<1>5. SealedOutcome' BY <1>1, <1>3 DEF Kept, SealedOutcome, Forward
<1> QED BY <1>4, <1>5, <1>6 DEF Kept

\* The artefacts of a shared row, while its plan, attempt and phases stay.
LEMMA SharedStays ==
  ASSUME SharedStores, Forward, row.state # "none", row'.plan = row.plan, row'.saved = row.saved
  PROVE  SharedStores'
  BY DEF SharedStores, Forward

\* A row that is left alone keeps what it promises.
LEMMA RowSame ==
  ASSUME StageType, StageType', RowInv, Forward, row' = row, takenFresh' = takenFresh
  PROVE  RowInv'
<1>1. Kept' BY KeptStays DEF RowInv
<1>2. SharedStores'
  <2>1. CASE row.state = "none" BY <2>1 DEF SharedStores
  <2>2. CASE row.state # "none" BY <2>2, SharedStays DEF RowInv
  <2> QED BY <2>1, <2>2
<1> QED BY <1>1, <1>2 DEF RowInv, UpstreamFirst, FreshRow, Forward

\* Steps that go on in the program and leave the row alone.
LEMMA PassKeeps ==
  ASSUME StageType, StageType', CallInv, PastInv, RowInv, NEW c \in Calls,
         Pass(c) \/ Wrap(c) \/ Settle(c) \/ Effect(c) \/ Publish(c)
  PROVE  PastInv' /\ RowInv'
<1> DEFINE step == Program(c)[call[c].pc]
<1>0. call \in [Calls -> CallType]
      /\ inner \in InnerRows
  BY TypeParts DEF CallsOK
<1>1. /\ call[c].on /\ Next1(c) /\ svc' = svc /\ row' = row /\ takenFresh' = takenFresh
      /\ upstream' = upstream /\ moved' = moved
  BY DEF Pass, Holds, At, Wrap, Settle, Effect, Publish, EnvUnchanged, LedgerUnchanged
<1>2. artefacts \subseteq artefacts'
  BY DEF Pass, Wrap, Settle, Effect, Publish, WorkUnchanged
<1>3. /\ inner.state = "completed" => inner'.state = "completed"
      /\ InnerStays
  BY <1>0 DEF Pass, Wrap, Settle, Effect, Publish, EnvUnchanged, NoInner, InnerRow, InnerRows,
              InnerStays
<1>4. Forward BY <1>1, <1>2, <1>3, QuietForward
<1>5. step \notin Takes \cup {"finish", "put"} /\ step # "save"
  BY DEF Pass, Holds, Wrap, Settle, Effect, Publish, At, Checks, Takes
<1>6. Passing(c)
  <2>1. CASE Pass(c)
    BY <1>1, <1>2, <1>5, <2>1 DEF Pass, Holds, At, Checks, Met, NoInner, Passing, Stores, EnvUnchanged
  <2>2. CASE Wrap(c) BY <2>2 DEF Wrap, At, Passing, Stores
  <2>3. CASE Settle(c) BY <1>0, <2>3 DEF Settle, At, InnerRows, Passing, Stores
  <2>4. CASE Effect(c) BY <2>4 DEF Effect, At, Passing, Stores
  <2>5. CASE Publish(c) BY <2>5 DEF Publish, At, Passing, Stores
  <2> QED BY <2>1, <2>2, <2>3, <2>4, <2>5
<1>7. Past(c)' /\ SharedAttempt(c)' BY <1>1, <1>4, <1>5, <1>6, PastGoing
<1>8. \A d \in Calls : d # c => call'[d] = call[d] BY <1>0, <1>1 DEF Next1
<1> QED BY <1>1, <1>3, <1>4, <1>7, <1>8, PastAll, RowSame

\* Steps that end or begin a call and leave the row alone.
LEMMA LeaveKeeps ==
  ASSUME StageType, StageType', CallInv, PastInv, RowInv, NEW c \in Calls,
         \A d \in Calls : d # c => call'[d] = call[d],
         ~call'[c].on \/ (call'[c].pc = 1 /\ call'[c].attempt = 0),
         svc' = svc, row' = row, takenFresh' = takenFresh, upstream' = upstream, moved' = moved,
         artefacts' = artefacts, inner' = inner
  PROVE  PastInv' /\ RowInv'
<1>1. Forward BY QuietForward DEF InnerStays
<1> QED BY <1>1, PastNothing, PastAll, RowSame

\* A call that leaves is idle, and no other call moves.
LEMMA LeaveIs ==
  ASSUME StageType, NEW c \in Calls, Leave(c)
  PROVE  ~call'[c].on /\ \A d \in Calls : d # c => call'[d] = call[d]
<1>1. call \in [Calls -> CallType] BY TypeParts DEF CallsOK
<1> QED BY <1>1 DEF Leave, Idle

\* Calls that only answer or give up.
LEMMA QuietKeeps ==
  ASSUME StageType, StageType', CallInv, PastInv, RowInv, NEW c \in Calls,
         Replay(c) \/ Abort(c) \/ FinishUnnoticed(c)
  PROVE  PastInv' /\ RowInv'
<1>1. /\ Leave(c) /\ svc' = svc /\ row' = row /\ takenFresh' = takenFresh /\ upstream' = upstream
      /\ moved' = moved /\ artefacts' = artefacts /\ inner' = inner
  BY DEF Replay, Abort, FinishUnnoticed, EnvUnchanged, LedgerUnchanged, WorkUnchanged
<1> QED BY <1>1, LeaveIs, LeaveKeeps

\* Calls that begin.
LEMMA StartKeeps ==
  ASSUME StageType, StageType', CallInv, PastInv, RowInv, NEW c \in Calls, NEW op \in Ops,
         NEW p \in Plans, NEW t \in Times, Start(c, op, p, t)
  PROVE  PastInv' /\ RowInv'
<1>0. call \in [Calls -> CallType] BY TypeParts DEF CallsOK
<1>1. /\ svc' = svc /\ row' = row /\ takenFresh' = takenFresh /\ upstream' = upstream
      /\ moved' = moved /\ artefacts' = artefacts /\ inner' = inner
  BY DEF Start, EnvUnchanged, LedgerUnchanged, WorkUnchanged
<1>2. /\ call'[c].pc = 1 /\ call'[c].attempt = 0 /\ \A d \in Calls : d # c => call'[d] = call[d]
  BY <1>0 DEF Start
<1> QED BY <1>1, <1>2, LeaveKeeps

\* Withdrawals and the like only go forward.
LEMMA SurroundingsKeep ==
  ASSUME StageType, StageType', CallInv, PastInv, RowInv, Surroundings \/ UNCHANGED vars
  PROVE  PastInv' /\ RowInv'
<1>0. inner \in InnerRows
  BY TypeParts
<1>1. /\ svc' = svc /\ row' = row /\ takenFresh' = takenFresh /\ call' = call
      /\ (upstream => upstream') /\ (moved => moved') /\ artefacts \subseteq artefacts'
  BY DEF Surroundings, Prepare, UpstreamFinishes, Withdraw, WindowCloses, InnerMoves,
         EnvUnchanged, LedgerUnchanged, WorkUnchanged, vars
<1>2. /\ inner.state = "completed" => inner'.state = "completed"
      /\ InnerStays
  BY <1>0 DEF Surroundings, Prepare, UpstreamFinishes, Withdraw, WindowCloses, InnerMoves,
              EnvUnchanged, vars, InnerRow, InnerRows, InnerStays
<1>3. Forward BY <1>1, <1>2, QuietForward
<1>4. PastInv' BY <1>1, <1>3, PastOther DEF PastInv
<1> QED BY <1>1, <1>2, <1>3, <1>4, RowSame

\* Steps that change the state of the row, but do not complete it.
LEMMA StateKeeps ==
  ASSUME StageType, StageType', CallInv, PastInv, RowInv, NEW c \in Calls, Leave(c),
         ~Finished, row.state # "none",
         row'.state \notin {"none", "completed"}, row'.plan = row.plan, row'.attempt = row.attempt,
         row'.saved = row.saved, row'.at = row.at, svc' = svc, takenFresh' = takenFresh, upstream' = upstream,
         moved' = moved, artefacts' = artefacts, inner' = inner
  PROVE  PastInv' /\ RowInv'
<1>1. row \in RowType /\ row' \in RowType BY TypeParts DEF StageType, TypeOK, RowType
<1>0. /\ row.saved \in Nat /\ row.attempt \in Nat /\ row.saved <= row'.saved
      /\ row'.attempt >= row.attempt
  BY <1>1 DEF RowType
<1>r. RowGrows BY <1>0 DEF RowGrows
<1>2. Forward BY <1>0, <1>r DEF Forward, InnerStays
<1>3. PastInv' BY <1>2, LeaveIs, PastNothing, PastAll
<1>4. Kept' BY <1>2, KeptStays DEF RowInv
<1>5. SharedStores' BY <1>2, SharedStays DEF RowInv
<1> QED BY <1>3, <1>4, <1>5 DEF RowInv, UpstreamFirst, FreshRow

\* Rows that are put aside or have no attempts left.
LEMMA AsideKeeps ==
  ASSUME StageType, StageType', CallInv, PastInv, RowInv, NEW c \in Calls, Pause(c) \/ Exhaust(c)
  PROVE  PastInv' /\ RowInv'
<1>1. row \in RowType BY TypeParts
<1>2. /\ Leave(c) /\ row.state = "started" /\ svc' = svc /\ takenFresh' = takenFresh
      /\ upstream' = upstream /\ moved' = moved /\ artefacts' = artefacts /\ inner' = inner
  BY DEF Pause, Exhaust, Fence, EnvUnchanged, WorkUnchanged
<1>3. /\ row'.state \in {"waiting", "failed"} /\ row'.plan = row.plan /\ row'.attempt = row.attempt
      /\ row'.saved = row.saved /\ row'.at = row.at
  BY <1>1 DEF Pause, Exhaust, RowType
<1>4. ~Finished BY <1>2 DEF Finished, Ends
<1> QED BY <1>2, <1>3, <1>4, StateKeeps

\* Rows that time out or fail.
LEMMA FailureKeeps ==
  ASSUME StageType, StageType', CallInv, PastInv, RowInv, NEW c \in Calls, NEW end \in Ends,
         end # "completed", Fence(c), End(c, end)
  PROVE  PastInv' /\ RowInv'
<1>1. row \in RowType BY TypeParts
<1>2. /\ Leave(c) /\ row.state = "started" /\ svc' = svc /\ takenFresh' = takenFresh
      /\ upstream' = upstream /\ moved' = moved /\ artefacts' = artefacts /\ inner' = inner
  BY DEF End, Fence, EnvUnchanged, WorkUnchanged
<1>3. /\ row'.state = end /\ row'.plan = row.plan /\ row'.attempt = row.attempt
      /\ row'.saved = row.saved /\ row'.at = row.at
  BY <1>1 DEF End, RowType
<1>4. ~Finished /\ end # "none" BY <1>2 DEF Finished, Ends
<1> QED BY <1>2, <1>3, <1>4, StateKeeps

\* A phase is saved after what it needs is stored.
LEMMA SaveKeeps ==
  ASSUME StageType, StageType', CallInv, PastInv, RowInv, NEW c \in Calls, Save(c)
  PROVE  PastInv' /\ RowInv'
<1> DEFINE prog == Program(c)
           m == call[c].pc
<1>1. row \in RowType /\ row' \in RowType /\ call \in [Calls -> CallType]
  BY TypeParts DEF CallsOK, StageType, TypeOK, RowType
<1>2. /\ Next1(c) /\ row.state = "started" /\ svc' = svc /\ takenFresh' = takenFresh
      /\ upstream' = upstream /\ moved' = moved /\ artefacts' = artefacts /\ inner' = inner
      /\ At(c, "save")
  BY DEF Save, EnvUnchanged, WorkUnchanged
<1>3. /\ call[c].on /\ prog[m] = "save" /\ m \in 1..Len(prog) /\ prog \in Seq(Steps)
      /\ Ordered(prog) /\ prog # <<>>
  BY <1>2, AtStep
<1>4. Claimed(c) BY <1>2, AtWork, AtStep DEF Claimed, UnderClaim
<1>5. Seen(c) \in Nat /\ Seen(c) = PhasesUpTo(prog, m - 1) /\ PhasesUpTo(prog, m) = Seen(c) + 1
  <2>1. m - 1 \in Nat BY <1>3
  <2> QED BY <1>3, <2>1, PhasesNat, PhasesStep DEF Seen
<1>6. \/ row' = row /\ Seen(c) + 1 <= row.saved /\ ~svc.shared
      \/ row' = [row EXCEPT !.saved = Seen(c) + 1] /\ Seen(c) = row.saved
  BY <1>1, <1>5 DEF Save, RowType
<1>7. /\ row'.state = "started" /\ row'.plan = row.plan /\ row'.attempt = row.attempt
      /\ row'.saved >= Seen(c) + 1 /\ row.saved <= row'.saved /\ row'.at = row.at
  BY <1>1, <1>2, <1>5, <1>6 DEF RowType
<1>8. ~Finished /\ ~Finished' BY <1>2, <1>7 DEF Finished, Ends
<1>9. RowGrows BY <1>1, <1>7, <1>8 DEF RowGrows, RowType
<1>10. Forward BY <1>2, <1>7, <1>9 DEF Forward, InnerStays
<1>11. Passing(c) BY <1>3, <1>7 DEF Passing, Stores
<1>12. Past(c)' /\ SharedAttempt(c)'
  BY <1>2, <1>3, <1>7, <1>10, <1>11, PastGoing DEF Takes
<1>13. \A d \in Calls : d # c => call'[d] = call[d] BY <1>1, <1>2 DEF Next1
<1>14. Kept' BY <1>7, <1>10, KeptStays DEF RowInv
<1>15. SharedStores'
  <2>1. CASE row' = row BY <1>2, <1>10, <2>1, SharedStays DEF RowInv
  <2>2. CASE row' = [row EXCEPT !.saved = Seen(c) + 1] /\ Seen(c) = row.saved
    <3> SUFFICES ASSUME svc.shared, NEW i \in 1..Len(svc.execute), svc.execute[i] \in Stores,
                        PhasesUpTo(svc.execute, i) < row.saved + 1
                 PROVE  <<row.plan, row.attempt, PhasesUpTo(svc.execute, i)>> \in artefacts
      BY <1>1, <1>2, <1>7, <2>2 DEF SharedStores, RowType
    <3>1. prog = svc.execute
      <4>1. svc.recover = <<>> BY ShapeFields DEF SharedOnce, StageType
      <4> QED BY <1>3, <4>1, ProgramShape DEF Ops, StageType
    <3> HIDE DEF prog, m
    <3>2. i \in Nat /\ m \in Nat /\ PhasesUpTo(prog, i) \in Nat BY <1>3, <3>1, PhasesNat
    <3>3. CASE PhasesUpTo(prog, i) < row.saved
      BY <1>2, <3>1, <3>3 DEF RowInv, SharedStores
    <3>4. CASE PhasesUpTo(prog, i) = row.saved
      <4>1. i < m
        <5>1. i # m BY <1>3, <3>1 DEF Stores
        <5>2. ~(m <= i) BY <1>3, <1>5, <2>2, <3>1, <3>2, <3>4, PhasesMonotone
        <5> QED BY <3>2, <5>2
      <4>2. i \in 1..(m - 1) BY <3>2, <4>1
      <4>3. <<call[c].plan, call[c].attempt, PhasesUpTo(prog, i)>> \in artefacts
        BY <1>4, <3>1, <4>2 DEF PastInv, Past, PastStores, prog, m
      <4>4. call[c].plan = row.plan /\ call[c].attempt = row.attempt
        BY <1>4 DEF CallInv, HoldsRow, PastInv, SharedAttempt
      <4> QED BY <3>1, <4>3, <4>4
    <3>5. PhasesUpTo(prog, i) < row.saved \/ PhasesUpTo(prog, i) = row.saved
      BY <1>1, <3>1, <3>2 DEF RowType
    <3> QED BY <3>1, <3>3, <3>4, <3>5
  <2> QED BY <1>6, <2>1, <2>2
<1> QED BY <1>2, <1>7, <1>10, <1>12, <1>13, <1>14, <1>15, PastAll
        DEF RowInv, UpstreamFirst, FreshRow

\* What the service promises, the completing call has behind it.
LEMMA CompletionKeeps ==
  ASSUME StageType, StageType', CallInv, PastInv, RowInv, NEW c \in Calls,
         At(c, "finish"), Fence(c), End(c, "completed")
  PROVE  PastInv' /\ RowInv'
<1> DEFINE prog == Program(c)
           m == call[c].pc
<1>1. row \in RowType /\ row' \in RowType BY TypeParts DEF StageType, TypeOK, RowType
<1>2. /\ Leave(c) /\ row.state = "started" /\ svc' = svc /\ takenFresh' = takenFresh
      /\ upstream' = upstream /\ moved' = moved /\ artefacts' = artefacts /\ inner' = inner
      /\ row' = [row EXCEPT !.state = "completed", !.outcome = Outcome(c, "completed")]
  BY DEF End, Fence, EnvUnchanged, WorkUnchanged
<1>3. /\ row'.state = "completed" /\ row'.plan = row.plan /\ row'.attempt = row.attempt
      /\ row'.saved = row.saved /\ row'.outcome = Outcome(c, "completed") /\ row'.at = row.at
  BY <1>1, <1>2 DEF RowType
<1>4. /\ call[c].on /\ prog[m] = "finish" /\ m \in 1..Len(prog) /\ prog \in Seq(Steps)
      /\ Ordered(prog) /\ prog # <<>>
  BY AtStep
<1>5. m = Len(prog) BY <1>4 DEF Ordered
<1>6. Claimed(c) BY AtWork, AtStep DEF Claimed, UnderClaim
<1>7. ~Finished BY <1>2 DEF Finished, Ends
<1>8. RowGrows
  <2>1. row'.attempt >= row.attempt BY <1>1, <1>3 DEF RowType
  <2> QED BY <1>3, <1>7, <2>1 DEF RowGrows
<1>9. Forward
  <2>1. row.saved <= row'.saved BY <1>1, <1>3 DEF RowType
  <2> QED BY <1>2, <1>3, <1>8, <2>1 DEF Forward, InnerStays
<1>10. PastInv' BY <1>2, <1>9, LeaveIs, PastNothing, PastAll
<1>11. SharedStores' BY <1>2, <1>3, <1>9, SharedStays DEF RowInv
<1>12. prog = svc[call[c].op] /\ call[c].op \in Ops /\ KeepsPromises(svc)
  BY ProgramShape, ShapeFields DEF StageType
<1>13. ASSUME NEW step, step # "finish", Occurs(step, prog)
       PROVE  \E j \in 1..(m - 1) : prog[j] = step
  <2>1. PICK j \in 1..Len(prog) : prog[j] = step BY <1>13 DEF Occurs
  <2>2. j \in 1..(m - 1) BY <1>4, <1>5, <1>13, <2>1
  <2> QED BY <2>1, <2>2
<1> HIDE DEF prog, m
<1>14. FreshOutcome'
  <2> SUFFICES ASSUME "fresh" \in svc.promises PROVE takenFresh
    BY <1>2 DEF FreshOutcome
  <2>1. ~svc.shared /\ svc.fenced
        /\ \E j \in 1..(m - 1) : prog[j] = "current" /\ After(prog, j, Takes)
    BY <1>4, <1>12 DEF KeepsPromises, prog, m
  <2>2. row.attempt = call[c].attempt BY <2>1 DEF Fence
  <2> QED BY <1>6, <2>1, <2>2 DEF PastInv, Past, PastCurrent, prog, m
<1>15. SealedOutcome'
  <2> SUFFICES ASSUME "sealed" \in svc.promises, NEW i \in 1..Len(svc.execute),
                      svc.execute[i] \in Stores
               PROVE  <<call[c].plan, call[c].attempt, PhasesUpTo(svc.execute, i)>> \in artefacts
    BY <1>2, <1>3 DEF SealedOutcome, Outcome, Stores
  <2>1. PICK j \in 1..Len(prog) :
            prog[j] \in Stores /\ PhasesUpTo(prog, j) = PhasesUpTo(svc.execute, i)
    BY <1>4, <1>12 DEF KeepsPromises, Stores, prog
  <2>2. j \in 1..(m - 1)
    <3>1. j # m BY <1>4, <2>1 DEF Stores
    <3> QED BY <1>4, <1>5, <2>1, <3>1
  <2> QED BY <1>6, <2>1, <2>2 DEF PastInv, Past, PastStores, prog, m
<1>16. PhasesKept'
  <2>1. Seen(c) = Phases
    <3>1. PhasesUpTo(prog, Len(prog)) = Phases BY <1>4, PhasesOfBoth DEF StageType, prog
    <3> QED BY <1>4, <1>5, <3>1, LastSavesNothing DEF Seen, prog, m
  <2>2. row.saved \in Nat /\ row.saved <= Phases /\ Phases \in Nat
    BY TypeParts, PhasesNatural DEF StageType, RowOK, RowType
  <2>3. row.saved = Phases
    <3>1. CASE svc.shared BY <2>1, <3>1 DEF Fence
    <3>2. CASE ~svc.shared
      <4>1. row.saved >= Seen(c) BY <1>6, <3>2 DEF PastInv, Past, PastSaves
      <4> QED BY <2>1, <2>2, <4>1
    <3> QED BY <3>1, <3>2
  <2> QED BY <1>2, <1>3, <2>3 DEF PhasesKept, Phases
<1>17. BoundInner'
  <2> SUFFICES ASSUME Uses("wrap") PROVE inner.state = "completed"
    BY <1>2 DEF BoundInner, Uses
  <2>1. ~svc.shared /\ Occurs("settle", prog)
    BY <1>4, <1>12 DEF KeepsPromises, Uses, Occurs, prog
  <2> QED BY <1>4, <1>13, <2>1 DEF PastInv, Past, PastInner, prog, m
<1>18. RunUnderGate'
  <2>1. "gated" \in svc.promises \/ "timed" \in svc.promises =>
            ~svc.shared /\ Occurs("settle", prog)
    BY <1>4, <1>12 DEF KeepsPromises, prog
  <2>2. ASSUME "gated" \in svc.promises PROVE inner.gated
    <3>1. inner.state = "completed"
      BY <1>4, <1>13, <2>1, <2>2 DEF PastInv, Past, PastInner, prog, m
    <3>2. PICK j \in 1..Len(prog) : prog[j] = "vacant" /\ After(prog, j, Takes)
      BY <1>4, <1>12, <2>2 DEF KeepsPromises, prog
    <3>3. j \in 1..(m - 1)
      <4>1. j # m BY <1>4, <3>2
      <4> QED BY <1>4, <1>5, <4>1
    <3> QED BY <1>6, <2>1, <2>2, <3>1, <3>2, <3>3 DEF PastInv, Past, PastVacant, prog, m
  <2>3. ASSUME "timed" \in svc.promises PROVE inner.at = row.at
    <3>1. Occurs("timed", prog) BY <1>4, <1>12, <2>3 DEF KeepsPromises, prog
    <3>2. inner.at = call[c].at
      BY <1>4, <1>13, <2>1, <2>3, <3>1 DEF PastInv, Past, PastInner, prog, m
    <3>3. call[c].at = row.at BY <1>6, <2>3 DEF PastInv, Past, SameTime
    <3> QED BY <3>2, <3>3
  <2> QED BY <1>2, <1>3, <2>2, <2>3 DEF RunUnderGate
<1> QED BY <1>2, <1>10, <1>11, <1>14, <1>15, <1>16, <1>17, <1>18
        DEF RowInv, Kept, UpstreamFirst, FreshRow

\* Before its program takes a row, a call that has no attempt yet has read the
\* records the service promises to rest on.
LEMMA LoadedBefore ==
  ASSUME StageType, PastInv, NEW c \in Calls, "upstream" \in svc.promises,
         At(c, "claim") \/ At(c, "put"), call[c].attempt = 0
  PROVE  upstream
<1>1. /\ call[c].on /\ Program(c)[call[c].pc] \in {"claim", "put"}
      /\ call[c].pc \in 1..Len(Program(c))
  BY AtStep
<1>2. Program(c) = svc[call[c].op] /\ call[c].op \in Ops /\ KeepsPromises(svc)
  BY ProgramShape, ShapeFields DEF StageType
<1>3. After(Program(c), call[c].pc, {"load"}) BY <1>1, <1>2 DEF KeepsPromises
<1> QED BY <1>1, <1>3 DEF After, PastInv, Past, PastLoad

\* A call at a step that takes the row has no attempt yet.
LEMMA NoAttemptYet ==
  ASSUME StageType, NEW c \in Calls, NEW step \in Takes \cup {"put"}, At(c, step)
  PROVE  call[c].attempt = 0
<1>1. /\ Program(c)[call[c].pc] = step /\ call[c].pc \in 1..Len(Program(c)) /\ call[c].on
      /\ Ordered(Program(c)) /\ Running(c) /\ call[c] \in CallType /\ Program(c) \in Seq(Steps)
  BY AtStep
<1>2. ASSUME NEW i \in 1..(call[c].pc - 1), Program(c)[i] \in Takes PROVE FALSE
  <2>1. i \in 1..Len(Program(c)) /\ i # call[c].pc BY <1>1
  <2>2. CASE step \in Takes BY <1>1, <1>2, <2>1, <2>2 DEF Ordered
  <2>3. CASE step = "put"
    <3>1. Occurs("put", Program(c)) BY <1>1, <2>3 DEF Occurs
    <3> QED BY <1>1, <1>2, <2>1, <3>1 DEF Ordered
  <2> QED BY <2>2, <2>3
<1>3. ~After(Program(c), call[c].pc, Takes) BY <1>2 DEF After
<1>4. ~(call[c].attempt >= 1) /\ call[c].attempt \in Nat BY <1>1, <1>3 DEF Running, CallType
<1> QED BY <1>4

\* A row that is handed to any caller is only ever claimed.
LEMMA SharedOnlyClaims ==
  ASSUME StageType, svc.shared, NEW c \in Calls, NEW step \in {"recover", "resume", "put"}
  PROVE  ~At(c, step) /\ ~svc.takeover
<1>1. SharedOnce(svc) BY ShapeFields DEF StageType
<1>2. ASSUME At(c, step) PROVE FALSE
  <2>1. Occurs(step, Program(c)) /\ Program(c) # <<>> BY <1>2, AtStep DEF Occurs
  <2>2. Program(c) = svc.execute BY <1>1, <2>1, ProgramShape DEF SharedOnce, Ops, StageType
  <2> QED BY <1>1, <2>1, <2>2 DEF SharedOnce
<1> QED BY <1>1, <1>2 DEF SharedOnce

\* A service that compares times has one attempt, and no row of it is put aside.
LEMMA TimedOnce ==
  ASSUME StageType, "timed" \in svc.promises
  PROVE  svc.attempts = 1 /\ \A c \in Calls : ~At(c, "resume")
<1>1. KeepsPromises(svc) BY ShapeFields DEF StageType
<1>2. svc.attempts = 1 BY <1>1 DEF KeepsPromises, Ops
<1>3. ASSUME NEW c \in Calls, At(c, "resume") PROVE FALSE
  <2>1. Occurs("resume", Program(c)) BY <1>3, AtStep DEF Occurs
  <2>2. Program(c) = svc[call[c].op] /\ call[c].op \in Ops BY ProgramShape DEF StageType
  <2> QED BY <1>1, <2>1, <2>2 DEF KeepsPromises
<1> QED BY <1>2, <1>3

\* Taking the row begins an attempt with nothing stored and the fact as it is.
LEMMA TakeKeeps ==
  ASSUME StageType, StageType', CallInv, PastInv, RowInv, NEW c \in Calls,
         Claim(c) \/ Recover(c) \/ Resume(c)
  PROVE  PastInv' /\ RowInv'
<1>0. row \in RowType /\ row' \in RowType /\ call \in [Calls -> CallType]
      /\ moved \in BOOLEAN /\ takenFresh' \in BOOLEAN
  BY TypeParts DEF CallsOK, StageType, TypeOK, RowType
<1>a. call[c].on /\ Program(c)[call[c].pc] \in Takes
  BY DEF Claim, Recover, Resume, At, Takes
<1>1. ASSUME NEW n \in Nat, n >= 1, TakeAttempt(c, n), row'.attempt = n, row'.state = "started",
             ~Finished,
             row.state = "none" => row'.saved = 0 /\ At(c, "claim"),
             row.state # "none" => /\ n > row.attempt /\ row'.plan = row.plan
                                   /\ row'.saved = row.saved /\ ~svc.shared
                                   /\ row'.at = row.at,
             "timed" \in svc.promises => row'.at = call[c].at
      PROVE  PastInv' /\ RowInv'
  <2>1. /\ svc' = svc /\ takenFresh' = ~moved /\ upstream' = upstream /\ moved' = moved
        /\ artefacts' = artefacts /\ inner' = inner
    BY <1>1 DEF TakeAttempt, EnvUnchanged, WorkUnchanged
  <2>2. RowGrows BY <1>0, <1>1 DEF RowGrows, RowType
  <2>3. Forward
    <3>1. row.state # "none" => row.saved <= row'.saved /\ row'.attempt > row.attempt /\ ~svc.shared
      BY <1>0, <1>1 DEF RowType
    <3> QED BY <1>1, <2>1, <2>2, <3>1 DEF Forward, InnerStays
  <2>4. Past(c)' /\ SharedAttempt(c)' BY <1>1, <1>a, <2>3, PastTaking
  <2>5. \A d \in Calls : d # c => call'[d] = call[d] BY <1>0, <1>1 DEF TakeAttempt
  <2>6. PastInv' BY <2>3, <2>4, <2>5, PastAll
  <2>7. Kept' BY <1>1, <2>3, KeptStays DEF RowInv
  <2>8. SharedStores'
    <3>1. CASE row.state = "none"
      <4>1. ASSUME NEW i \in 1..Len(svc.execute) PROVE ~(PhasesUpTo(svc.execute, i) < row'.saved)
        <5>1. svc.execute \in Seq(Steps) /\ i \in Nat BY Shape DEF StageType, Ops
        <5>2. PhasesUpTo(svc.execute, i) \in Nat BY <5>1, PhasesNat
        <5>3. row'.saved = 0 BY <1>1, <3>1
        <5> QED BY <5>2, <5>3
      <4> QED BY <2>1, <4>1 DEF SharedStores
    <3>2. CASE row.state # "none" BY <1>1, <2>1, <3>2 DEF SharedStores
    <3> QED BY <3>1, <3>2
  <2>9. UpstreamFirst'
    <3>1. CASE row.state = "none"
      <4>1. call[c].attempt = 0 BY <1>1, <3>1, NoAttemptYet DEF Takes
      <4> QED BY <1>1, <2>1, <3>1, <4>1, LoadedBefore DEF UpstreamFirst
    <3>2. CASE row.state # "none" BY <2>1, <3>2 DEF RowInv, UpstreamFirst
    <3> QED BY <3>1, <3>2
  <2>10. FreshRow' BY <1>0, <2>1 DEF RowInv, FreshRow
  <2> QED BY <2>6, <2>7, <2>8, <2>9, <2>10 DEF RowInv
<1>2. CASE NewRow(c) /\ TakeAttempt(c, 1) /\ At(c, "claim")
  <2>1. row'.attempt = 1 /\ row'.state = "started" /\ row'.saved = 0 /\ row'.at = call[c].at
    BY <1>2 DEF NewRow, NoRow
  <2>2. row.state = "none" /\ ~Finished BY <1>2 DEF NewRow, Finished, Ends
  <2> QED BY <1>1, <1>2, <2>1, <2>2
<1>3. CASE NextAttempt(c) /\ TakeAttempt(c, row.attempt + 1) /\ ~svc.shared
  <2>1. /\ row'.attempt = row.attempt + 1 /\ row'.state = "started" /\ row'.plan = row.plan
        /\ row'.saved = row.saved /\ row.state = "started" /\ row'.at = row.at
    BY <1>0, <1>3 DEF NextAttempt, RowType
  <2>2. row.attempt + 1 \in Nat /\ row.attempt + 1 >= 1 /\ row.attempt + 1 > row.attempt
    BY <1>0 DEF RowType
  <2>3. ~Finished BY <1>3 DEF NextAttempt, Finished, Ends
  <2>4. "timed" \notin svc.promises
    <3>1. row.attempt >= 1 /\ row.attempt < svc.attempts
      BY <1>3 DEF NextAttempt, StageType, RowOK
    <3> QED BY <1>0, <3>1, TimedOnce DEF RowType
  <2> QED BY <1>1, <1>3, <2>1, <2>2, <2>3, <2>4
<1>4. CASE Resume(c)
  <2>1. /\ row'.attempt = row.attempt + 1 /\ row'.state = "started" /\ row'.plan = row.plan
        /\ row'.saved = row.saved /\ row.state = "waiting" /\ TakeAttempt(c, row.attempt + 1)
        /\ row'.at = row.at
    BY <1>0, <1>4 DEF Resume, RowType
  <2>2. row.attempt + 1 \in Nat /\ row.attempt + 1 >= 1 /\ row.attempt + 1 > row.attempt
    BY <1>0 DEF RowType
  <2>3. ~Finished BY <2>1 DEF Finished, Ends
  <2>4. ~svc.shared BY <1>4, SharedOnlyClaims DEF Resume
  <2>5. "timed" \notin svc.promises BY <1>4, TimedOnce DEF Resume
  <2> QED BY <1>1, <2>1, <2>2, <2>3, <2>4, <2>5
<1>5. CASE Join(c) /\ At(c, "claim")
  <2>1. /\ svc' = svc /\ row' = row /\ takenFresh' = takenFresh /\ upstream' = upstream
        /\ moved' = moved /\ artefacts' = artefacts /\ inner' = inner
    BY <1>5 DEF Join, EnvUnchanged, WorkUnchanged
  <2>2. Forward BY <2>1, QuietForward DEF InnerStays
  <2>3. Past(c)' /\ SharedAttempt(c)' BY <1>5, <2>2, PastJoining
  <2>4. \A d \in Calls : d # c => call'[d] = call[d] BY <1>0, <1>5 DEF Join
  <2> QED BY <2>1, <2>2, <2>3, <2>4, PastAll, RowSame
<1>6. NextAttempt(c) /\ (Recover(c) \/ svc.takeover) => ~svc.shared
  BY SharedOnlyClaims DEF Recover
<1> QED BY <1>2, <1>3, <1>4, <1>5, <1>6 DEF Claim, Recover

\* A store of finished rows only takes what was loaded before.
LEMMA PutKeeps ==
  ASSUME StageType, StageType', CallInv, PastInv, RowInv, NEW c \in Calls, Put(c)
  PROVE  PastInv' /\ RowInv'
<1> DEFINE prog == Program(c)
           m == call[c].pc
<1>0. row \in RowType /\ row' \in RowType /\ moved \in BOOLEAN /\ takenFresh' \in BOOLEAN
  BY TypeParts DEF StageType, TypeOK, RowType
<1>1. /\ Leave(c) /\ row.state = "none" /\ svc' = svc /\ takenFresh' = ~moved
      /\ upstream' = upstream /\ moved' = moved /\ artefacts' = artefacts /\ inner' = inner
      /\ row'.state = "completed" /\ row'.saved = 0 /\ At(c, "put")
  BY DEF Put, EnvUnchanged, WorkUnchanged, NoRow
<1>2. /\ call[c].on /\ prog[m] = "put" /\ m \in 1..Len(prog) /\ prog \in Seq(Steps)
      /\ Ordered(prog) /\ prog # <<>>
  BY <1>1, AtStep
<1>3. m = Len(prog) BY <1>2 DEF Ordered
<1>4. ~Finished BY <1>1 DEF Finished, Ends
<1>5. Forward BY <1>1, <1>4 DEF Forward, RowGrows, InnerStays
<1>6. PastInv' BY <1>1, <1>5, LeaveIs, PastNothing, PastAll
<1>7. ~svc.shared BY <1>1, SharedOnlyClaims
<1>8. prog = svc[call[c].op] /\ call[c].op \in Ops /\ KeepsPromises(svc)
  BY ProgramShape, ShapeFields DEF StageType
<1> HIDE DEF prog, m
<1>9. Occurs("put", prog) BY <1>2 DEF Occurs
<1>10. ASSUME NEW i \in 1..Len(prog) PROVE prog[i] \notin UnderClaim
  <2>1. ASSUME NEW j \in 1..(i - 1) PROVE prog[j] \notin Takes
    <3>1. j \in 1..Len(prog) BY <1>2
    <3> QED BY <1>2, <1>9, <3>1 DEF Ordered
  <2> QED BY <1>2, <2>1 DEF Ordered, After
<1>11. UpstreamFirst'
  <2>1. call[c].attempt = 0 BY <1>1, NoAttemptYet
  <2> QED BY <1>1, <2>1, LoadedBefore DEF UpstreamFirst
<1>12. FreshOutcome' /\ BoundInner'
  <2>1. "fresh" \notin svc.promises BY <1>8, <1>9 DEF KeepsPromises
  <2>2. ~Uses("wrap") BY <1>8, <1>9 DEF KeepsPromises, Uses, Occurs
  <2> QED BY <1>1, <2>1, <2>2 DEF FreshOutcome, BoundInner, Uses
<1>13. SealedOutcome'
  <2> SUFFICES ASSUME "sealed" \in svc.promises, NEW i \in 1..Len(svc.execute),
                      svc.execute[i] \in Stores
               PROVE  FALSE
    BY <1>1 DEF SealedOutcome, Stores
  <2>1. PICK j \in 1..Len(prog) : prog[j] \in Stores
    BY <1>2, <1>8 DEF KeepsPromises, Stores
  <2> QED BY <1>10, <2>1 DEF Stores, UnderClaim
<1>14. PhasesKept'
  <2>1. Saves(prog, Len(prog)) = {} BY <1>10 DEF Saves, UnderClaim
  <2>2. PhasesUpTo(prog, Len(prog)) = 0 BY <1>2, <2>1, PhasesNat, FS_EmptySet
  <2>3. Phases = 0 BY <1>2, <2>2, PhasesOfBoth DEF StageType, prog
  <2> QED BY <1>1, <2>3 DEF PhasesKept, Phases
<1>15. RunUnderGate'
  <2>1. "gated" \notin svc.promises /\ "timed" \notin svc.promises
    BY <1>8, <1>9 DEF KeepsPromises
  <2> QED BY <1>1, <2>1 DEF RunUnderGate
<1>16. SharedStores' BY <1>1, <1>7 DEF SharedStores
<1>17. FreshRow' BY <1>0, <1>1 DEF RowInv, FreshRow
<1> QED BY <1>6, <1>11, <1>12, <1>13, <1>14, <1>15, <1>16, <1>17 DEF RowInv, Kept

\* At first there is nothing behind anyone.
LEMMA PromisesInit == Init => PastInv /\ RowInv
  BY DEF Init, PastInv, Past, PastLoad, PastInner, PastVacant, SameTime, PastCurrent, PastSaves,
         PastStores, SharedAttempt, Claimed, Idle, RowInv, UpstreamFirst, FreshRow, SharedStores,
         Kept, FreshOutcome, SealedOutcome, PhasesKept, BoundInner, RunUnderGate, NoRow, NoInner

\* Every step keeps what calls have behind them and what rows promise.
LEMMA PromisesNext ==
  StageType /\ StageType' /\ CallInv /\ PastInv /\ RowInv /\ [Next]_vars => PastInv' /\ RowInv'
<1> SUFFICES ASSUME StageType, StageType', CallInv, PastInv, RowInv, [Next]_vars
             PROVE  PastInv' /\ RowInv'
  OBVIOUS
<1>1. ASSUME NEW c \in Calls, Step(c) PROVE PastInv' /\ RowInv'
  <2>1. CASE Pass(c) \/ Wrap(c) \/ Settle(c) \/ Effect(c) \/ Publish(c) BY <2>1, PassKeeps
  <2>2. CASE Claim(c) \/ Recover(c) \/ Resume(c) BY <2>2, TakeKeeps
  <2>3. CASE Replay(c) BY <2>3, QuietKeeps
  <2>4. CASE Pause(c) \/ Exhaust(c) BY <2>4, AsideKeeps
  <2>5. CASE Save(c) BY <2>5, SaveKeeps
  <2>6. CASE Put(c) BY <2>6, PutKeeps
  <2>7. CASE Expire(c)
    <3>1. "timed_out" \in Ends /\ "timed_out" # "completed" BY DEF Ends
    <3> QED BY <2>7, <3>1, FailureKeeps DEF Expire
  <2>8. CASE Finish(c) BY <2>8, CompletionKeeps, QuietKeeps DEF Finish
  <2> QED BY <1>1, <2>1, <2>2, <2>3, <2>4, <2>5, <2>6, <2>7, <2>8 DEF Step
<1>2. ASSUME NEW c \in Calls, NEW end \in Ends, Fail(c, end) PROVE PastInv' /\ RowInv'
  <2>1. end # "completed" BY <1>2, ShapeFields DEF Fail, StageType
  <2> QED BY <1>2, <2>1, FailureKeeps DEF Fail
<1>3. CASE Surroundings \/ UNCHANGED vars BY <1>3, SurroundingsKeep
<1> QED BY <1>1, <1>2, <1>3, QuietKeeps, StartKeeps DEF Next, Surroundings, Ops

\* The inductive invariant of the promises, over that of the claims.
LEMMA PromisesHold == Spec => [](StageType /\ CallInv /\ LedgerInv /\ PastInv /\ RowInv)
<1>1. Init => StageType /\ CallInv /\ LedgerInv /\ PastInv /\ RowInv
  BY StageTypeInit, ClaimsInit, PromisesInit
<1>2. StageType /\ CallInv /\ LedgerInv /\ PastInv /\ RowInv /\ [Next]_vars =>
          (StageType /\ CallInv /\ LedgerInv /\ PastInv /\ RowInv)'
  BY StageTypeNext, ClaimsNext, PromisesNext
<1> QED BY <1>1, <1>2, PTL DEF Spec

\* No service that promises to look again completes an attempt that began after
\* the fact it relies on was withdrawn.
THEOREM OutcomesAreFresh == Spec => []FreshOutcome
<1>1. RowInv => FreshOutcome BY DEF RowInv, Kept
<1> QED BY <1>1, PromisesHold, PTL

\* The artefacts a completed outcome refers to are stored, whichever attempts
\* died before the one that completed it and whatever they had saved.
THEOREM OutcomesAreSealed == Spec => []SealedOutcome
<1>1. RowInv => SealedOutcome BY DEF RowInv, Kept
<1> QED BY <1>1, PromisesHold, PTL

\* A row rests on finished records, and a completed one on all of its phases
\* and on a finished inner run.
THEOREM RowsRestOnFinished == Spec => []RestsOnFinished
<1>1. StageType /\ RowInv => RestsOnFinished
  BY DEF StageType, RowInv, Kept, RestsOnFinished
<1> QED BY <1>1, PromisesHold, PTL

\* A wrapper that probes for an inner run under its claim never binds one that
\* began before it held its row, and one that compares times binds one made at
\* the time of that claim, whatever direct calls come between its steps.
THEOREM RunsBeginUnderTheGate == Spec => []RunUnderGate
<1>1. RowInv => RunUnderGate BY DEF RowInv, Kept
<1> QED BY <1>1, PromisesHold, PTL
=============================================================================
