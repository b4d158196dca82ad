------------------------ MODULE EndpointReconProofs ------------------------
(***************************************************************************)
(* Proofs about EndpointRecon, for any plans, steps, callers, budget and   *)
(* bounds.                                                                 *)
(***************************************************************************)
EXTENDS EndpointRecon, TLAPS, SequenceTheorems, FiniteSetTheorems

-----------------------------------------------------------------------------
(* The inductive invariant *)

Pcs == {"idle", "reserve", "insert", "release", "claim", "take", "offline", "check", "act",
        "send", "record", "progress", "consume", "judge", "verify", "finish"}

CallType ==
    [pc : Pcs, plan : Plans \cup {"none"}, step : 1..Steps, attempt : 0..MaxAttempts,
     left : Int, good : BOOLEAN, via : {"none", "flow", "offline"},
     recover : BOOLEAN, active : BOOLEAN]

\* A step's answer is recorded, and was a good one.
Completed(p, i) == actions[<<p, i>>].state = "completed"
Good(p, i) == Completed(p, i) /\ actions[<<p, i>>].good

\* Everything before step n of the plan went well.
Before(p, n) == \A i \in 1..Steps : i < n => Good(p, i)

\* The plan stops with step n.
StopsAt(p, n) == Before(p, n) /\ Completed(p, n) /\ (n = Steps \/ ~ Good(p, n))

\* A step is taken up after all before it went well, and when the requests
\* before it are consumed.
ActionsOK ==
    \A p \in Plans, i \in 1..Steps :
        actions[<<p, i>>].state # "none" => Before(p, i) /\ i <= reservation[p].consumed + 1

\* The log has each recorded step in the place its plan's source gives it.
LogOK ==
    /\ \A p \in Plans, i \in 1..Steps : Completed(p, i) =>
          /\ source[p] # NoSeeds /\ source[p] + i <= Revision
          /\ log[source[p] + i] = <<p, i>>
    /\ \A k \in 1..Revision, p \in Plans, i \in 1..Steps : log[k] = <<p, i>> =>
          source[p] # NoSeeds /\ k = source[p] + i

BudgetOK == IsFiniteSet(Started) /\ BudgetKept

ReservationOK ==
    \A p \in Plans :
        /\ reservation[p].state # "none" => source[p] # NoSeeds
        /\ reservation[p].state = "none" => reservation[p].consumed = 0
        /\ reservation[p].state = "active" => reservation[p].consumed < Steps

RunOK ==
    \A p \in Plans :
        /\ run[p].state = "none" => run[p].attempt = 0
        /\ run[p].state = "completed" /\ run[p].via = "flow" =>
              run[p].steps \in 1..Steps /\ StopsAt(p, run[p].steps)

LedgersOK == ActionsOK /\ LogOK /\ BudgetOK /\ ReservationOK /\ RunOK

\* The steps of a run through the flow, and those after the answer is recorded.
ThroughFlow == {"check", "act", "send", "record", "progress", "consume", "judge", "verify"}
Recorded == {"progress", "consume", "judge", "verify"}

CallOK(c) ==
    LET p == call[c].plan
        n == call[c].step
    IN  /\ call[c].pc = "idle" => call[c] = Idle
        /\ call[c].pc # "idle" => p \in Plans /\ source[p] # NoSeeds
        /\ call[c].pc \in {"claim", "take"} => n = 1
        /\ call[c].pc = "offline" => call[c].via # "flow"
        /\ call[c].pc \in ThroughFlow => Before(p, n) /\ n <= reservation[p].consumed + 1
        /\ call[c].pc \in Recorded => Completed(p, n)
        /\ call[c].pc = "judge" => n <= reservation[p].consumed
        /\ call[c].pc = "verify" => StopsAt(p, n)
        /\ call[c].pc = "finish" /\ call[c].via = "flow" => StopsAt(p, n)

LedgerTypes ==
    /\ flow \in [running : BOOLEAN, used : Nat]
    /\ log \in Seq((Plans \X (1..Steps)) \cup {Outside, Ended})
    /\ actions \in [Plans \X (1..Steps) -> [state : {"none", "started", "completed"},
                                            attempt : 0..FlowAttempts, good : BOOLEAN]]
    /\ source \in [Plans -> Nat \cup {NoSeeds}]
    /\ reservation \in [Plans -> [state : {"none", "active", "consumed", "cancelled", "expired"},
                                  consumed : 0..Steps]]
    /\ run \in [Plans -> [state : {"none", "started", "completed"}, attempt : 0..MaxAttempts,
                          steps : 0..Steps, via : {"none", "flow", "offline"}]]
    /\ late \in BOOLEAN

Inv ==
    /\ LedgerTypes /\ call \in [Callers -> CallType]
    /\ LedgersOK
    /\ \A c \in Callers : CallOK(c)

-----------------------------------------------------------------------------
(* Values *)

LEMMA Counts ==
  /\ Steps \in Nat /\ Steps >= 1 /\ 1 \in 1..Steps
  /\ MaxAttempts \in Nat /\ MaxAttempts >= 1 /\ MaxAttempts <= FlowAttempts
  /\ NoSeeds \notin Nat
  BY CountsAssumption DEF FlowAttempts, NoSeeds

LEMMA IdleType == Idle \in CallType /\ Idle.pc = "idle" /\ Idle.step = 1
  BY Counts DEF Idle, CallType, Pcs

\* The invariant has the types the runs check.
LEMMA InvTypes ==
  ASSUME Inv
  PROVE  TypeOK
<1> SUFFICES ASSUME NEW c \in Callers
             PROVE  call[c].step \in 1..Steps /\ (call[c] # Idle => call[c].plan \in Plans)
  BY DEF Inv, LedgerTypes, TypeOK
<1>1. call[c] \in CallType /\ CallOK(c) BY DEF Inv
<1> QED BY <1>1 DEF CallType, CallOK

\* The types of one plan's rows.
LEMMA RowTypes ==
  ASSUME Inv, NEW p \in Plans
  PROVE  /\ reservation[p].consumed \in Nat /\ reservation[p].consumed <= Steps
         /\ reservation[p].state \in {"none", "active", "consumed", "cancelled", "expired"}
         /\ source[p] \in Nat \cup {NoSeeds}
         /\ run[p].state \in {"none", "started", "completed"}
         /\ run[p].attempt \in 0..MaxAttempts /\ run[p].attempt \in Nat
         /\ \A i \in 1..Steps : /\ <<p, i>> \in Plans \X (1..Steps)
                                /\ actions[<<p, i>>].state \in {"none", "started", "completed"}
<1>1. /\ reservation[p] \in [state : {"none", "active", "consumed", "cancelled", "expired"},
                             consumed : 0..Steps]
      /\ source[p] \in Nat \cup {NoSeeds}
      /\ run[p] \in [state : {"none", "started", "completed"}, attempt : 0..MaxAttempts,
                     steps : 0..Steps, via : {"none", "flow", "offline"}]
      /\ \A i \in 1..Steps :
            /\ <<p, i>> \in Plans \X (1..Steps)
            /\ actions[<<p, i>>] \in [state : {"none", "started", "completed"},
                                      attempt : 0..FlowAttempts, good : BOOLEAN]
  BY DEF Inv, LedgerTypes
<1> QED BY <1>1, Counts

-----------------------------------------------------------------------------
(* What every step keeps *)

\* Recorded answers, sealed sources and consumed requests stay.
Grows ==
    /\ \A p \in Plans :
          /\ source[p] # NoSeeds => source'[p] = source[p]
          /\ reservation'[p].consumed >= reservation[p].consumed
    /\ \A p \in Plans, i \in 1..Steps :
          Completed(p, i) => actions'[<<p, i>>] = actions[<<p, i>>]

OthersStay(c) == \A d \in Callers \ {c} : call'[d] = call[d]

LEMMA BeforeStays ==
  ASSUME Grows, NEW p \in Plans, NEW n
  PROVE  Before(p, n) => Before(p, n)'
  BY DEF Grows, Before, Good, Completed

LEMMA StopsAtStays ==
  ASSUME Grows, NEW p \in Plans, NEW n \in 1..Steps
  PROVE  StopsAt(p, n) => StopsAt(p, n)'
<1>1. Before(p, n) => Before(p, n)' BY BeforeStays
<1>2. Completed(p, n) => Completed(p, n)' /\ (Good(p, n)' => Good(p, n))
  BY DEF Grows, Good, Completed
<1> QED BY <1>1, <1>2 DEF StopsAt

\* A call between two of its steps: what its step has to show.
LEMMA CallNow ==
  ASSUME NEW c \in Callers, NEW p \in Plans, NEW n \in 1..Steps,
         call'[c].plan = p, call'[c].step = n, call'[c].pc # "idle", source'[p] # NoSeeds,
         call'[c].pc \in {"claim", "take"} => n = 1,
         call'[c].pc = "offline" => call'[c].via # "flow",
         call'[c].pc \in ThroughFlow => Before(p, n)' /\ n <= reservation'[p].consumed + 1,
         call'[c].pc \in Recorded => Completed(p, n)',
         call'[c].pc = "judge" => n <= reservation'[p].consumed,
         call'[c].pc = "verify" => StopsAt(p, n)',
         call'[c].pc = "finish" /\ call'[c].via = "flow" => StopsAt(p, n)'
  PROVE  CallOK(c)'
  BY DEF CallOK, Before, StopsAt, Good, Completed

\* What a call under way relies on.
LEMMA CallKnows ==
  ASSUME Inv, NEW c \in Callers, call[c].pc # "idle"
  PROVE  \E p \in Plans, n \in 1..Steps :
            /\ call[c].plan = p /\ call[c].step = n /\ source[p] # NoSeeds
            /\ call[c].pc \in {"claim", "take"} => n = 1
            /\ call[c].pc = "offline" => call[c].via # "flow"
            /\ call[c].pc \in ThroughFlow => Before(p, n) /\ n <= reservation[p].consumed + 1
            /\ call[c].pc \in Recorded => Completed(p, n)
            /\ call[c].pc = "judge" => n <= reservation[p].consumed
            /\ call[c].pc = "verify" => StopsAt(p, n)
            /\ call[c].pc = "finish" /\ call[c].via = "flow" => StopsAt(p, n)
<1>1. CallOK(c) /\ call[c] \in CallType BY DEF Inv
<1>2. call[c].step \in 1..Steps /\ call[c].plan \in Plans BY <1>1 DEF CallType, CallOK
<1> QED BY <1>1, <1>2 DEF CallOK

\* A call that does not move keeps what it relies on.
LEMMA CallStays ==
  ASSUME Inv, NEW c \in Callers, call'[c] = call[c], Grows, LedgerTypes'
  PROVE  CallOK(c)'
<1>1. CASE call[c].pc = "idle"
  BY <1>1 DEF CallOK, Inv, Recorded, ThroughFlow
<1>2. CASE call[c].pc # "idle"
  <2> PICK p \in Plans, n \in 1..Steps :
            /\ call[c].plan = p /\ call[c].step = n /\ source[p] # NoSeeds
            /\ call[c].pc \in {"claim", "take"} => n = 1
            /\ call[c].pc = "offline" => call[c].via # "flow"
            /\ call[c].pc \in ThroughFlow => Before(p, n) /\ n <= reservation[p].consumed + 1
            /\ call[c].pc \in Recorded => Completed(p, n)
            /\ call[c].pc = "judge" => n <= reservation[p].consumed
            /\ call[c].pc = "verify" => StopsAt(p, n)
            /\ call[c].pc = "finish" /\ call[c].via = "flow" => StopsAt(p, n)
    BY <1>2, CallKnows
  <2>1. source'[p] = source[p] BY DEF Grows
  <2>2. Before(p, n) => Before(p, n)' BY BeforeStays
  <2>3. StopsAt(p, n) => StopsAt(p, n)' BY StopsAtStays
  <2>4. Completed(p, n) => Completed(p, n)' BY DEF Grows, Completed
  <2>5. /\ reservation[p].consumed \in Nat /\ reservation'[p].consumed \in Nat
        /\ reservation'[p].consumed >= reservation[p].consumed /\ n \in Nat
    <3>1. reservation'[p] \in [state : {"none", "active", "consumed", "cancelled", "expired"},
                               consumed : 0..Steps]
      BY DEF LedgerTypes
    <3> QED BY <3>1, RowTypes, Counts DEF Grows
  <2>6. /\ n <= reservation[p].consumed + 1 => n <= reservation'[p].consumed + 1
        /\ n <= reservation[p].consumed => n <= reservation'[p].consumed
    BY <2>5
  <2> QED BY <1>2, <2>1, <2>2, <2>3, <2>4, <2>6, CallNow
<1> QED BY <1>1, <1>2

\* A step of one call.
LEMMA StepInv ==
  ASSUME Inv, LedgerTypes', LedgersOK', Grows, NEW c \in Callers,
         call' \in [Callers -> CallType], OthersStay(c), CallOK(c)'
  PROVE  Inv'
<1>1. \A d \in Callers \ {c} : call'[d] = call[d] BY DEF OthersStay
<1>2. \A d \in Callers \ {c} : CallOK(d)' BY <1>1, CallStays
<1> QED BY <1>2 DEF Inv

\* A step of no call.
LEMMA OutsideInv ==
  ASSUME Inv, LedgerTypes', LedgersOK', Grows, UNCHANGED call
  PROVE  Inv'
<1>1. \A d \in Callers : CallOK(d)' BY CallStays
<1> QED BY <1>1 DEF Inv

\* The two ledgers stay as they are.
LEMMA LedgersStay ==
  ASSUME Inv, UNCHANGED <<flow, log, actions, source, reservation, run>>, late' \in BOOLEAN
  PROVE  LedgerTypes' /\ LedgersOK' /\ Grows
<1>1. LedgerTypes /\ LedgersOK BY DEF Inv
<1>2. LedgerTypes' BY <1>1 DEF LedgerTypes
<1>3. ActionsOK' BY <1>1 DEF LedgersOK, ActionsOK, Before, Good, Completed
<1>4. LogOK' BY <1>1 DEF LedgersOK, LogOK, Completed, Revision
<1>5. BudgetOK' BY <1>1 DEF LedgersOK, BudgetOK, BudgetKept, Started
<1>6. ReservationOK' BY <1>1 DEF LedgersOK, ReservationOK
<1>7. RunOK' BY <1>1 DEF LedgersOK, RunOK, StopsAt, Before, Good, Completed
<1>8. Grows
  <2>1. \A p \in Plans : reservation[p].consumed >= reservation[p].consumed BY RowTypes
  <2> QED BY <2>1 DEF Grows
<1> QED BY <1>2, <1>3, <1>4, <1>5, <1>6, <1>7, <1>8 DEF LedgersOK

\* A step of one call that writes neither ledger.
LEMMA LocalInv ==
  ASSUME Inv, FlowUnchanged, ReconUnchanged, UNCHANGED late, NEW c \in Callers,
         call' \in [Callers -> CallType], OthersStay(c), CallOK(c)'
  PROVE  Inv'
<1>1. late' \in BOOLEAN BY DEF Inv, LedgerTypes
<1>2. UNCHANGED <<flow, log, actions, source, reservation, run>>
  BY DEF FlowUnchanged, ReconUnchanged
<1> QED BY <1>1, <1>2, LedgersStay, StepInv

-----------------------------------------------------------------------------
(* The records of the calls *)

LEMMA CallSet ==
  ASSUME Inv, NEW c \in Callers, NEW r \in CallType, call' = [call EXCEPT ![c] = r]
  PROVE  call' \in [Callers -> CallType] /\ call'[c] = r /\ OthersStay(c)
<1>1. call \in [Callers -> CallType] BY DEF Inv
<1> QED BY <1>1 DEF OthersStay

\* A call goes on to another step.
LEMMA GotoGoes ==
  ASSUME Inv, NEW c \in Callers, NEW pc \in Pcs \ {"idle"}, Goto(c, pc)
  PROVE  /\ call' \in [Callers -> CallType] /\ OthersStay(c)
         /\ call'[c].pc = pc /\ call'[c].plan = call[c].plan /\ call'[c].step = call[c].step
         /\ call'[c].via = call[c].via
<1> DEFINE r == [call[c] EXCEPT !.pc = pc]
<1>1. call[c] \in CallType BY DEF Inv
<1>2. /\ r \in CallType /\ r.pc = pc /\ r.plan = call[c].plan /\ r.step = call[c].step
      /\ r.via = call[c].via
  BY <1>1 DEF CallType
<1>3. call' = [call EXCEPT ![c] = r] BY DEF Goto
<1> HIDE DEF r
<1>4. call' \in [Callers -> CallType] /\ call'[c] = r /\ OthersStay(c) BY <1>2, <1>3, CallSet
<1> QED BY <1>2, <1>4

\* A call that returned or died relies on nothing.
LEMMA LeaveGoes ==
  ASSUME Inv, NEW c \in Callers, Leave(c)
  PROVE  call' \in [Callers -> CallType] /\ OthersStay(c) /\ CallOK(c)'
<1>1. call' \in [Callers -> CallType] /\ call'[c] = Idle /\ OthersStay(c)
  BY IdleType, CallSet DEF Leave, Goto
<1> QED BY <1>1, IdleType DEF CallOK, ThroughFlow, Recorded

-----------------------------------------------------------------------------
(* Steps that write neither ledger *)

\* Such a step has only to show what its call knows now.
LEMMA LocalStep ==
  ASSUME Inv, FlowUnchanged, ReconUnchanged, UNCHANGED late, NEW c \in Callers,
         call' \in [Callers -> CallType], OthersStay(c),
         NEW p \in Plans, NEW n \in 1..Steps,
         call'[c].plan = p, call'[c].step = n, call'[c].pc # "idle", source[p] # NoSeeds,
         call'[c].pc \in {"claim", "take"} => n = 1,
         call'[c].pc = "offline" => call'[c].via # "flow",
         call'[c].pc \in ThroughFlow => Before(p, n) /\ n <= reservation[p].consumed + 1,
         call'[c].pc \in Recorded => Completed(p, n),
         call'[c].pc = "judge" => n <= reservation[p].consumed,
         call'[c].pc = "verify" => StopsAt(p, n),
         call'[c].pc = "finish" /\ call'[c].via = "flow" => StopsAt(p, n)
  PROVE  Inv'
<1>1. UNCHANGED <<flow, log, actions, source, reservation, run>> /\ late' \in BOOLEAN
  BY DEF FlowUnchanged, ReconUnchanged, Inv, LedgerTypes
<1>2. Grows BY <1>1, LedgersStay
<1>3. Before(p, n) => Before(p, n)' BY <1>2, BeforeStays
<1>4. StopsAt(p, n) => StopsAt(p, n)' BY <1>2, StopsAtStays
<1>5. Completed(p, n) => Completed(p, n)' BY <1>1 DEF Completed
<1>6. source'[p] # NoSeeds /\ reservation'[p] = reservation[p] BY <1>1
<1>7. CallOK(c)' BY <1>3, <1>4, <1>5, <1>6, CallNow
<1> QED BY <1>7, LocalInv

\* A call starts.
LEMMA StartsInv ==
  ASSUME Inv, NEW c \in Callers, NEW p \in Plans, NEW r \in CallType,
         FlowUnchanged, ReconUnchanged, UNCHANGED late,
         call' = [call EXCEPT ![c] = r],
         r.plan = p, r.step = 1, r.pc \in {"reserve", "release", "claim"}, source[p] # NoSeeds
  PROVE  Inv'
<1>1. call' \in [Callers -> CallType] /\ call'[c] = r /\ OthersStay(c) BY CallSet
<1>2. r.pc \notin ThroughFlow /\ r.pc \notin Recorded /\ r.pc \notin {"idle", "offline", "judge", "verify", "finish"}
  BY DEF ThroughFlow, Recorded
<1> QED BY <1>1, <1>2, LocalStep, Counts

LEMMA PrepareInv ==
  ASSUME Inv, NEW c \in Callers, NEW p \in Plans, Prepare(c, p)
  PROVE  Inv'
<1> DEFINE r == [Idle EXCEPT !.pc = "reserve", !.plan = p, !.left = MaxActions - flow.used]
<1>1. MaxActions - flow.used \in Int BY CountsAssumption DEF Inv, LedgerTypes
<1>2. r \in CallType /\ r.plan = p /\ r.step = 1 /\ r.pc = "reserve"
  BY <1>1, IdleType DEF CallType, Pcs
<1>3. call' = [call EXCEPT ![c] = r] BY DEF Prepare
<1> HIDE DEF r
<1>4. Revision \in Nat BY DEF Revision, Inv, LedgerTypes
<1>5. source[p] # NoSeeds BY <1>4, Counts DEF Prepare
<1> QED BY <1>2, <1>3, <1>5, StartsInv DEF Prepare

LEMMA CancelReadInv ==
  ASSUME Inv, NEW c \in Callers, NEW p \in Plans, CancelRead(c, p)
  PROVE  Inv'
<1> DEFINE r == [Idle EXCEPT !.pc = "release", !.plan = p]
<1>1. r \in CallType /\ r.plan = p /\ r.step = 1 /\ r.pc = "release"
  BY IdleType DEF CallType, Pcs
<1>2. call' = [call EXCEPT ![c] = r] BY DEF CancelRead, Begin
<1> HIDE DEF r
<1>3. source[p] # NoSeeds BY DEF CancelRead, Inv, LedgersOK, ReservationOK
<1> QED BY <1>1, <1>2, <1>3, StartsInv DEF CancelRead

LEMMA BindInv ==
  ASSUME Inv, NEW c \in Callers, NEW p \in Plans, NEW via \in {"flow", "offline"},
         NEW recover \in BOOLEAN, Bind(c, p, via, recover)
  PROVE  Inv'
<1> DEFINE r == [Idle EXCEPT !.pc = "claim", !.plan = p, !.via = via, !.recover = recover]
<1>1. r \in CallType /\ r.plan = p /\ r.step = 1 /\ r.pc = "claim"
  BY IdleType DEF CallType, Pcs
<1>2. call' = [call EXCEPT ![c] = r] BY DEF Bind
<1> HIDE DEF r
<1>3. source[p] # NoSeeds BY DEF Bind, Inv, LedgersOK, ReservationOK
<1> QED BY <1>1, <1>2, <1>3, StartsInv DEF Bind

LEMMA LeaveInv ==
  ASSUME Inv, NEW c \in Callers, Leave(c), FlowUnchanged, ReconUnchanged, UNCHANGED late
  PROVE  Inv'
  BY LeaveGoes, LocalInv

LEMMA DieInv ==
  ASSUME Inv, NEW c \in Callers, Die(c)
  PROVE  Inv'
  BY LeaveInv DEF Die

LEMMA ReserveInv ==
  ASSUME Inv, NEW c \in Callers, Reserve(c)
  PROVE  Inv'
<1>1. CASE Leave(c) BY <1>1, LeaveInv DEF Reserve
<1>2. CASE Goto(c, "insert")
  <2> PICK p \in Plans, n \in 1..Steps : call[c].plan = p /\ call[c].step = n /\ source[p] # NoSeeds
    BY CallKnows DEF Reserve
  <2>1. /\ call' \in [Callers -> CallType] /\ OthersStay(c)
        /\ call'[c].pc = "insert" /\ call'[c].plan = p /\ call'[c].step = n
    BY <1>2, GotoGoes DEF Pcs
  <2> QED BY <2>1, LocalStep DEF Reserve, ThroughFlow, Recorded
<1> QED BY <1>1, <1>2 DEF Reserve

LEMMA ClaimReadInv ==
  ASSUME Inv, NEW c \in Callers, ClaimRead(c)
  PROVE  Inv'
<1>1. CASE Leave(c) BY <1>1, LeaveInv DEF ClaimRead
<1>2. CASE ~ Leave(c)
  <2> PICK p \in Plans, n \in 1..Steps :
         call[c].plan = p /\ call[c].step = n /\ source[p] # NoSeeds /\ n = 1
    BY CallKnows DEF ClaimRead
  <2> DEFINE attempt == run[p].attempt + 1
             r == [call[c] EXCEPT !.pc = "take", !.attempt = attempt]
  <2>1. /\ call' = [call EXCEPT ![c] = r]
        /\ run[p].state = "none" \/ run[p].attempt < MaxAttempts
    BY <1>2 DEF ClaimRead, Inv
  <2>2. run[p].state = "none" => run[p].attempt = 0 BY DEF Inv, LedgersOK, RunOK
  <2>3. attempt \in 0..MaxAttempts BY <2>1, <2>2, RowTypes, Counts
  <2> HIDE DEF attempt
  <2>4. r \in CallType /\ r.pc = "take" /\ r.plan = p /\ r.step = n
    BY <2>3 DEF CallType, Pcs, Inv
  <2> HIDE DEF r
  <2>5. call' \in [Callers -> CallType] /\ call'[c] = r /\ OthersStay(c)
    BY <2>1, <2>4, CallSet
  <2> QED BY <2>4, <2>5, LocalStep DEF ClaimRead, ThroughFlow, Recorded
<1> QED BY <1>1, <1>2

LEMMA RunOfflineInv ==
  ASSUME Inv, NEW c \in Callers, RunOffline(c)
  PROVE  Inv'
<1>1. CASE Leave(c) BY <1>1, LeaveInv DEF RunOffline
<1>2. ASSUME NEW k \in 1..Steps, call' = [call EXCEPT ![c].pc = "finish", ![c].step = k]
      PROVE  Inv'
  <2> PICK p \in Plans, n \in 1..Steps :
         call[c].plan = p /\ source[p] # NoSeeds /\ call[c].via # "flow"
    BY CallKnows DEF RunOffline
  <2> DEFINE r == [call[c] EXCEPT !.pc = "finish", !.step = k]
  <2>1. call[c] \in CallType /\ call' = [call EXCEPT ![c] = r] BY <1>2 DEF Inv
  <2>2. r \in CallType /\ r.pc = "finish" /\ r.plan = p /\ r.step = k /\ r.via # "flow"
    BY <2>1 DEF CallType, Pcs
  <2> HIDE DEF r
  <2>3. call' \in [Callers -> CallType] /\ call'[c] = r /\ OthersStay(c)
    BY <2>1, <2>2, CallSet
  <2> QED BY <2>2, <2>3, LocalStep DEF RunOffline, ThroughFlow, Recorded
<1> QED BY <1>1, <1>2 DEF RunOffline

\* A call through the flow that looks and goes on with its step.
LEMMA LooksInv ==
  ASSUME Inv, NEW c \in Callers, NEW pc \in Pcs \ {"idle"}, Goto(c, pc),
         FlowUnchanged, ReconUnchanged, UNCHANGED late,
         call[c].pc \in ThroughFlow,
         pc \in {"act", "progress", "consume", "finish"},
         pc = "progress" => Row(c).state = "completed",
         pc = "consume" => call[c].pc \in Recorded,
         pc = "finish" => call[c].pc = "verify"
  PROVE  Inv'
<1>1. call[c].pc # "idle" BY DEF ThroughFlow
<1> PICK p \in Plans, n \in 1..Steps :
          /\ call[c].plan = p /\ call[c].step = n /\ source[p] # NoSeeds
          /\ call[c].pc \in ThroughFlow => Before(p, n) /\ n <= reservation[p].consumed + 1
          /\ call[c].pc \in Recorded => Completed(p, n)
          /\ call[c].pc = "verify" => StopsAt(p, n)
  BY <1>1, CallKnows
<1>2. /\ call' \in [Callers -> CallType] /\ OthersStay(c)
      /\ call'[c].pc = pc /\ call'[c].plan = p /\ call'[c].step = n
  BY GotoGoes
<1>3. pc = "progress" => Completed(p, n) BY DEF Row, Completed
<1>4. pc \in Recorded => Completed(p, n) BY <1>3 DEF Recorded
<1> HIDE DEF Goto
<1> QED BY <1>2, <1>4, LocalStep

LEMMA CheckInv ==
  ASSUME Inv, NEW c \in Callers, Check(c)
  PROVE  Inv'
<1>1. CASE Goto(c, "idle") BY <1>1, LeaveInv DEF Check, Leave
<1>2. CASE Goto(c, "progress") /\ Row(c).state = "completed"
  BY <1>2, LooksInv DEF Check, ThroughFlow, Pcs
<1>3. CASE Goto(c, "act") BY <1>3, LooksInv DEF Check, ThroughFlow, Pcs
<1> QED BY <1>1, <1>2, <1>3 DEF Check

LEMMA SendInv ==
  ASSUME Inv, NEW c \in Callers, Send(c)
  PROVE  Inv'
<1>1. CASE Leave(c) BY <1>1, LeaveInv DEF Send
<1>2. ASSUME NEW good \in BOOLEAN, call' = [call EXCEPT ![c].pc = "record", ![c].good = good]
      PROVE  Inv'
  <2> PICK p \in Plans, n \in 1..Steps :
         /\ call[c].plan = p /\ call[c].step = n /\ source[p] # NoSeeds
         /\ Before(p, n) /\ n <= reservation[p].consumed + 1
    BY CallKnows DEF Send, ThroughFlow
  <2> DEFINE r == [call[c] EXCEPT !.pc = "record", !.good = good]
  <2>1. call[c] \in CallType /\ call' = [call EXCEPT ![c] = r] BY <1>2 DEF Inv
  <2>2. r \in CallType /\ r.pc = "record" /\ r.plan = p /\ r.step = n
    BY <2>1 DEF CallType, Pcs
  <2> HIDE DEF r
  <2>3. call' \in [Callers -> CallType] /\ call'[c] = r /\ OthersStay(c)
    BY <2>1, <2>2, CallSet
  <2> QED BY <2>2, <2>3, LocalStep DEF Send, Recorded
<1> QED BY <1>1, <1>2 DEF Send

LEMMA ProgressInv ==
  ASSUME Inv, NEW c \in Callers, Progress(c)
  PROVE  Inv'
<1>1. CASE Leave(c) BY <1>1, LeaveInv DEF Progress
<1>2. CASE Goto(c, "consume") BY <1>2, LooksInv DEF Progress, ThroughFlow, Recorded, Pcs
<1>3. CASE ~ Leave(c) /\ ~ Goto(c, "consume")
  <2> PICK p \in Plans, n \in 1..Steps :
         /\ call[c].plan = p /\ call[c].step = n /\ source[p] # NoSeeds
         /\ Before(p, n) /\ n <= reservation[p].consumed + 1 /\ Completed(p, n)
    BY CallKnows DEF Progress, ThroughFlow, Recorded
  <2> DEFINE active == reservation[p].state = "active"
             r == [call[c] EXCEPT !.pc = "judge", !.active = active]
  <2>1. /\ call[c] \in CallType /\ call' = [call EXCEPT ![c] = r]
        /\ reservation[p].consumed >= n
    BY <1>3 DEF Inv, Progress, Counted
  <2>2. active \in BOOLEAN OBVIOUS
  <2> HIDE DEF active
  <2>3. r \in CallType /\ r.pc = "judge" /\ r.plan = p /\ r.step = n
    BY <2>1, <2>2 DEF CallType, Pcs
  <2> HIDE DEF r
  <2>4. call' \in [Callers -> CallType] /\ call'[c] = r /\ OthersStay(c)
    BY <2>1, <2>3, CallSet
  <2>5. n <= reservation[p].consumed BY <2>1, RowTypes
  <2> QED BY <2>3, <2>4, <2>5, LocalStep DEF Progress, Recorded
<1> QED BY <1>1, <1>2, <1>3

LEMMA VerifyInv ==
  ASSUME Inv, NEW c \in Callers, Verify(c)
  PROVE  Inv'
<1>1. CASE Goto(c, "idle") BY <1>1, LeaveInv DEF Verify, Leave
<1>2. CASE Goto(c, "finish") BY <1>2, LooksInv DEF Verify, ThroughFlow, Pcs
<1> QED BY <1>1, <1>2 DEF Verify

-----------------------------------------------------------------------------
(* Steps that write the reservations or the runs *)

ReservationType ==
    reservation \in [Plans -> [state : {"none", "active", "consumed", "cancelled", "expired"},
                               consumed : 0..Steps]]

RunType ==
    run \in [Plans -> [state : {"none", "started", "completed"}, attempt : 0..MaxAttempts,
                       steps : 0..Steps, via : {"none", "flow", "offline"}]]

\* The rows of the flow stay as they are, and the requests consumed are not
\* taken back.
LEMMA ReservationStep ==
  ASSUME Inv, UNCHANGED <<flow, log, actions, source, run, late>>, ReservationType',
         \A p \in Plans : reservation'[p].consumed >= reservation[p].consumed,
         ReservationOK'
  PROVE  LedgerTypes' /\ LedgersOK' /\ Grows
<1>1. LedgerTypes /\ LedgersOK BY DEF Inv
<1>2. LedgerTypes' BY <1>1 DEF LedgerTypes, ReservationType
<1>3. Grows BY DEF Grows
<1>4. ActionsOK'
  <2> SUFFICES ASSUME NEW p \in Plans, NEW i \in 1..Steps, actions[<<p, i>>].state # "none"
               PROVE  Before(p, i)' /\ i <= reservation'[p].consumed + 1
    BY DEF ActionsOK, Before, Good, Completed
  <2>1. Before(p, i) /\ i <= reservation[p].consumed + 1 BY <1>1 DEF LedgersOK, ActionsOK
  <2>2. reservation[p].consumed \in Nat /\ reservation'[p].consumed \in Nat /\ i \in Nat
    <3>1. reservation'[p] \in [state : {"none", "active", "consumed", "cancelled", "expired"},
                               consumed : 0..Steps]
      BY DEF ReservationType
    <3> QED BY <3>1, RowTypes, Counts
  <2> QED BY <1>3, <2>1, <2>2, BeforeStays
<1>5. LogOK' BY <1>1 DEF LedgersOK, LogOK, Completed, Revision
<1>6. BudgetOK' BY <1>1 DEF LedgersOK, BudgetOK, BudgetKept, Started
<1>7. RunOK' BY <1>1 DEF LedgersOK, RunOK, StopsAt, Before, Good, Completed
<1> QED BY <1>2, <1>3, <1>4, <1>5, <1>6, <1>7 DEF LedgersOK

LEMMA ReservationRecord ==
  ASSUME NEW st \in {"none", "active", "consumed", "cancelled", "expired"}, NEW n \in 0..Steps,
         NEW r \in [state : {"none", "active", "consumed", "cancelled", "expired"},
                    consumed : 0..Steps]
  PROVE  [r EXCEPT !.consumed = n, !.state = st] = [state |-> st, consumed |-> n]
<1> DEFINE x == [r EXCEPT !.consumed = n, !.state = st]
<1>1. /\ x \in [state : {"none", "active", "consumed", "cancelled", "expired"},
                consumed : 0..Steps]
      /\ x.state = st /\ x.consumed = n
  OBVIOUS
<1> HIDE DEF x
<1>2. x = [state |-> st, consumed |-> n] BY <1>1
<1> QED BY <1>2 DEF x

\* One reservation changes its state, and consumes one request more or none.
LEMMA ReservationSet ==
  ASSUME Inv, NEW p \in Plans, NEW n \in 0..Steps,
         NEW state \in {"active", "consumed", "cancelled", "expired"},
         reservation' = [reservation EXCEPT ![p] = [state |-> state, consumed |-> n]],
         n >= reservation[p].consumed, state = "active" => n < Steps,
         source[p] # NoSeeds, UNCHANGED <<flow, log, actions, source, run, late>>
  PROVE  /\ LedgerTypes' /\ LedgersOK' /\ Grows
         /\ reservation'[p].consumed = n
<1>1. ReservationType BY DEF Inv, LedgerTypes, ReservationType
<1>2. ReservationType' BY <1>1 DEF ReservationType
<1>3. \A q \in Plans :
         reservation'[q] = IF q = p THEN [state |-> state, consumed |-> n] ELSE reservation[q]
  BY <1>1 DEF ReservationType
<1>4. \A q \in Plans : reservation'[q].consumed >= reservation[q].consumed
  BY <1>3, RowTypes
<1>5. ReservationOK' BY <1>3 DEF Inv, LedgersOK, ReservationOK
<1> QED BY <1>2, <1>3, <1>4, <1>5, ReservationStep

\* Release leaves what was consumed.
LEMMA ReleaseStep ==
  ASSUME Inv, NEW p \in Plans, NEW state \in {"cancelled", "expired"}, Release(p, state),
         UNCHANGED <<flow, log, actions, source, run, late>>
  PROVE  LedgerTypes' /\ LedgersOK' /\ Grows
<1>1. CASE reservation[p].state # "active"
  <2>1. late \in BOOLEAN BY DEF Inv, LedgerTypes
  <2> QED BY <1>1, <2>1, LedgersStay DEF Release
<1>2. CASE reservation[p].state = "active"
  <2> DEFINE n == reservation[p].consumed
  <2>1. reservation[p] \in [state : {"none", "active", "consumed", "cancelled", "expired"},
                            consumed : 0..Steps]
    BY DEF Inv, LedgerTypes
  <2>2. n \in 0..Steps /\ n >= n BY <2>1, Counts
  <2>3. [reservation[p] EXCEPT !.state = state] = [state |-> state, consumed |-> n] BY <2>1
  <2>4. reservation' = [reservation EXCEPT ![p] = [state |-> state, consumed |-> n]]
    BY <1>2, <2>3 DEF Release
  <2>5. source[p] # NoSeeds BY <1>2 DEF Inv, LedgersOK, ReservationOK
  <2> HIDE DEF Release
  <2> QED BY <2>2, <2>4, <2>5, ReservationSet
<1> QED BY <1>1, <1>2

LEMMA ExpireInv ==
  ASSUME Inv, NEW p \in Plans, Expire(p)
  PROVE  Inv'
<1>1. /\ Release(p, "expired")
      /\ UNCHANGED <<flow, log, actions, source, run, late>> /\ UNCHANGED call
  BY DEF Expire, FlowUnchanged
<1>2. LedgerTypes' /\ LedgersOK' /\ Grows BY <1>1, ReleaseStep
<1> QED BY <1>1, <1>2, OutsideInv

LEMMA CancelWriteInv ==
  ASSUME Inv, NEW c \in Callers, CancelWrite(c)
  PROVE  Inv'
<1> PICK p \in Plans : call[c].plan = p BY CallKnows DEF CancelWrite
<1>1. /\ Release(p, "cancelled") /\ Leave(c)
      /\ UNCHANGED <<flow, log, actions, source, run, late>>
  BY DEF CancelWrite, FlowUnchanged
<1>2. LedgerTypes' /\ LedgersOK' /\ Grows BY <1>1, ReleaseStep
<1> QED BY <1>1, <1>2, LeaveGoes, StepInv

LEMMA InsertInv ==
  ASSUME Inv, NEW c \in Callers, Insert(c)
  PROVE  Inv'
<1> PICK p \in Plans : call[c].plan = p /\ source[p] # NoSeeds BY CallKnows DEF Insert
<1>1. /\ Leave(c) /\ UNCHANGED <<flow, log, actions, source, run, late>>
      /\ reservation' = IF reservation[p].state = "none"
                        THEN [reservation EXCEPT ![p].state = "active"] ELSE reservation
  BY DEF Insert, FlowUnchanged
<1>2. LedgerTypes' /\ LedgersOK' /\ Grows
  <2>1. CASE reservation[p].state # "none"
    <3>1. late \in BOOLEAN BY DEF Inv, LedgerTypes
    <3> QED BY <1>1, <2>1, <3>1, LedgersStay
  <2>2. CASE reservation[p].state = "none"
    <3>1. reservation[p] \in [state : {"none", "active", "consumed", "cancelled", "expired"},
                              consumed : 0..Steps]
      BY DEF Inv, LedgerTypes
    <3>2. reservation[p].consumed = 0 BY <2>2 DEF Inv, LedgersOK, ReservationOK
    <3>3. [reservation[p] EXCEPT !.state = "active"] = [state |-> "active", consumed |-> 0]
      BY <3>1, <3>2
    <3>4. reservation' = [reservation EXCEPT ![p] = [state |-> "active", consumed |-> 0]]
      BY <1>1, <2>2, <3>3
    <3>5. 0 \in 0..Steps /\ 0 < Steps /\ 0 >= reservation[p].consumed BY <3>2, Counts
    <3> QED BY <1>1, <3>4, <3>5, ReservationSet
  <2> QED BY <2>1, <2>2
<1> QED BY <1>1, <1>2, LeaveGoes, StepInv

LEMMA ConsumeInv ==
  ASSUME Inv, NEW c \in Callers, Consume(c)
  PROVE  Inv'
<1> PICK p \in Plans, n \in 1..Steps :
          /\ call[c].plan = p /\ call[c].step = n /\ source[p] # NoSeeds
          /\ Before(p, n) /\ n <= reservation[p].consumed + 1 /\ Completed(p, n)
  BY CallKnows DEF Consume, ThroughFlow, Recorded
<1>1. CASE reservation[p].state # "active"
  <2>1. Leave(c) /\ FlowUnchanged /\ ReconUnchanged /\ UNCHANGED late
    BY <1>1 DEF Consume, FlowUnchanged, ReconUnchanged
  <2> QED BY <2>1, LeaveInv
<1>2. CASE reservation[p].state = "active"
  <2> DEFINE k == reservation[p].consumed + 1
             state == IF k = Steps THEN "consumed" ELSE "active"
             active == ~ LastRequest(p)
             r == [call[c] EXCEPT !.pc = "judge", !.active = active]
  <2>1. reservation[p] \in [state : {"none", "active", "consumed", "cancelled", "expired"},
                            consumed : 0..Steps]
    BY DEF Inv, LedgerTypes
  <2>2. reservation[p].consumed < Steps BY <1>2 DEF Inv, LedgersOK, ReservationOK
  <2>3. UNCHANGED <<flow, log, actions, source, run, late>> BY DEF Consume, FlowUnchanged
  <2>4. k \in 0..Steps /\ k >= reservation[p].consumed BY <2>1, <2>2, Counts
  <2>5. /\ call' = [call EXCEPT ![c] = r]
        /\ reservation' = [reservation EXCEPT ![p] =
                              [reservation[p] EXCEPT !.consumed = k, !.state = state]]
    BY <1>2 DEF Consume, LastRequest, Inv
  <2>6. state \in {"active", "consumed", "cancelled", "expired"} /\ (state = "active" => k < Steps)
    BY <2>1, <2>2, Counts
  <2>9. n <= k OBVIOUS
  <2> HIDE DEF state, k
  <2>7. [reservation[p] EXCEPT !.consumed = k, !.state = state] = [state |-> state, consumed |-> k]
    <3> DEFINE old == reservation[p]
    <3>1. state \in {"none", "active", "consumed", "cancelled", "expired"} BY <2>6
    <3>2. k \in 0..Steps BY <2>4
    <3>3. old \in [state : {"none", "active", "consumed", "cancelled", "expired"},
                   consumed : 0..Steps]
      BY <2>1
    <3> HIDE DEF old
    <3>4. [old EXCEPT !.consumed = k, !.state = state] = [state |-> state, consumed |-> k]
      BY <3>1, <3>2, <3>3, ReservationRecord
    <3> QED BY <3>4 DEF old
  <2>8. reservation' = [reservation EXCEPT ![p] = [state |-> state, consumed |-> k]]
    BY <2>5, <2>7
  <2>10. active \in BOOLEAN BY DEF LastRequest
  <2> HIDE DEF active
  <2>11. /\ LedgerTypes' /\ LedgersOK' /\ Grows /\ reservation'[p].consumed = k
    BY <2>3, <2>4, <2>6, <2>8, ReservationSet
  <2>12. r \in CallType /\ r.pc = "judge" /\ r.plan = p /\ r.step = n
    BY <2>10 DEF CallType, Pcs, Inv
  <2> HIDE DEF r
  <2>13. call' \in [Callers -> CallType] /\ call'[c] = r /\ OthersStay(c)
    BY <2>5, <2>12, CallSet
  <2>14. Before(p, n)' BY <2>11, BeforeStays
  <2>15. Completed(p, n)' BY <2>3 DEF Completed
  <2>16. n <= reservation'[p].consumed + 1 BY <2>4, <2>9, <2>11, Counts
  <2>17. source'[p] # NoSeeds BY <2>3
  <2>18. CallOK(c)'
    BY <2>9, <2>11, <2>12, <2>13, <2>14, <2>15, <2>16, <2>17, CallNow
  <2> QED BY <2>11, <2>13, <2>18, StepInv
<1> QED BY <1>1, <1>2

LEMMA JudgeFailedInv ==
  ASSUME Inv, NEW c \in Callers, Judge(c), Failed(c)
  PROVE  Inv'
<1> PICK p \in Plans, n \in 1..Steps :
          /\ call[c].plan = p /\ call[c].step = n /\ source[p] # NoSeeds
          /\ Before(p, n) /\ Completed(p, n)
  BY CallKnows DEF Judge, ThroughFlow, Recorded
<1>1. /\ UNCHANGED <<flow, log, actions, source, run, late>>
      /\ Release(p, "cancelled") \/ UNCHANGED reservation
      /\ Leave(c) \/ Goto(c, "verify")
  BY DEF Judge, FlowUnchanged
<1>2. LedgerTypes' /\ LedgersOK' /\ Grows
  <2>1. late \in BOOLEAN BY DEF Inv, LedgerTypes
  <2> QED BY <1>1, <2>1, LedgersStay, ReleaseStep
<1>3. CASE Leave(c) BY <1>2, <1>3, LeaveGoes, StepInv
<1>4. CASE Goto(c, "verify")
  <2>1. /\ call' \in [Callers -> CallType] /\ OthersStay(c)
        /\ call'[c].pc = "verify" /\ call'[c].plan = p /\ call'[c].step = n
    BY <1>4, GotoGoes DEF Pcs
  <2>2. StopsAt(p, n) BY DEF Failed, Row, StopsAt, Good
  <2>3. StopsAt(p, n)' BY <1>2, <2>2, StopsAtStays
  <2>4. Before(p, n)' BY <1>2, BeforeStays
  <2>5. n <= reservation[p].consumed + 1 /\ n <= reservation'[p].consumed + 1 /\ source'[p] # NoSeeds
    <3>1. n <= reservation[p].consumed + 1
      BY DEF Inv, LedgersOK, ActionsOK, Completed
    <3>2. reservation'[p] \in [state : {"none", "active", "consumed", "cancelled", "expired"},
                               consumed : 0..Steps]
      BY <1>2 DEF LedgerTypes
    <3> QED BY <1>1, <1>2, <3>1, <3>2, RowTypes, Counts DEF Grows
  <2>6. Completed(p, n)' BY <1>1 DEF Completed
  <2>7. CallOK(c)' BY <2>1, <2>3, <2>4, <2>5, <2>6, CallNow
  <2> QED BY <1>2, <2>1, <2>7, StepInv
<1> QED BY <1>1, <1>3, <1>4

LEMMA JudgeGoodInv ==
  ASSUME Inv, NEW c \in Callers, Judge(c), ~ Failed(c)
  PROVE  Inv'
<1> PICK p \in Plans, n \in 1..Steps :
          /\ call[c].plan = p /\ call[c].step = n /\ source[p] # NoSeeds
          /\ Before(p, n) /\ Completed(p, n) /\ n <= reservation[p].consumed
  BY CallKnows DEF Judge, ThroughFlow, Recorded
<1>1. Good(p, n) BY DEF Failed, Row, Good
<1>2. FlowUnchanged /\ ReconUnchanged /\ UNCHANGED late /\ call[c] \in CallType
  BY DEF Judge, ReconUnchanged, Inv
<1>3. CASE n = Steps
  <2> DEFINE r == [call[c] EXCEPT !.pc = "verify", !.active = FALSE]
  <2>1. r \in CallType /\ r.pc = "verify" /\ r.plan = p /\ r.step = n
    BY <1>2 DEF CallType, Pcs
  <2>2. call' = [call EXCEPT ![c] = r] BY <1>3 DEF Judge, Inv
  <2> HIDE DEF r
  <2>3. call' \in [Callers -> CallType] /\ call'[c] = r /\ OthersStay(c)
    BY <2>1, <2>2, CallSet
  <2>4. StopsAt(p, n) BY <1>3 DEF StopsAt
  <2>5. n <= reservation[p].consumed + 1 BY RowTypes
  <2> QED BY <1>2, <2>1, <2>3, <2>4, <2>5, LocalStep
<1>4. CASE n # Steps
  <2> DEFINE k == n + 1
             r == [call[c] EXCEPT !.pc = "check", !.active = FALSE, !.step = k]
  <2>1. k \in 1..Steps BY <1>4, Counts
  <2>2. Before(p, k)
    <3> SUFFICES ASSUME NEW i \in 1..Steps, i < k PROVE Good(p, i) BY DEF Before
    <3>1. i < n \/ i = n OBVIOUS
    <3> QED BY <1>1, <3>1 DEF Before
  <2>3. k <= reservation[p].consumed + 1 BY RowTypes
  <2>4. call' = [call EXCEPT ![c] = r] BY <1>4 DEF Judge, Inv
  <2> HIDE DEF k
  <2>5. r \in CallType /\ r.pc = "check" /\ r.plan = p /\ r.step = k
    BY <1>2, <2>1 DEF CallType, Pcs
  <2> HIDE DEF r
  <2>6. call' \in [Callers -> CallType] /\ call'[c] = r /\ OthersStay(c)
    BY <2>4, <2>5, CallSet
  <2> QED BY <1>2, <2>1, <2>2, <2>3, <2>5, <2>6, LocalStep DEF Recorded
<1> QED BY <1>3, <1>4

LEMMA JudgeInv ==
  ASSUME Inv, NEW c \in Callers, Judge(c)
  PROVE  Inv'
  BY JudgeFailedInv, JudgeGoodInv

\* One run changes.
LEMMA RunSet ==
  ASSUME Inv, NEW p \in Plans, NEW state \in {"started", "completed"},
         NEW attempt \in 0..MaxAttempts, NEW steps \in 0..Steps,
         NEW via \in {"none", "flow", "offline"},
         run' = [run EXCEPT ![p].state = state, ![p].attempt = attempt,
                            ![p].steps = steps, ![p].via = via],
         state = "completed" /\ via = "flow" => steps \in 1..Steps /\ StopsAt(p, steps),
         UNCHANGED <<flow, log, actions, source, reservation, late>>
  PROVE  LedgerTypes' /\ LedgersOK' /\ Grows
<1>1. LedgerTypes /\ LedgersOK BY DEF Inv
<1> DEFINE R == [state : {"none", "started", "completed"}, attempt : 0..MaxAttempts,
                 steps : 0..Steps, via : {"none", "flow", "offline"}]
           r == [run[p] EXCEPT !.state = state, !.attempt = attempt, !.steps = steps, !.via = via]
<1>2. run \in [Plans -> R] BY <1>1 DEF LedgerTypes
<1>3. run[p] \in R /\ run' = [run EXCEPT ![p] = r] BY <1>2
<1>4. r \in R /\ r.state = state /\ r.steps = steps /\ r.via = via BY <1>3
<1> HIDE DEF r, R
<1>5. run' \in [Plans -> R] /\ \A q \in Plans : run'[q] = IF q = p THEN r ELSE run[q]
  <2>1. run' = [run EXCEPT ![p] = r] BY <1>3
  <2>2. [run EXCEPT ![p] = r] \in [Plans -> R] BY <1>2, <1>4
  <2>3. \A q \in Plans : [run EXCEPT ![p] = r][q] = IF q = p THEN r ELSE run[q] BY <1>2
  <2> QED BY <2>1, <2>2, <2>3
<1>6. LedgerTypes' BY <1>1, <1>5 DEF LedgerTypes, R
<1>7. Grows
  <2>1. \A q \in Plans : reservation[q].consumed >= reservation[q].consumed BY RowTypes
  <2> QED BY <2>1 DEF Grows
<1>8. \A q \in Plans, n \in 1..Steps : StopsAt(q, n) => StopsAt(q, n)'
  BY <1>7, StopsAtStays
<1>9. RunOK'
  <2> SUFFICES ASSUME NEW q \in Plans
               PROVE  /\ run'[q].state = "none" => run'[q].attempt = 0
                      /\ run'[q].state = "completed" /\ run'[q].via = "flow" =>
                            run'[q].steps \in 1..Steps /\ StopsAt(q, run[q].steps)'
    BY DEF RunOK
  <2>1. CASE q = p
    <3>1. run'[q] = r BY <1>5, <2>1
    <3>2. StopsAt(q, run[q].steps)' <=> StopsAt(p, steps)
      BY <1>4, <2>1, <3>1 DEF StopsAt, Before, Good, Completed
    <3> QED BY <1>4, <3>1, <3>2
  <2>2. CASE q # p
    <3>1. run'[q] = run[q] BY <1>5, <2>2
    <3>2. StopsAt(q, run[q].steps)' <=> StopsAt(q, run[q].steps)
      BY <3>1 DEF StopsAt, Before, Good, Completed
    <3> QED BY <1>1, <3>1, <3>2 DEF LedgersOK, RunOK
  <2> QED BY <2>1, <2>2
<1>10. ActionsOK' BY <1>1 DEF LedgersOK, ActionsOK, Before, Good, Completed
<1>11. LogOK' BY <1>1 DEF LedgersOK, LogOK, Completed, Revision
<1>12. BudgetOK' BY <1>1 DEF LedgersOK, BudgetOK, BudgetKept, Started
<1>13. ReservationOK' BY <1>1 DEF LedgersOK, ReservationOK
<1> QED BY <1>6, <1>7, <1>9, <1>10, <1>11, <1>12, <1>13 DEF LedgersOK

LEMMA TakeInv ==
  ASSUME Inv, NEW c \in Callers, Take(c)
  PROVE  Inv'
<1>1. UNCHANGED <<flow, log, actions, source, reservation, late>>
  BY DEF Take, FlowUnchanged
<1>2. CASE Leave(c) /\ UNCHANGED run
  BY <1>1, <1>2, LeaveInv DEF FlowUnchanged, ReconUnchanged
<1>3. CASE ~ (Leave(c) /\ UNCHANGED run)
  <2> PICK p \in Plans, n \in 1..Steps :
         call[c].plan = p /\ call[c].step = n /\ source[p] # NoSeeds /\ n = 1
    BY CallKnows DEF Take
  <2>1. call[c] \in CallType BY DEF Inv
  <2> DEFINE attempt == call[c].attempt
             steps == run[p].steps
             via == run[p].via
             pc == IF call[c].via = "flow" THEN "check" ELSE "offline"
             r == [call[c] EXCEPT !.recover = FALSE, !.pc = pc]
  <2>2. /\ run' = [run EXCEPT ![p].state = "started", ![p].attempt = attempt]
        /\ call' = [call EXCEPT ![c] = r]
    BY <1>3 DEF Take, Inv
  <2>3. attempt \in 0..MaxAttempts BY <2>1 DEF CallType
  <2>4. run[p] \in [state : {"none", "started", "completed"}, attempt : 0..MaxAttempts,
                    steps : 0..Steps, via : {"none", "flow", "offline"}]
    BY DEF Inv, LedgerTypes
  <2>5. steps \in 0..Steps /\ via \in {"none", "flow", "offline"} BY <2>4
  <2>6. [run[p] EXCEPT !.state = "started", !.attempt = attempt]
           = [run[p] EXCEPT !.state = "started", !.attempt = attempt, !.steps = steps, !.via = via]
    BY <2>4
  <2>7. run' = [run EXCEPT ![p].state = "started", ![p].attempt = attempt,
                           ![p].steps = steps, ![p].via = via]
    BY <2>2, <2>6
  <2>8. /\ pc \in {"check", "offline"} /\ (pc = "offline" => call[c].via # "flow")
    OBVIOUS
  <2> HIDE DEF attempt, steps, via, pc
  <2>9. LedgerTypes' /\ LedgersOK' /\ Grows
    BY <1>1, <2>3, <2>5, <2>7, RunSet
  <2>10. r \in CallType /\ r.pc = pc /\ r.plan = p /\ r.step = n /\ r.via = call[c].via
    BY <2>1, <2>8 DEF CallType, Pcs
  <2> HIDE DEF r
  <2>11. call' \in [Callers -> CallType] /\ call'[c] = r /\ OthersStay(c)
    BY <2>2, <2>10, CallSet
  <2>12. Before(p, n)' BY DEF Before
  <2>13. n <= reservation'[p].consumed + 1 /\ source'[p] # NoSeeds BY <1>1, RowTypes
  <2>14. CallOK(c)'
    BY <2>8, <2>10, <2>11, <2>12, <2>13, CallNow DEF Recorded
  <2> QED BY <2>9, <2>11, <2>14, StepInv
<1> QED BY <1>2, <1>3

LEMMA FinishInv ==
  ASSUME Inv, NEW c \in Callers, Finish(c)
  PROVE  Inv'
<1> PICK p \in Plans, n \in 1..Steps :
          /\ call[c].plan = p /\ call[c].step = n
          /\ call[c].via = "flow" => StopsAt(p, n)
  BY CallKnows DEF Finish
<1>1. UNCHANGED <<flow, log, actions, source, reservation, late>> /\ Leave(c)
  BY DEF Finish, FlowUnchanged
<1>2. CASE run' = run
  BY <1>1, <1>2, LeaveInv DEF FlowUnchanged, ReconUnchanged
<1>3. CASE run' # run
  <2> DEFINE attempt == run[p].attempt
             via == call[c].via
  <2>1. run' = [run EXCEPT ![p].state = "completed", ![p].steps = n, ![p].via = via]
    BY <1>3 DEF Finish
  <2>2. run[p] \in [state : {"none", "started", "completed"}, attempt : 0..MaxAttempts,
                    steps : 0..Steps, via : {"none", "flow", "offline"}]
    BY DEF Inv, LedgerTypes
  <2>3. attempt \in 0..MaxAttempts BY <2>2
  <2>4. via \in {"none", "flow", "offline"} BY DEF Inv, CallType
  <2>5. n \in 0..Steps BY Counts
  <2>6. [run[p] EXCEPT !.state = "completed", !.steps = n, !.via = via]
           = [run[p] EXCEPT !.state = "completed", !.attempt = attempt, !.steps = n, !.via = via]
    BY <2>2
  <2>7. run' = [run EXCEPT ![p].state = "completed", ![p].attempt = attempt,
                           ![p].steps = n, ![p].via = via]
    BY <2>1, <2>6
  <2>8. via = "flow" => n \in 1..Steps /\ StopsAt(p, n) OBVIOUS
  <2> HIDE DEF attempt, via
  <2>9. LedgerTypes' /\ LedgersOK' /\ Grows
    BY <1>1, <2>3, <2>4, <2>5, <2>7, <2>8, RunSet
  <2> QED BY <1>1, <2>9, LeaveGoes, StepInv
<1> QED BY <1>2, <1>3

-----------------------------------------------------------------------------
(* Steps that write the flow *)

Entry == (Plans \X (1..Steps)) \cup {Outside, Ended}

FlowType == flow \in [running : BOOLEAN, used : Nat]

ActionType ==
    actions \in [Plans \X (1..Steps) -> [state : {"none", "started", "completed"},
                                         attempt : 0..FlowAttempts, good : BOOLEAN]]

LEMMA LogAppends ==
  ASSUME Inv, NEW e \in Entry, log' = Append(log, e)
  PROVE  /\ log' \in Seq(Entry) /\ Revision \in Nat /\ Revision' = Revision + 1
         /\ \A k \in 1..Revision : log'[k] = log[k]
         /\ log'[Revision + 1] = e
<1>1. log \in Seq(Entry) BY DEF Inv, LedgerTypes, Entry
<1> QED BY <1>1 DEF Revision

\* No entry of a plan is one of the flow's other users.
LEMMA EntriesDiffer ==
  ASSUME NEW p \in Plans, NEW i \in 1..Steps
  PROVE  <<p, i>> # Outside /\ <<p, i>> # Ended
  BY Counts DEF Outside, Ended

\* The number of actions under way.
LEMMA StartedCount ==
  ASSUME Inv
  PROVE  IsFiniteSet(Started) /\ Cardinality(Started) \in Nat /\ flow.used \in Nat
         /\ MaxActions \in Nat /\ flow.used + Cardinality(Started) <= MaxActions
  BY FS_CardinalityType, CountsAssumption
  DEF Inv, LedgersOK, LedgerTypes, BudgetOK, BudgetKept

\* A checkpoint that no plan makes.
LEMMA OtherCheckpoint ==
  ASSUME Inv, NEW e \in {Outside, Ended}, log' = Append(log, e), FlowType',
         flow'.used + Cardinality(Started) <= MaxActions,
         UNCHANGED <<actions, source, reservation, run, late, call>>
  PROVE  Inv'
<1>1. LedgerTypes /\ LedgersOK BY DEF Inv
<1>2. /\ log' \in Seq(Entry) /\ Revision \in Nat /\ Revision' = Revision + 1
      /\ \A k \in 1..Revision : log'[k] = log[k]
      /\ log'[Revision + 1] = e
  BY LogAppends DEF Entry
<1>3. LedgerTypes' BY <1>1, <1>2 DEF LedgerTypes, Entry, FlowType
<1>4. Grows
  <2>1. \A p \in Plans : reservation[p].consumed >= reservation[p].consumed BY RowTypes
  <2> QED BY <2>1 DEF Grows
<1>5. ActionsOK' BY <1>1 DEF LedgersOK, ActionsOK, Before, Good, Completed
<1>6. ReservationOK' BY <1>1 DEF LedgersOK, ReservationOK
<1>7. RunOK' BY <1>1 DEF LedgersOK, RunOK, StopsAt, Before, Good, Completed
<1>8. BudgetOK' BY <1>1 DEF LedgersOK, BudgetOK, BudgetKept, Started
<1>9. LogOK'
  <2>1. ASSUME NEW p \in Plans, NEW i \in 1..Steps, Completed(p, i)
        PROVE  /\ source[p] # NoSeeds /\ source[p] + i <= Revision + 1
               /\ log'[source[p] + i] = <<p, i>>
    <3>1. /\ source[p] # NoSeeds /\ source[p] + i <= Revision
          /\ log[source[p] + i] = <<p, i>>
      BY <1>1, <2>1 DEF LedgersOK, LogOK
    <3>2. source[p] \in Nat /\ i \in Nat /\ i >= 1 BY <3>1, RowTypes, Counts
    <3>3. source[p] + i \in 1..Revision BY <1>2, <3>1, <3>2
    <3>4. log'[source[p] + i] = log[source[p] + i] BY <1>2, <3>3
    <3>5. source[p] + i <= Revision + 1 BY <1>2, <3>1, <3>2
    <3> QED BY <3>1, <3>4, <3>5
  <2>2. ASSUME NEW k \in 1..(Revision + 1), NEW p \in Plans, NEW i \in 1..Steps,
               log'[k] = <<p, i>>
        PROVE  source[p] # NoSeeds /\ k = source[p] + i
    <3>1. k # Revision + 1 BY <1>2, <2>2, EntriesDiffer
    <3>2. k \in 1..Revision BY <1>2, <3>1
    <3> QED BY <1>1, <1>2, <2>2, <3>2 DEF LedgersOK, LogOK
  <2> QED BY <1>2, <2>1, <2>2 DEF LogOK, Completed
<1>10. LedgersOK' BY <1>5, <1>6, <1>7, <1>8, <1>9 DEF LedgersOK
<1> QED BY <1>3, <1>4, <1>10, OutsideInv

LEMMA OtherActionInv ==
  ASSUME Inv, OtherAction
  PROVE  Inv'
<1> DEFINE running == flow.used + 1 < MaxActions
           used == flow.used + 1
<1>1. /\ flow' = [used |-> used, running |-> running] /\ log' = Append(log, Outside)
      /\ UNCHANGED <<actions, source, reservation, run, late, call>>
  BY DEF OtherAction
<1>2. running \in BOOLEAN /\ used \in Nat BY StartedCount
<1>3. used + Cardinality(Started) <= MaxActions BY StartedCount DEF OtherAction, Fits
<1> HIDE DEF running, used
<1>4. flow'.used = used BY <1>1
<1>5. FlowType' BY <1>1, <1>2 DEF FlowType
<1> QED BY <1>1, <1>3, <1>4, <1>5, OtherCheckpoint

LEMMA FlowEndsInv ==
  ASSUME Inv, FlowEnds
  PROVE  Inv'
<1>1. /\ flow' = [flow EXCEPT !.running = FALSE] /\ log' = Append(log, Ended)
      /\ UNCHANGED <<actions, source, reservation, run, late, call>>
  BY DEF FlowEnds
<1>2. FlowType' /\ flow'.used = flow.used BY <1>1 DEF FlowType, Inv, LedgerTypes
<1> QED BY <1>1, <1>2, StartedCount, OtherCheckpoint

LEMMA DeadlinePassesInv ==
  ASSUME Inv, DeadlinePasses
  PROVE  Inv'
<1>1. UNCHANGED <<flow, log, actions, source, reservation, run>> /\ late' \in BOOLEAN
      /\ UNCHANGED call
  BY DEF DeadlinePasses
<1> QED BY <1>1, LedgersStay, OutsideInv

LEMMA SealInv ==
  ASSUME Inv, NEW p \in Plans, Seal(p)
  PROVE  Inv'
<1>1. LedgerTypes /\ LedgersOK BY DEF Inv
<1>2. /\ source[p] = NoSeeds /\ source' = [source EXCEPT ![p] = Revision]
      /\ UNCHANGED <<flow, log, actions, reservation, run, late, call>>
  BY DEF Seal, FlowUnchanged
<1>3. Revision \in Nat BY <1>1 DEF Revision, LedgerTypes
<1>4. source \in [Plans -> Nat \cup {NoSeeds}] BY <1>1 DEF LedgerTypes
<1>5. \A q \in Plans : source'[q] = IF q = p THEN Revision ELSE source[q] BY <1>2, <1>4
<1>6. source' \in [Plans -> Nat \cup {NoSeeds}] BY <1>2, <1>3, <1>4
<1>7. LedgerTypes' BY <1>1, <1>2, <1>6 DEF LedgerTypes
<1>8. Grows
  <2>1. \A q \in Plans : reservation[q].consumed >= reservation[q].consumed BY RowTypes
  <2> QED BY <1>2, <1>5, <2>1 DEF Grows
<1>9. ActionsOK' BY <1>1, <1>2 DEF LedgersOK, ActionsOK, Before, Good, Completed
<1>10. ReservationOK' BY <1>1, <1>2, <1>3, <1>5, Counts DEF LedgersOK, ReservationOK
<1>11. RunOK' BY <1>1, <1>2 DEF LedgersOK, RunOK, StopsAt, Before, Good, Completed
<1>12. BudgetOK' BY <1>1, <1>2 DEF LedgersOK, BudgetOK, BudgetKept, Started
<1>13. LogOK'
  <2>1. \A i \in 1..Steps : ~ Completed(p, i) /\ \A k \in 1..Revision : log[k] # <<p, i>>
    BY <1>1, <1>2 DEF LedgersOK, LogOK
  <2>2. Revision' = Revision BY <1>2 DEF Revision
  <2> QED BY <1>1, <1>2, <1>5, <2>1, <2>2 DEF LedgersOK, LogOK, Completed
<1>14. LedgersOK' BY <1>9, <1>10, <1>11, <1>12, <1>13 DEF LedgersOK
<1> QED BY <1>2, <1>7, <1>8, <1>14, OutsideInv

\* One action row that holds no recorded answer changes.
LEMMA ActionSet ==
  ASSUME Inv, NEW p \in Plans, NEW n \in 1..Steps, ~ Completed(p, n),
         NEW r \in [state : {"started", "completed"}, attempt : 0..FlowAttempts, good : BOOLEAN],
         actions' = [actions EXCEPT ![<<p, n>>] = r],
         Before(p, n), n <= reservation[p].consumed + 1,
         UNCHANGED <<source, reservation, run>>
  PROVE  /\ ActionType' /\ Grows /\ ActionsOK' /\ ReservationOK' /\ RunOK'
         /\ Started' = IF r.state = "started" THEN Started \cup {<<p, n>>} ELSE Started \ {<<p, n>>}
         /\ \A q \in Plans, i \in 1..Steps :
               Completed(q, i)' <=> IF q = p /\ i = n THEN r.state = "completed" ELSE Completed(q, i)
<1>1. LedgerTypes /\ LedgersOK BY DEF Inv
<1>2. ActionType BY <1>1 DEF LedgerTypes, ActionType
<1>3. <<p, n>> \in Plans \X (1..Steps) OBVIOUS
<1>4. ActionType'
  <2>1. r \in [state : {"none", "started", "completed"}, attempt : 0..FlowAttempts, good : BOOLEAN]
    OBVIOUS
  <2> QED BY <1>2, <1>3, <2>1 DEF ActionType
<1>5. \A a \in Plans \X (1..Steps) : actions'[a] = IF a = <<p, n>> THEN r ELSE actions[a]
  BY <1>2, <1>3 DEF ActionType
<1>6. \A q \in Plans, i \in 1..Steps :
         actions'[<<q, i>>] = IF q = p /\ i = n THEN r ELSE actions[<<q, i>>]
  BY <1>5
<1>7. Grows
  <2>1. \A q \in Plans : reservation[q].consumed >= reservation[q].consumed BY RowTypes
  <2> QED BY <1>6, <2>1 DEF Grows
<1>8. ActionsOK'
  <2> SUFFICES ASSUME NEW q \in Plans, NEW i \in 1..Steps, actions'[<<q, i>>].state # "none"
               PROVE  Before(q, i)' /\ i <= reservation[q].consumed + 1
    BY DEF ActionsOK, Before, Good, Completed
  <2>1. CASE q = p /\ i = n BY <1>7, <2>1, BeforeStays
  <2>2. CASE ~ (q = p /\ i = n)
    <3>1. actions[<<q, i>>].state # "none" BY <1>6, <2>2
    <3>2. Before(q, i) /\ i <= reservation[q].consumed + 1
      BY <1>1, <3>1 DEF LedgersOK, ActionsOK
    <3> QED BY <1>7, <3>2, BeforeStays
  <2> QED BY <2>1, <2>2
<1>9. ReservationOK' BY <1>1 DEF LedgersOK, ReservationOK
<1>10. RunOK'
  <2> SUFFICES ASSUME NEW q \in Plans, run[q].state = "completed", run[q].via = "flow"
               PROVE  run[q].steps \in 1..Steps /\ StopsAt(q, run[q].steps)'
    BY <1>1 DEF RunOK, LedgersOK
  <2> DEFINE k == run[q].steps
  <2>1. k \in 1..Steps /\ StopsAt(q, k) BY <1>1 DEF LedgersOK, RunOK
  <2>2. \A m \in 1..Steps : StopsAt(q, m) => StopsAt(q, m)' BY <1>7, StopsAtStays
  <2> QED BY <2>1, <2>2 DEF StopsAt, Before, Good, Completed
<1>11. Started' = IF r.state = "started" THEN Started \cup {<<p, n>>} ELSE Started \ {<<p, n>>}
  <2>1. DOMAIN actions = Plans \X (1..Steps) /\ DOMAIN actions' = Plans \X (1..Steps)
    BY <1>2, <1>4 DEF ActionType
  <2> QED BY <1>3, <1>5, <2>1 DEF Started
<1>12. \A q \in Plans, i \in 1..Steps :
          Completed(q, i)' <=> IF q = p /\ i = n THEN r.state = "completed" ELSE Completed(q, i)
  BY <1>6 DEF Completed
<1> QED BY <1>4, <1>7, <1>8, <1>9, <1>10, <1>11, <1>12

\* Where a recorded step stands in the log.
LEMMA RecordedAt ==
  ASSUME Inv, NEW p \in Plans, NEW i \in 1..Steps, Completed(p, i)
  PROVE  /\ source[p] # NoSeeds /\ source[p] + i \in 1..Revision
         /\ log[source[p] + i] = <<p, i>>
<1>1. /\ source[p] # NoSeeds /\ source[p] + i <= Revision
      /\ log[source[p] + i] = <<p, i>>
  BY DEF Inv, LedgersOK, LogOK
<1>2. source[p] \in Nat /\ i \in Nat /\ i >= 1 BY <1>1, RowTypes, Counts
<1>3. Revision \in Nat BY DEF Revision, Inv, LedgerTypes
<1> QED BY <1>1, <1>2, <1>3

LEMMA ClaimActionInv ==
  ASSUME Inv, NEW c \in Callers, ClaimAction(c)
  PROVE  Inv'
<1> PICK p \in Plans, n \in 1..Steps :
          /\ call[c].plan = p /\ call[c].step = n /\ source[p] # NoSeeds
          /\ Before(p, n) /\ n <= reservation[p].consumed + 1
  BY CallKnows DEF ClaimAction, ThroughFlow
<1>1. UNCHANGED <<flow, log, source, reservation, run, late>>
  BY DEF ClaimAction, ReconUnchanged
<1>2. CASE Leave(c) /\ UNCHANGED actions
  BY <1>1, <1>2, LeaveInv DEF FlowUnchanged, ReconUnchanged
<1>3. CASE Row(c).state = "completed" /\ Goto(c, "progress") /\ UNCHANGED actions
  BY <1>1, <1>3, LooksInv DEF ClaimAction, FlowUnchanged, ReconUnchanged, ThroughFlow, Pcs
<1>4. CASE /\ \/ Row(c).state = "started" /\ call[c].attempt = Row(c).attempt + 1
              \/ /\ Row(c).state = "none" /\ call[c].attempt = 1
                 /\ AtLatest(c) /\ Fits
           /\ actions' = [actions EXCEPT ![<<p, n>>].state = "started",
                                         ![<<p, n>>].attempt = call[c].attempt]
           /\ Goto(c, "send")
  <2> DEFINE attempt == call[c].attempt
             r == [actions[<<p, n>>] EXCEPT !.state = "started", !.attempt = attempt]
  <2>1. attempt \in 0..FlowAttempts
    <3>1. call[c] \in CallType BY DEF Inv
    <3>2. attempt \in 0..MaxAttempts BY <3>1 DEF CallType
    <3> QED BY <3>2, Counts DEF FlowAttempts
  <2>2. actions[<<p, n>>] \in [state : {"none", "started", "completed"},
                               attempt : 0..FlowAttempts, good : BOOLEAN]
    BY DEF Inv, LedgerTypes
  <2>3. actions' = [actions EXCEPT ![<<p, n>>] = r] BY <1>4
  <2> HIDE DEF attempt
  <2>4. /\ r \in [state : {"started", "completed"}, attempt : 0..FlowAttempts, good : BOOLEAN]
        /\ r.state = "started"
    BY <2>1, <2>2
  <2> HIDE DEF r
  <2>5. ~ Completed(p, n) BY <1>4 DEF Row, Completed
  <2>6. /\ ActionType' /\ Grows /\ ActionsOK' /\ ReservationOK' /\ RunOK'
        /\ Started' = Started \cup {<<p, n>>}
        /\ \A q \in Plans, i \in 1..Steps : Completed(q, i)' <=> Completed(q, i)
    <3>1. UNCHANGED <<source, reservation, run>> BY <1>1
    <3> QED BY <2>3, <2>4, <2>5, <3>1, ActionSet
  <2>7. LedgerTypes' BY <1>1, <2>6 DEF Inv, LedgerTypes, ActionType
  <2>8. LogOK'
    <3>1. Revision' = Revision BY <1>1 DEF Revision
    <3> QED BY <1>1, <2>6, <3>1 DEF Inv, LedgersOK, LogOK
  <2>9. BudgetOK'
    <3>1. /\ IsFiniteSet(Started') /\ flow.used + Cardinality(Started') <= MaxActions
      <4>1. CASE <<p, n>> \in Started
        <5>1. Started' = Started BY <2>6, <4>1
        <5> QED BY <5>1, StartedCount
      <4>2. CASE <<p, n>> \notin Started
        <5>1. Row(c).state # "started"
          BY <2>2, <4>2 DEF Started, Row, Inv, LedgerTypes
        <5>2. flow.used + Cardinality(Started) + 1 <= MaxActions BY <1>4, <5>1 DEF Fits
        <5>3. IsFiniteSet(Started') /\ Cardinality(Started') = Cardinality(Started) + 1
          BY <2>6, <4>2, StartedCount, FS_AddElement
        <5> QED BY <5>2, <5>3, StartedCount
      <4> QED BY <4>1, <4>2
    <3>2. flow' = flow BY <1>1
    <3> QED BY <3>1, <3>2 DEF BudgetOK, BudgetKept
  <2>10. LedgersOK' BY <2>6, <2>8, <2>9 DEF LedgersOK
  <2>11. /\ call' \in [Callers -> CallType] /\ OthersStay(c)
         /\ call'[c].pc = "send" /\ call'[c].plan = p /\ call'[c].step = n
    BY <1>4, GotoGoes DEF Pcs
  <2>12. Before(p, n)' BY <2>6, BeforeStays
  <2>13. source'[p] # NoSeeds /\ n <= reservation'[p].consumed + 1 BY <1>1
  <2>14. CallOK(c)' BY <2>11, <2>12, <2>13, CallNow DEF Recorded
  <2> QED BY <2>6, <2>7, <2>10, <2>11, <2>14, StepInv
<1> QED BY <1>2, <1>3, <1>4 DEF ClaimAction

LEMMA CompleteActionInv ==
  ASSUME Inv, NEW c \in Callers, CompleteAction(c)
  PROVE  Inv'
<1> PICK p \in Plans, n \in 1..Steps :
          /\ call[c].plan = p /\ call[c].step = n /\ source[p] # NoSeeds
          /\ Before(p, n) /\ n <= reservation[p].consumed + 1
  BY CallKnows DEF CompleteAction, ThroughFlow
<1>1. UNCHANGED <<source, reservation, run, late>>
  BY DEF CompleteAction, ReconUnchanged
<1>2. CASE Leave(c) /\ UNCHANGED <<flow, log, actions>>
  BY <1>1, <1>2, LeaveInv DEF FlowUnchanged, ReconUnchanged
<1>3. CASE Recordable(c)
  <2> DEFINE good == call[c].good
             r == [actions[<<p, n>>] EXCEPT !.state = "completed", !.good = good]
  <2>1. good \in BOOLEAN BY DEF Inv, CallType
  <2>2. actions[<<p, n>>] \in [state : {"none", "started", "completed"},
                               attempt : 0..FlowAttempts, good : BOOLEAN]
    BY DEF Inv, LedgerTypes
  <2>3. /\ actions' = [actions EXCEPT ![<<p, n>>] = r] /\ log' = Append(log, <<p, n>>)
        /\ \E ends \in {good = FALSE, FALSE} :
              flow' = [used |-> flow.used + 1, running |-> ~ends /\ flow.used + 1 < MaxActions]
        /\ Goto(c, "progress")
    BY <1>3 DEF CompleteAction
  <2> HIDE DEF good
  <2>4. /\ r \in [state : {"started", "completed"}, attempt : 0..FlowAttempts, good : BOOLEAN]
        /\ r.state = "completed"
    BY <2>1, <2>2
  <2> HIDE DEF r
  <2>5. ~ Completed(p, n) /\ <<p, n>> \in Started
    BY <1>3 DEF Recordable, Row, Completed, Started, Inv, LedgerTypes
  <2>6. /\ ActionType' /\ Grows /\ ActionsOK' /\ ReservationOK' /\ RunOK'
        /\ Started' = Started \ {<<p, n>>}
        /\ \A q \in Plans, i \in 1..Steps :
              Completed(q, i)' <=> IF q = p /\ i = n THEN TRUE ELSE Completed(q, i)
    <3>1. UNCHANGED <<source, reservation, run>> BY <1>1
    <3>2. actions' = [actions EXCEPT ![<<p, n>>] = r] BY <2>3
    <3>3. ~ Completed(p, n) BY <2>5
    <3> HIDE DEF Recordable
    <3>4. /\ ActionType' /\ Grows /\ ActionsOK' /\ ReservationOK' /\ RunOK'
      BY <2>4, <3>1, <3>2, <3>3, ActionSet
    <3>5. Started' = Started \ {<<p, n>>}
      BY <2>4, <3>1, <3>2, <3>3, ActionSet
    <3>6. \A q \in Plans, i \in 1..Steps :
             Completed(q, i)' <=> IF q = p /\ i = n THEN TRUE ELSE Completed(q, i)
      BY <2>4, <3>1, <3>2, <3>3, ActionSet
    <3> QED BY <3>4, <3>5, <3>6
  <2>7. FlowType' /\ flow'.used = flow.used + 1
    <3>1. flow.used + 1 \in Nat BY StartedCount
    <3> QED BY <2>3, <3>1 DEF FlowType
  <2>8. /\ log' \in Seq(Entry) /\ Revision \in Nat /\ Revision' = Revision + 1
        /\ \A k \in 1..Revision : log'[k] = log[k]
        /\ log'[Revision + 1] = <<p, n>>
    BY <2>3, LogAppends DEF Entry
  <2>9. LedgerTypes'
    BY <1>1, <2>6, <2>7, <2>8 DEF Inv, LedgerTypes, ActionType, FlowType, Entry
  <2>10. source[p] + n = Revision + 1
    <3>1. source[p] + n - 1 = Revision BY <1>3 DEF Recordable, AtLatest
    <3> QED BY <2>8, <3>1, RowTypes, Counts
  <2>11. LogOK'
    <3>1. ASSUME NEW q \in Plans, NEW i \in 1..Steps, (q = p /\ i = n) \/ Completed(q, i)
          PROVE  /\ source[q] # NoSeeds /\ source[q] + i <= Revision + 1
                 /\ log'[source[q] + i] = <<q, i>>
      <4>1. CASE q = p /\ i = n BY <2>8, <2>10, <4>1
      <4>2. CASE Completed(q, i)
        <5>1. /\ source[q] # NoSeeds /\ source[q] + i \in 1..Revision
              /\ log[source[q] + i] = <<q, i>>
          BY <4>2, RecordedAt
        <5> QED BY <2>8, <5>1
      <4> QED BY <3>1, <4>1, <4>2
    <3>2. ASSUME NEW k \in 1..(Revision + 1), NEW q \in Plans, NEW i \in 1..Steps,
                 log'[k] = <<q, i>>
          PROVE  source[q] # NoSeeds /\ k = source[q] + i
      <4>1. CASE k = Revision + 1 BY <2>8, <2>10, <3>2, <4>1
      <4>2. CASE k \in 1..Revision
        BY <2>8, <3>2, <4>2 DEF Inv, LedgersOK, LogOK
      <4> QED BY <2>8, <4>1, <4>2
    <3>3. source' = source /\ Revision' = Revision + 1 BY <1>1, <2>8
    <3>4. ASSUME NEW q \in Plans, NEW i \in 1..Steps, Completed(q, i)'
          PROVE  (q = p /\ i = n) \/ Completed(q, i)
      BY <2>6, <3>4
    <3>5. \A q \in Plans, i \in 1..Steps : Completed(q, i)' =>
             /\ source'[q] # NoSeeds /\ source'[q] + i <= Revision'
             /\ log'[source'[q] + i] = <<q, i>>
      BY <3>1, <3>3, <3>4
    <3>6. \A k \in 1..Revision', q \in Plans, i \in 1..Steps : log'[k] = <<q, i>> =>
             source'[q] # NoSeeds /\ k = source'[q] + i
      BY <3>2, <3>3
    <3> QED BY <3>5, <3>6 DEF LogOK
  <2>12. BudgetOK'
    <3>1. IsFiniteSet(Started') /\ Cardinality(Started') = Cardinality(Started) - 1
      BY <2>5, <2>6, StartedCount, FS_RemoveElement
    <3>2. flow'.used + Cardinality(Started') <= MaxActions BY <2>7, <3>1, StartedCount
    <3> QED BY <3>1, <3>2 DEF BudgetOK, BudgetKept
  <2>13. LedgersOK' BY <2>6, <2>11, <2>12 DEF LedgersOK
  <2>14. /\ call' \in [Callers -> CallType] /\ OthersStay(c)
         /\ call'[c].pc = "progress" /\ call'[c].plan = p /\ call'[c].step = n
    BY <2>3, GotoGoes DEF Pcs
  <2>15. Before(p, n)' BY <2>6, BeforeStays
  <2>16. Completed(p, n)' BY <2>6
  <2>17. source'[p] # NoSeeds /\ n <= reservation'[p].consumed + 1 BY <1>1
  <2>18. CallOK(c)' BY <2>14, <2>15, <2>16, <2>17, CallNow
  <2> QED BY <2>6, <2>9, <2>13, <2>14, <2>18, StepInv
<1> QED BY <1>2, <1>3 DEF CompleteAction

-----------------------------------------------------------------------------
(* The invariant *)

LEMMA InitInv ==
  ASSUME Init
  PROVE  Inv
<1>1. LedgerTypes
  <2>1. 0 \in 0..FlowAttempts /\ 0 \in 0..Steps /\ 0 \in 0..MaxAttempts BY Counts DEF FlowAttempts
  <2>2. \A S : <<>> \in Seq(S) OBVIOUS
  <2> QED BY <2>1, <2>2 DEF Init, LedgerTypes
<1>2. call \in [Callers -> CallType] BY IdleType DEF Init
<1>3. \A p \in Plans, i \in 1..Steps : actions[<<p, i>>].state = "none" BY DEF Init
<1>4. ActionsOK BY <1>3 DEF ActionsOK
<1>5. LogOK BY <1>3 DEF Init, LogOK, Completed, Revision
<1>6. Started = {} BY DEF Init, Started
<1>7. BudgetOK BY <1>6, FS_EmptySet, CountsAssumption DEF Init, BudgetOK, BudgetKept
<1>8. ReservationOK /\ RunOK BY DEF Init, ReservationOK, RunOK
<1>9. \A c \in Callers : CallOK(c) BY IdleType DEF Init, CallOK, ThroughFlow, Recorded
<1> QED BY <1>1, <1>2, <1>4, <1>5, <1>7, <1>8, <1>9 DEF Inv, LedgersOK

LEMMA StepOfCallInv ==
  ASSUME Inv, NEW c \in Callers, Step(c)
  PROVE  Inv'
  BY ReserveInv, InsertInv, CancelWriteInv, ClaimReadInv, TakeInv, RunOfflineInv, CheckInv,
     ClaimActionInv, SendInv, CompleteActionInv, ProgressInv, ConsumeInv, JudgeInv, VerifyInv,
     FinishInv
  DEF Step

LEMMA StartCallInv ==
  ASSUME Inv, NEW c \in Callers, NEW p \in Plans, StartCall(c, p)
  PROVE  Inv'
  BY PrepareInv, CancelReadInv, BindInv DEF StartCall

LEMMA NextInv ==
  ASSUME Inv, [Next]_vars
  PROVE  Inv'
<1>1. ASSUME NEW c \in Callers, Step(c) \/ Die(c) \/ \E p \in Plans : StartCall(c, p)
      PROVE  Inv'
  BY <1>1, StepOfCallInv, DieInv, StartCallInv
<1>2. ASSUME NEW p \in Plans, Seal(p) \/ Expire(p) PROVE Inv'
  BY <1>2, SealInv, ExpireInv
<1>3. CASE UNCHANGED vars
  <2>1. UNCHANGED <<flow, log, actions, source, reservation, run>> /\ late' \in BOOLEAN
        /\ UNCHANGED call
    BY <1>3 DEF vars, Inv, LedgerTypes
  <2> QED BY <2>1, LedgersStay, OutsideInv
<1> QED BY <1>1, <1>2, <1>3, OtherActionInv, FlowEndsInv, DeadlinePassesInv DEF Next

\* The invariant holds in every state, whichever calls interleave or die and
\* whatever else the flow is used for (endpoint_service.py, endpoint_store.py).
THEOREM ReconInvariant == Spec => []Inv
<1>1. Init => Inv BY InitInv
<1>2. Inv /\ [Next]_vars => Inv' BY NextInv
<1> QED BY <1>1, <1>2, PTL DEF Spec

-----------------------------------------------------------------------------
(* The properties *)

\* The flow stays within its budget and has each request once
\* (store.claim_action and complete_action).
THEOREM FlowIsKept == Spec => []FlowKept
<1>1. ASSUME Inv PROVE FlowKept
  <2>1. TypeOK BY <1>1, InvTypes
  <2>2. BudgetKept BY <1>1 DEF Inv, LedgersOK, BudgetOK
  <2>3. RecordedOnce BY <1>1 DEF Inv, LedgersOK, LogOK, RecordedOnce
  <2> QED BY <2>1, <2>2, <2>3 DEF FlowKept
<1> QED BY <1>1, ReconInvariant, PTL

\* The steps a plan recorded lie next to each other in the log.
LEMMA PrefixIsLineage ==
  ASSUME Inv, NEW p \in Plans, NEW n \in 1..Steps, Before(p, n), Completed(p, n)
  PROVE  Lineage(p, n)
<1> DEFINE a == source[p] + 1
           b == source[p] + n
<1>1. source[p] \in Nat /\ b \in 1..Revision BY RecordedAt, RowTypes
<1>2. log \in Seq(Entry) /\ Revision \in Nat BY DEF Inv, LedgerTypes, Entry, Revision
<1>3. \A i \in 1..n : log[source[p] + i] = <<p, i>>
  <2> SUFFICES ASSUME NEW i \in 1..n PROVE log[source[p] + i] = <<p, i>> OBVIOUS
  <2>1. i \in 1..Steps /\ (i < n \/ i = n) BY Counts
  <2>2. Completed(p, i) BY <2>1 DEF Before, Good
  <2> QED BY <2>1, <2>2, RecordedAt
<1> DEFINE s == SubSeq(log, a, b)
<1>4. a \in Int /\ b \in Int /\ a <= b /\ b - a + 1 = n /\ n \in Nat BY <1>1, Counts
<1>5. \A i \in a..b : log[i] \in Entry
  <2>1. \A i \in a..b : i \in 1..Len(log) BY <1>1, <1>2 DEF Revision
  <2> HIDE DEF a, b
  <2> QED BY <1>2, <2>1
<1>6. s \in Seq(Entry) /\ Len(s) = n /\ \A i \in 1..n : s[i] = log[a + i - 1]
  <2> HIDE DEF a, b
  <2> QED BY <1>4, <1>5, SubSeqProperties
<1>7. \A i \in 1..n : s[i] = <<p, i>>
  <2> SUFFICES ASSUME NEW i \in 1..n PROVE s[i] = <<p, i>> OBVIOUS
  <2>1. a + i - 1 = source[p] + i BY <1>1
  <2> QED BY <1>3, <1>6, <2>1
<1>8. Own(p, n) \in Seq(Entry) /\ Len(Own(p, n)) = n /\ \A i \in 1..n : Own(p, n)[i] = <<p, i>>
  <2>1. \A i \in 1..n : <<p, i>> \in Entry BY Counts DEF Entry
  <2> QED BY <1>4, <2>1 DEF Own
<1> HIDE DEF s
<1>9. s = Own(p, n) BY <1>6, <1>7, <1>8, SeqEqual
<1> QED BY <1>1, <1>9 DEF Lineage, s

\* An outcome of a run through the flow is the contiguous beginning of its plan,
\* and it ends at the first bad answer and nowhere else (endpoint_service.py,
\* _run_via_flow and _verify_flow_results).
THEOREM OutcomesAreLineages == Spec => []OutcomeIsLineage
<1>1. ASSUME Inv PROVE OutcomeIsLineage
  <2> SUFFICES ASSUME NEW p \in Plans, run[p].state = "completed", run[p].via = "flow",
                      NEW n, n = run[p].steps
               PROVE  /\ Lineage(p, n) /\ Done(p) = 1..n
                      /\ \A i \in 1..(n - 1) : actions[<<p, i>>].good
                      /\ n = Steps \/ ~actions[<<p, n>>].good
    BY DEF OutcomeIsLineage
  <2>1. n \in 1..Steps /\ StopsAt(p, n) BY <1>1 DEF Inv, LedgersOK, RunOK
  <2>2. Lineage(p, n) BY <1>1, <2>1, PrefixIsLineage DEF StopsAt
  <2>3. \A i \in 1..(n - 1) : i \in 1..Steps /\ i < n BY <2>1, Counts
  <2>4. \A i \in 1..(n - 1) : actions[<<p, i>>].good
    BY <2>1, <2>3 DEF StopsAt, Before, Good
  <2>5. n = Steps \/ ~actions[<<p, n>>].good BY <2>1 DEF StopsAt, Good
  <2>6. \A i \in 1..Steps : i \in Done(p) <=> Completed(p, i) BY DEF Done, Completed
  <2>7. \A i \in 1..n : i \in Done(p)
    <3> SUFFICES ASSUME NEW i \in 1..n PROVE i \in 1..Steps /\ Completed(p, i) BY <2>6
    <3>1. i \in 1..Steps /\ (i < n \/ i = n) BY <2>1, Counts
    <3> QED BY <2>1, <3>1 DEF StopsAt, Before, Good
  <2>8. \A i \in 1..Steps : i \in Done(p) => i \in 1..n
    <3> SUFFICES ASSUME NEW i \in 1..Steps, Completed(p, i), i > n PROVE FALSE BY <2>1, <2>6
    <3>1. Before(p, i) BY <1>1 DEF Inv, LedgersOK, ActionsOK, Completed
    <3>2. Good(p, n) BY <2>1, <3>1 DEF Before
    <3>3. n = Steps BY <2>1, <3>2 DEF StopsAt
    <3> QED BY <3>3, Counts
  <2>9. Done(p) = 1..n BY <2>7, <2>8 DEF Done
  <2> QED BY <2>2, <2>4, <2>5, <2>9
<1> QED BY <1>1, ReconInvariant, PTL

\* Two plans on one checkpoint never both spend actions (endpoint_service.py,
\* the lineage a step is checked against).
THEOREM OnePlanPerCheckpoint == Spec => []OneLineage
<1>1. ASSUME Inv PROVE OneLineage
  <2> SUFFICES ASSUME NEW p \in Plans, NEW q \in Plans, NEW i \in Done(p), NEW j \in Done(q),
                      source[p] = source[q]
               PROVE  p = q
    BY DEF OneLineage
  <2>1. ASSUME NEW u \in Plans, NEW k \in Done(u) PROVE log[source[u] + 1] = <<u, 1>>
    <3>1. k \in 1..Steps /\ Completed(u, k) BY DEF Done, Completed
    <3>2. Before(u, k) BY <1>1, <3>1 DEF Inv, LedgersOK, ActionsOK, Completed
    <3>3. 1 < k \/ 1 = k BY <3>1, Counts
    <3>4. Completed(u, 1) BY <3>1, <3>2, <3>3, Counts DEF Before, Good
    <3> QED BY <1>1, <3>4, RecordedAt, Counts
  <2>2. <<p, 1>> = <<q, 1>> BY <2>1
  <2> QED BY <2>2
<1> QED BY <1>1, ReconInvariant, PTL

\* The flow is ahead of a plan's reservation by one step at most, although the
\* two are in different databases (endpoint_service.py, consume_request).
THEOREM ReservationsFollow == Spec => []ReservationFollows
<1>1. Inv => ReservationFollows
  BY DEF Inv, LedgersOK, ActionsOK, ReservationFollows
<1> QED BY <1>1, ReconInvariant, PTL
=============================================================================
