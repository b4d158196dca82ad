---------------------------- MODULE EndpointRecon ----------------------------
(***************************************************************************)
(* Endpoint recon plans on one flow: the reservations and runs of          *)
(* EndpointReconStore, the calls of EndpointReconService, and the part of  *)
(* the flow's ledger they share (the checkpoint log and the actions).  The *)
(* two stores are two databases, so a call that writes both writes them    *)
(* one after the other; calls interleave and die between any two steps.    *)
(*                                                                         *)
(* Observations are <<plan, step>>; `log` holds one entry per checkpoint   *)
(* after the flow's start.  A plan's window is over once `late` holds.     *)
(***************************************************************************)
EXTENDS Integers, Sequences, FiniteSets

CONSTANTS
    Plans,          \* endpoint recon plans, each from its own seed set
    Steps,          \* steps of a plan (one per seed)
    Callers,        \* callers of the service
    MaxActions,     \* the flow's action budget
    MaxAttempts,    \* plan.limits.max_attempts
    MaxOthers       \* bound on the flow's checkpoints that no plan makes

ASSUME CountsAssumption ==
    /\ Steps \in Nat \ {0} /\ MaxActions \in Nat
    /\ MaxAttempts \in 1..3 /\ MaxOthers \in Nat

VARIABLES
    flow,           \* [running, used]: the latest checkpoint
    log,            \* what each checkpoint after the start added
    actions,        \* the flow's action rows, by plan and step
    source,         \* revision the plan's seed set was sealed at, or NoSeeds
    reservation,    \* [state, consumed] of each plan
    run,            \* [state, attempt, steps, via] of each plan
    late,           \* the plans' deadline is over
    call            \* the calls under way

vars == <<flow, log, actions, source, reservation, run, late, call>>

NoSeeds == -1
FlowAttempts == 3   \* RedTeamReconCommand.attempt: le=3

Idle == [pc |-> "idle", plan |-> "none", step |-> 1, attempt |-> 0,
         left |-> 0, good |-> TRUE, via |-> "none",
         recover |-> FALSE, active |-> FALSE]

Init ==
    /\ flow = [running |-> TRUE, used |-> 0] /\ log = <<>>
    /\ actions = [a \in Plans \X (1..Steps) |-> [state |-> "none", attempt |-> 0, good |-> TRUE]]
    /\ source = [p \in Plans |-> NoSeeds]
    /\ reservation = [p \in Plans |-> [state |-> "none", consumed |-> 0]]
    /\ run = [p \in Plans |-> [state |-> "none", attempt |-> 0, steps |-> 0, via |-> "none"]]
    /\ late = FALSE
    /\ call = [c \in Callers |-> Idle]

Revision == Len(log)
Own(p, n) == [i \in 1..n |-> <<p, i>>]
Outside == <<"other", 0>>
Ended == <<"end", 0>>

\* The log from the plan's source on holds the plan's first n steps.
Lineage(p, n) ==
    source[p] + n <= Revision /\ SubSeq(log, source[p] + 1, source[p] + n) = Own(p, n)

\* A call goes on, or returns or raises ("idle").
Goto(c, pc) == call' = [call EXCEPT ![c] = IF pc = "idle" THEN Idle ELSE [@ EXCEPT !.pc = pc]]
Leave(c) == Goto(c, "idle")
FlowUnchanged == UNCHANGED <<flow, log, actions>>
ReconUnchanged == UNCHANGED <<source, reservation, run>>

----------------------------------------------------------------------------
(***************************************************************************)
(* The flow's other users and the clock.                                   *)
(***************************************************************************)
Started == {a \in DOMAIN actions : actions[a].state = "started"}
Others == {i \in 1..Revision : log[i] \in {Outside, Ended}}

\* The budget has room for one more action beside the ones under way.
Fits == flow.used + Cardinality(Started) + 1 <= MaxActions

\* Some other action of the flow, from its claim to its checkpoint.
OtherAction ==
    /\ flow.running /\ Cardinality(Others) < MaxOthers
    /\ Fits
    /\ log' = Append(log, Outside)
    /\ flow' = [used |-> flow.used + 1, running |-> flow.used + 1 < MaxActions]
    /\ UNCHANGED <<actions, source, reservation, run, late, call>>

\* cancel, kill or expire of the flow.
FlowEnds ==
    /\ flow.running /\ Cardinality(Others) < MaxOthers
    /\ log' = Append(log, Ended) /\ flow' = [flow EXCEPT !.running = FALSE]
    /\ UNCHANGED <<actions, source, reservation, run, late, call>>

DeadlinePasses == ~late /\ late' = TRUE /\ UNCHANGED <<flow, log, actions, source, reservation,
                                                       run, call>>

(***************************************************************************)
(* seal_seed_set and prepare.  reserve sums the active reservations before *)
(* the transaction of its INSERT begins.                                   *)
(***************************************************************************)
Seal(p) ==
    /\ source[p] = NoSeeds /\ flow.running /\ ~late
    /\ source' = [source EXCEPT ![p] = Revision]
    /\ FlowUnchanged /\ UNCHANGED <<reservation, run, late, call>>

\* A call starts with what it reads first; one that reads the wrong thing there
\* raises and has changed nothing.
Begin(c, p, pc) ==
    /\ call[c].pc = "idle"
    /\ call' = [call EXCEPT ![c] = [Idle EXCEPT !.pc = pc, !.plan = p]]

Prepare(c, p) ==
    LET left == MaxActions - flow.used
    IN  /\ call[c].pc = "idle" /\ reservation[p].state = "none"
        /\ ~late /\ flow.running /\ source[p] = Revision /\ Steps <= left
        /\ call' = [call EXCEPT ![c] = [Idle EXCEPT !.pc = "reserve", !.plan = p, !.left = left]]
        /\ FlowUnchanged /\ ReconUnchanged /\ UNCHANGED late

Reserved ==
    LET active == {p \in Plans : reservation[p].state = "active"}
        open == UNION {{<<p, i>> : i \in (reservation[p].consumed + 1)..Steps} : p \in active}
    IN  Cardinality(open)

Reserve(c) ==
    /\ call[c].pc = "reserve"
    /\ IF reservation[call[c].plan].state = "none" /\ Reserved + Steps <= call[c].left
       THEN Goto(c, "insert") ELSE Leave(c)
    /\ FlowUnchanged /\ ReconUnchanged /\ UNCHANGED late

Insert(c) ==
    LET p == call[c].plan
    IN  /\ call[c].pc = "insert" /\ Leave(c)
        /\ reservation' = IF reservation[p].state = "none"
                          THEN [reservation EXCEPT ![p].state = "active"] ELSE reservation
        /\ FlowUnchanged /\ UNCHANGED <<source, run, late>>

(***************************************************************************)
(* cancel_reservation looks at the run, then writes; expire_reservation    *)
(* looks only at the deadline.                                             *)
(***************************************************************************)
CancelRead(c, p) ==
    /\ reservation[p].state # "none" /\ run[p].state # "started"
    /\ Begin(c, p, "release")
    /\ FlowUnchanged /\ ReconUnchanged /\ UNCHANGED late

Release(p, state) ==
    reservation' = IF reservation[p].state = "active"
                   THEN [reservation EXCEPT ![p].state = state] ELSE reservation

CancelWrite(c) ==
    /\ call[c].pc = "release"
    /\ Release(call[c].plan, "cancelled") /\ Leave(c)
    /\ FlowUnchanged /\ UNCHANGED <<source, run, late>>

Expire(p) ==
    /\ late /\ reservation[p].state = "active"
    /\ Release(p, "expired")
    /\ FlowUnchanged /\ UNCHANGED <<source, run, late, call>>

----------------------------------------------------------------------------
(***************************************************************************)
(* execute(_via_flow) and recover(_via_flow): the binding, then the claim. *)
(* The offline run insists on the source being the latest checkpoint also  *)
(* when it recovers; the run through the flow does not.                    *)
(***************************************************************************)
OfflineBinding(p) == flow.running /\ source[p] = Revision

FlowBinding(p, recover) == reservation[p].state = "active" /\ (recover \/ source[p] = Revision)

Bind(c, p, via, recover) ==
    /\ call[c].pc = "idle" /\ reservation[p].state # "none" /\ ~late
    /\ run[p].state # "completed"
    /\ IF via = "flow" THEN FlowBinding(p, recover) ELSE OfflineBinding(p)
    /\ call' = [call EXCEPT ![c] = [Idle EXCEPT !.pc = "claim", !.plan = p, !.via = via,
                                                !.recover = recover]]
    /\ FlowUnchanged /\ ReconUnchanged /\ UNCHANGED late

\* claim and recover read the reservation and the row outside the transaction
\* of their write, which compares only the row with what they read.
ClaimRead(c) ==
    LET p == call[c].plan
    IN  /\ call[c].pc = "claim"
        /\ IF /\ reservation[p].state = "active"
              /\ IF call[c].recover
                 THEN run[p].state = "started" /\ run[p].attempt < MaxAttempts
                 ELSE run[p].state = "none"
           THEN call' = [call EXCEPT ![c].pc = "take", ![c].attempt = run[p].attempt + 1]
           ELSE Leave(c)
        /\ FlowUnchanged /\ ReconUnchanged /\ UNCHANGED late

Take(c) ==
    LET p == call[c].plan
    IN  /\ call[c].pc = "take"
        /\ IF /\ run[p].state = (IF call[c].recover THEN "started" ELSE "none")
              /\ run[p].attempt = call[c].attempt - 1
           THEN /\ run' = [run EXCEPT ![p].state = "started", ![p].attempt = call[c].attempt]
                /\ call' = [call EXCEPT
                       ![c].recover = FALSE,
                       ![c].pc = IF call[c].via = "flow" THEN "check" ELSE "offline"]
           ELSE Leave(c) /\ UNCHANGED run
        /\ FlowUnchanged /\ UNCHANGED <<source, reservation, late>>

\* _run: the steps against the offline adapter, which touch neither the flow
\* nor the reservation, and the binding once more before the outcome.
RunOffline(c) ==
    /\ call[c].pc = "offline"
    /\ \/ /\ OfflineBinding(call[c].plan)
          /\ \E n \in 1..Steps : call' = [call EXCEPT ![c].pc = "finish", ![c].step = n]
       \/ ~OfflineBinding(call[c].plan) /\ Leave(c)
    /\ FlowUnchanged /\ ReconUnchanged /\ UNCHANGED late

(***************************************************************************)
(* _run_via_flow, one step of the plan: the lineage and the reservation,   *)
(* the replay of an action that is completed, the action's claim, the      *)
(* request, the action's completion, the reservation's consumption.        *)
(***************************************************************************)
Row(c) == actions[<<call[c].plan, call[c].step>>]

\* Mutant: the step's checkpoint need not be the latest any more.
AtLatestOrEarlier(c) == source[call[c].plan] + call[c].step - 1 <= Revision

\* The checkpoint the step's action expects is the flow's latest.
AtLatest(c) == source[call[c].plan] + call[c].step - 1 = Revision

Check(c) ==
    LET p == call[c].plan
    IN  /\ call[c].pc = "check"
        /\ Goto(c, CASE \/ ~Lineage(p, call[c].step - 1)
                        \/ reservation[p].state # "active" -> "idle"
                     [] Row(c).state = "completed" -> "progress"
                     [] flow.running /\ AtLatest(c) -> "act"
                     [] OTHER -> "idle")
        /\ FlowUnchanged /\ ReconUnchanged /\ UNCHANGED late

\* store.claim_action, one IMMEDIATE transaction.
ClaimAction(c) ==
    LET a == <<call[c].plan, call[c].step>>
    IN  /\ call[c].pc = "act"
        /\ \/ Row(c).state = "completed" /\ Goto(c, "progress") /\ UNCHANGED actions
           \/ /\ \/ Row(c).state = "started" /\ call[c].attempt = Row(c).attempt + 1
                 \/ /\ Row(c).state = "none" /\ call[c].attempt = 1
                    /\ AtLatest(c) /\ Fits
              /\ actions' = [actions EXCEPT ![a].state = "started", ![a].attempt = call[c].attempt]
              /\ Goto(c, "send")
           \/ Leave(c) /\ UNCHANGED actions
        /\ UNCHANGED <<flow, log>> /\ ReconUnchanged /\ UNCHANGED late

\* The adapter answers well or badly, or is interrupted: the call raises, except
\* in the flow's last attempt, which records the interruption as a bad answer.
Send(c) ==
    /\ call[c].pc = "send"
    /\ \/ \E good \in BOOLEAN : call' = [call EXCEPT ![c].pc = "record", ![c].good = good]
       \/ call[c].attempt < FlowAttempts /\ Leave(c)
    /\ FlowUnchanged /\ ReconUnchanged /\ UNCHANGED late

\* Mutant: the transaction compares nothing with what the call read.
RecordableUnfenced(c) == flow.running

Recordable(c) ==
    /\ AtLatest(c) /\ flow.running
    /\ Row(c).state = "started" /\ Row(c).attempt = call[c].attempt

\* store.complete_action: the checkpoint, the observation and the action row.
\* A bad answer may end the flow (cleanup, timeout, failure limit).
CompleteAction(c) ==
    LET a == <<call[c].plan, call[c].step>>
    IN  /\ call[c].pc = "record"
        /\ IF Recordable(c)
           THEN /\ actions' = [actions EXCEPT ![a].state = "completed", ![a].good = call[c].good]
                /\ log' = Append(log, a)
                /\ \E ends \in {call[c].good = FALSE, FALSE} :
                      flow' = [used |-> flow.used + 1,
                               running |-> ~ends /\ flow.used + 1 < MaxActions]
                /\ Goto(c, "progress")
           ELSE Leave(c) /\ UNCHANGED <<flow, log, actions>>
        /\ ReconUnchanged /\ UNCHANGED late

\* Mutant: off by one, the request counts as consumed before it is.
CountedEarly(c) == reservation[call[c].plan].consumed >= call[c].step - 1

\* The step's request is consumed already, by this or an earlier attempt.
Counted(c) == reservation[call[c].plan].consumed >= call[c].step

\* The reservation as the call finds it, from which it decides.
Progress(c) ==
    LET r == reservation[call[c].plan]
    IN  /\ call[c].pc = "progress"
        /\ \/ /\ Counted(c)
              /\ call' = [call EXCEPT ![c].pc = "judge", ![c].active = r.state = "active"]
           \/ ~Counted(c) /\ r.consumed = call[c].step - 1 /\ Goto(c, "consume")
           \/ ~Counted(c) /\ r.consumed # call[c].step - 1 /\ Leave(c)
        /\ FlowUnchanged /\ ReconUnchanged /\ UNCHANGED late

\* The next request consumed is the last one, and closes the reservation.
LastRequest(p) == reservation[p].consumed + 1 = Steps

\* consume_request reads the reservation again and takes one more from that.
Consume(c) ==
    LET p == call[c].plan
    IN  /\ call[c].pc = "consume"
        /\ IF reservation[p].state = "active"
           THEN /\ reservation' = [reservation EXCEPT
                       ![p].consumed = @ + 1, ![p].state = IF LastRequest(p) THEN "consumed" ELSE @]
                /\ call' = [call EXCEPT ![c].pc = "judge", ![c].active = ~LastRequest(p)]
           ELSE Leave(c) /\ UNCHANGED reservation
        /\ FlowUnchanged /\ UNCHANGED <<source, run, late>>

\* Mutant: a bad result does not stop the run.
FailedUnseen(c) == FALSE

\* _step_result: the step's recorded answer was a bad one.
Failed(c) == ~Row(c).good

\* A bad result stops the run and releases what is left of a reservation that
\* was active when the call last looked.
Judge(c) ==
    LET p == call[c].plan
    IN  /\ call[c].pc = "judge"
        /\ \/ /\ Failed(c)
              /\ IF call[c].active THEN Release(p, "cancelled") ELSE UNCHANGED reservation
              /\ IF call[c].active /\ reservation[p].state \notin {"active", "cancelled"}
                 THEN Leave(c) ELSE Goto(c, "verify")
           \/ /\ ~Failed(c) /\ UNCHANGED reservation
              /\ call' = IF call[c].step = Steps
                         THEN [call EXCEPT ![c].pc = "verify", ![c].active = FALSE]
                         ELSE [call EXCEPT ![c].pc = "check", ![c].active = FALSE,
                                           ![c].step = @ + 1]
        /\ FlowUnchanged /\ UNCHANGED <<source, run, late>>

\* _verify_flow_results reads the flow once more.
Verify(c) ==
    LET p == call[c].plan
    IN  /\ call[c].pc = "verify"
        /\ Goto(c, IF Revision = source[p] + call[c].step /\ Lineage(p, call[c].step)
                   THEN "finish" ELSE "idle")
        /\ FlowUnchanged /\ ReconUnchanged /\ UNCHANGED late

\* store.complete.
Finish(c) ==
    LET p == call[c].plan
    IN  /\ call[c].pc = "finish" /\ Leave(c)
        /\ run' = IF run[p].state = "started" /\ run[p].attempt = call[c].attempt
                  THEN [run EXCEPT ![p].state = "completed", ![p].steps = call[c].step,
                                   ![p].via = call[c].via]
                  ELSE run
        /\ FlowUnchanged /\ UNCHANGED <<source, reservation, late>>

Die(c) ==
    /\ call[c].pc # "idle" /\ Leave(c)
    /\ FlowUnchanged /\ ReconUnchanged /\ UNCHANGED late

----------------------------------------------------------------------------
StartCall(c, p) ==
    \/ Prepare(c, p) \/ CancelRead(c, p)
    \/ \E via \in {"flow", "offline"}, recover \in BOOLEAN : Bind(c, p, via, recover)

Step(c) ==
    \/ Reserve(c) \/ Insert(c) \/ CancelWrite(c) \/ ClaimRead(c) \/ Take(c) \/ RunOffline(c)
    \/ Check(c) \/ ClaimAction(c) \/ Send(c) \/ CompleteAction(c)
    \/ Progress(c) \/ Consume(c) \/ Judge(c) \/ Verify(c) \/ Finish(c)

Next ==
    \/ \E c \in Callers : Step(c) \/ Die(c) \/ \E p \in Plans : StartCall(c, p)
    \/ \E p \in Plans : Seal(p) \/ Expire(p)
    \/ OtherAction \/ FlowEnds \/ DeadlinePasses

Spec == Init /\ [][Next]_vars

----------------------------------------------------------------------------
(***************************************************************************)
(* Properties.                                                             *)
(***************************************************************************)
Done(p) == {i \in 1..Steps : actions[<<p, i>>].state = "completed"}

\* Types of the two ledgers and of the calls.
TypeOK ==
    /\ flow \in [running : BOOLEAN, used : Nat]
    /\ log \in Seq((Plans \X (1..Steps)) \cup {Outside, Ended})
    /\ actions \in [Plans \X (1..Steps) -> [state : {"none", "started", "completed"},
                                            attempt : 0..FlowAttempts, good : BOOLEAN]]
    /\ source \in [Plans -> Nat \cup {NoSeeds}]
    /\ reservation \in [Plans -> [state : {"none", "active", "consumed", "cancelled", "expired"},
                                  consumed : 0..Steps]]
    /\ run \in [Plans -> [state : {"none", "started", "completed"}, attempt : 0..MaxAttempts,
                          steps : 0..Steps, via : {"none", "flow", "offline"}]]
    /\ late \in BOOLEAN
    /\ \A c \in Callers : call[c].step \in 1..Steps /\ (call[c] # Idle => call[c].plan \in Plans)

\* The budget of the flow is kept although plans can reserve more than is left
\* of it: reservations are summed outside the transaction that adds one, and
\* the action's claim counts only what the flow's own ledger knows of.
BudgetKept == flow.used + Cardinality(Started) <= MaxActions

\* An outcome of a run through the flow is a contiguous stretch of the flow's
\* log: the plan's first steps in order, from the plan's source on and with no
\* other action between them, whoever ran or recovered each of them.  It is all
\* the plan did, it ends at the first bad answer, and it ends nowhere else.
OutcomeIsLineage ==
    \A p \in Plans :
        LET n == run[p].steps
        IN  run[p].state = "completed" /\ run[p].via = "flow" =>
                /\ Lineage(p, n) /\ Done(p) = 1..n
                /\ \A i \in 1..(n - 1) : actions[<<p, i>>].good
                /\ n = Steps \/ ~actions[<<p, n>>].good

\* The log has each step at most once: a recovered run repeats no request whose
\* answer is recorded, although it claims every step under its own attempt.
RecordedOnce ==
    \A i, j \in 1..Revision : log[i] = log[j] /\ log[i] \in Plans \X (1..Steps) => i = j

\* Two plans on one checkpoint never both spend actions, whatever they reserved.
OneLineage ==
    \A p, q \in Plans : Done(p) # {} /\ Done(q) # {} /\ source[p] = source[q] => p = q

\* The flow never runs ahead of the reservation by more than the step under way,
\* although the two are in different databases: a plan whose reservation is
\* cancelled or expires between a recorded step and its consumption stops there.
ReservationFollows ==
    \A p \in Plans, i \in 1..Steps :
        actions[<<p, i>>].state # "none" => i <= reservation[p].consumed + 1


\* However many plans, callers and recoveries work on it, the flow's ledger
\* stays within its budget and has each request once.
FlowKept == TypeOK /\ BudgetKept /\ RecordedOnce
=============================================================================
