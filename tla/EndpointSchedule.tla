-------------------------- MODULE EndpointSchedule --------------------------
(***************************************************************************)
(* A recurring endpoint check (schedule_service.py, schedule_store.py,     *)
(* schedule_state_machine.py).  The schedule keeps one chain of            *)
(* checkpoints and one run per due slot; a run materializes a flow and a   *)
(* reservation of Endpoint Recon, which live in two other databases, and   *)
(* never dispatches anything.  A run that is not finished is recovered by  *)
(* an operator, at most three attempts, and closed at its deadline after   *)
(* what it left behind was cancelled.                                      *)
(*                                                                         *)
(* Procs are the operator's commands under way.  A command fixes its time  *)
(* `now` when it starts, reads, and writes later in transactions that      *)
(* compare the checkpoint with the one it read.                            *)
(***************************************************************************)
EXTENDS Integers, FiniteSets

CONSTANTS
    Procs,          \* commands that can be under way at once
    Interval,       \* interval_seconds
    RunTtl,         \* run_ttl_seconds
    ActiveUntil,    \* active_until; active_from is 0
    MaxClock,       \* bound of the clock
    MaxCommands     \* bound of the commands started

ASSUME TimeAssumption ==
    /\ Interval \in Nat \ {0} /\ RunTtl \in Nat \ {0}
    /\ ActiveUntil \in Nat \ {0} /\ MaxClock \in Nat /\ MaxCommands \in Nat

MaxAttempts == 3
NoSlot == -1
Slots == 0..(ActiveUntil - 1)   \* a slot is known by the time it is due

VARIABLES
    clock,      \* the time at which the last command was started
    cp,         \* the latest checkpoint of the schedule
    runs,       \* endpoint_schedule_runs, by slot
    flow,       \* the slot's flow
    resv,       \* the slot's reservation
    recon,      \* the slot's Endpoint Recon run
    call,       \* the commands under way
    begun,      \* how many commands were started
    overtaken   \* history: slots cleaned up while another command worked on them

vars == <<clock, cp, runs, flow, resv, recon, call, begun, overtaken>>

NoRun == [state |-> "none", attempt |-> 0, started |-> 0, deadline |-> 0, clean |-> FALSE]

Start0 == [revision |-> 0, state |-> "active", due |-> 0, active |-> NoSlot,
           last |-> NoSlot, updated |-> 0]

Idle == [pc |-> "idle", op |-> "trigger", now |-> 0, view |-> Start0, slot |-> NoSlot,
         run |-> NoRun, seen |-> "none", clean |-> TRUE]

Ended == {"materialized", "timed_out", "failed"}
Closed == {"cancelled", "expired"}

\* The flow of a slot was created and not ended.
Open(s) == flow[s] \in {"planned", "running"}

\* Nothing that the slot's run materialized can act any more.
Quiet(s) == ~Open(s) /\ resv[s] # "active"

Init ==
    /\ clock = 0
    /\ cp = Start0
    /\ runs = [s \in Slots |-> NoRun]
    /\ flow = [s \in Slots |-> "none"]
    /\ resv = [s \in Slots |-> "none"]
    /\ recon = [s \in Slots |-> "none"]
    /\ call = [p \in Procs |-> Idle]
    /\ begun = 0
    /\ overtaken = {}

ScheduleUnchanged == UNCHANGED <<cp, runs, overtaken>>
BelowUnchanged == UNCHANGED <<flow, resv, recon>>

Leave(p) == call' = [call EXCEPT ![p] = Idle]
Goto(p, pc) == call' = [call EXCEPT ![p].pc = pc]

----------------------------------------------------------------------------
(***************************************************************************)
(* What other commands do with a materialized plan (modules EndpointRecon  *)
(* and RedTeamFlow have the details; the revisions its actions add to the  *)
(* flow are not told apart here).                                          *)
(***************************************************************************)
ReconMoves(s) ==
    /\ \/ recon[s] = "none" /\ resv[s] = "active" /\ recon' = [recon EXCEPT ![s] = "started"]
       \/ recon[s] = "started" /\ recon' = [recon EXCEPT ![s] = "done"]
    /\ ScheduleUnchanged /\ UNCHANGED <<clock, begun, call, flow, resv>>

\* An operator cancels or kills the flow, it expires, fails or is completed.
FlowEnds(s) ==
    /\ Open(s) /\ flow' = [flow EXCEPT ![s] = "ended"]
    /\ ScheduleUnchanged /\ UNCHANGED <<clock, begun, call, resv, recon>>

\* The reservation is consumed, cancelled or expires.
ReservationEnds(s) ==
    /\ resv[s] = "active" /\ resv' = [resv EXCEPT ![s] = "closed"]
    /\ ScheduleUnchanged /\ UNCHANGED <<clock, begun, call, flow, recon>>

----------------------------------------------------------------------------
(***************************************************************************)
(* The pure transitions.                                                   *)
(***************************************************************************)
\* The first slot after `due` that is still to come.
NextDue(due, now) ==
    due + Interval * ((IF now > due THEN (now - due) \div Interval ELSE 0) + 1)

\* _current: the command's time is neither before the checkpoint nor after
\* the schedule's window.
Current(c, now) == c.updated <= now /\ now < ActiveUntil

Advanced(c, now) == [c EXCEPT !.revision = @ + 1, !.updated = now]

Claimed(c, now) == [Advanced(c, now) EXCEPT !.active = c.due]

NewRun(now) ==
    [state |-> "started", attempt |-> 1, started |-> now, clean |-> FALSE,
     deadline |-> IF now + RunTtl < ActiveUntil THEN now + RunTtl ELSE ActiveUntil]

\* A run ends: the next slot is due, and the schedule pauses if it must.
Finished(c, slot, now, paused) ==
    [Advanced(c, now) EXCEPT !.active = NoSlot, !.last = slot,
                             !.due = NextDue(slot, now),
                             !.state = IF paused THEN "paused" ELSE "active"]

----------------------------------------------------------------------------
(***************************************************************************)
(* A command takes the time and reads the schedule (a checkpoint later     *)
(* than its time would refuse it, so both are one step here).  No later    *)
(* step of a command looks at the clock, so time passes at these steps     *)
(* only: the next command may start as late as it likes.  A command that   *)
(* what it reads already refuses is left out; any other may end anywhere:  *)
(* refused, interrupted or dead.                                           *)
(***************************************************************************)
Command(now) == begun < MaxCommands /\ begun' = begun + 1 /\ clock' = now

Begin(p, op, pc, now) ==
    /\ call[p].pc = "idle" /\ Command(now)
    /\ call' = [call EXCEPT ![p] = [Idle EXCEPT !.pc = pc, !.op = op, !.now = now, !.view = cp]]
    /\ ScheduleUnchanged /\ BelowUnchanged

End(p) ==
    /\ call[p].pc # "idle" /\ Leave(p)
    /\ ScheduleUnchanged /\ BelowUnchanged /\ UNCHANGED <<clock, begun>>

\* Mutant: the previous run's cleanup is not asked for.
PriorRunCleanAnyhow(c) ==
    /\ c.active = NoSlot
    /\ c.last # NoSlot /\ runs[c.last].state = "materialized" =>
          Quiet(c.last) /\ recon[c.last] # "started"

\* Mutant: only the flow of the previous run is looked at.
PriorRunCleanFlow(c) ==
    /\ c.active = NoSlot
    /\ c.last # NoSlot =>
          /\ runs[c.last].clean
          /\ runs[c.last].state = "materialized" => ~Open(c.last)

\* _prior_run_clean.  It reads the three ledgers one after the other; what it
\* asks of the flow and the reservation stays true once it is.
PriorRunClean(c) ==
    /\ c.active = NoSlot
    /\ c.last # NoSlot =>
          /\ runs[c.last].clean
          /\ runs[c.last].state = "materialized" => Quiet(c.last) /\ recon[c.last] # "started"

(***************************************************************************)
(* trigger: read, look at the previous run, claim the slot that is due.    *)
(* Before the slot is due the last run is returned and nothing changes.    *)
(***************************************************************************)
TriggerRead(p, now) ==
    /\ cp.state = "active" /\ cp.due <= now /\ now < ActiveUntil
    /\ PriorRunClean(cp)
    /\ Begin(p, "trigger", "claim", now)

\* Mutant: the transaction does not compare the checkpoint.
AssertLatestNever(c) == TRUE

\* The checkpoint the command read is still the latest one.  It is read before
\* the transaction's first write; what makes the two one step is the key
\* (schedule_id, revision), on which a second successor of it fails.
AssertLatest(c) == cp = c

Claim(p) ==
    LET c == call[p].view
        s == c.due
        now == call[p].now
    IN  /\ call[p].pc = "claim"
        /\ Current(c, now) /\ c.state = "active" /\ c.active = NoSlot /\ s <= now
        /\ AssertLatest(c) /\ runs[s] = NoRun
        /\ runs' = [runs EXCEPT ![s] = NewRun(now)]
        /\ cp' = Claimed(c, now)
        /\ call' = [call EXCEPT ![p].pc = "create", ![p].view = Claimed(c, now),
                                ![p].slot = s, ![p].run = NewRun(now)]
        /\ BelowUnchanged /\ UNCHANGED <<clock, begun, overtaken>>

(***************************************************************************)
(* recover: past the run's deadline it is closed, before it another        *)
(* attempt takes it over.                                                  *)
(***************************************************************************)
RecoverRead(p, now) ==
    LET s == cp.active
    IN  /\ call[p].pc = "idle" /\ s # NoSlot /\ Command(now)
        /\ now >= runs[s].deadline \/ runs[s].attempt < MaxAttempts
        /\ call' = [call EXCEPT ![p] =
               [Idle EXCEPT !.op = "recover", !.now = now, !.view = cp, !.slot = s,
                            !.run = runs[s],
                            !.pc = IF now >= runs[s].deadline THEN "cleanup" ELSE "take"]]
        /\ ScheduleUnchanged /\ BelowUnchanged

Take(p) ==
    LET s == call[p].slot
        next == [runs[s] EXCEPT !.attempt = @ + 1]
    IN  /\ call[p].pc = "take"
        /\ cp.active = s /\ runs[s].state = "started" /\ runs[s].attempt < MaxAttempts
        /\ runs[s].started <= call[p].now /\ call[p].now < runs[s].deadline
        /\ runs' = [runs EXCEPT ![s] = next]
        /\ call' = [call EXCEPT ![p].pc = "create", ![p].view = cp, ![p].run = next]
        /\ BelowUnchanged /\ UNCHANGED <<clock, begun, cp, overtaken>>

(***************************************************************************)
(* _materialize: the flow is created, started and must be at revision 1;   *)
(* the seed set is sealed; the plan is reserved.  Every step finds what an *)
(* earlier attempt left under the same key.  The flow is looked at three   *)
(* times (here, when sealing, when preparing): a flow that is at revision  *)
(* 1 the last time was there before.  One at a later revision interrupts   *)
(* the call, as other refusals do.                                         *)
(***************************************************************************)
Working == {"create", "start", "bind", "reserve"}

CreateFlow(p) ==
    LET s == call[p].slot
    IN  /\ call[p].pc = "create"
        /\ flow' = [flow EXCEPT ![s] = IF @ = "none" THEN "planned" ELSE @]
        /\ Goto(p, IF flow'[s] = "planned" THEN "start" ELSE "bind")
        /\ ScheduleUnchanged /\ UNCHANGED <<clock, begun, resv, recon>>

StartFlow(p) ==
    LET s == call[p].slot
    IN  /\ call[p].pc = "start" /\ flow[s] = "planned"
        /\ flow' = [flow EXCEPT ![s] = "running"]
        /\ Goto(p, "bind")
        /\ ScheduleUnchanged /\ UNCHANGED <<clock, begun, resv, recon>>

BindFlow(p) ==
    /\ call[p].pc = "bind" /\ flow[call[p].slot] = "running"
    /\ Goto(p, "reserve")
    /\ ScheduleUnchanged /\ BelowUnchanged /\ UNCHANGED <<clock, begun>>

Reserve(p) ==
    LET s == call[p].slot
    IN  /\ call[p].pc = "reserve"
        /\ resv' = [resv EXCEPT ![s] = IF @ = "none" THEN "active" ELSE @]
        /\ Goto(p, "finish")
        /\ ScheduleUnchanged /\ UNCHANGED <<clock, begun, flow, recon>>

\* Whatever _materialize raises: the third attempt cleans up and fails the run,
\* the others leave it started.
Interrupted(p) ==
    /\ call[p].pc \in Working
    /\ IF call[p].run.attempt < MaxAttempts
       THEN Leave(p)
       ELSE Goto(p, "cleanup")
    /\ ScheduleUnchanged /\ BelowUnchanged /\ UNCHANGED <<clock, begun>>

(***************************************************************************)
(* _cleanup_partial: the reservation first, then the flow.                 *)
(***************************************************************************)
CleanReservation(p) ==
    LET s == call[p].slot
    IN  /\ call[p].pc = "cleanup"
        /\ overtaken' = IF \E q \in Procs \ {p} : call[q].slot = s /\ call[q].pc \in Working
                        THEN overtaken \cup {s} ELSE overtaken
        /\ call' = [call EXCEPT ![p].pc = IF resv[s] = "active" /\ recon[s] # "started"
                                          THEN "release" ELSE "clean_flow",
                                ![p].clean = ~(resv[s] # "none" /\ recon[s] = "started")]
        /\ BelowUnchanged /\ UNCHANGED <<clock, begun, cp, runs>>

\* cancel_reservation refuses a started run, and a reservation that ended
\* meanwhile unless it was by cancellation.
ReleaseReservation(p) ==
    LET s == call[p].slot
    IN  /\ call[p].pc = "release"
        /\ \/ /\ recon[s] # "started" /\ resv[s] = "active"
              /\ resv' = [resv EXCEPT ![s] = "closed"]
              /\ Goto(p, "clean_flow")
           \/ /\ recon[s] # "started" /\ resv[s] = "closed"
              /\ Goto(p, "clean_flow") /\ UNCHANGED resv
           \/ /\ recon[s] = "started" \/ resv[s] = "closed"
              /\ call' = [call EXCEPT ![p].pc = "clean_flow", ![p].clean = FALSE]
              /\ UNCHANGED resv
        /\ ScheduleUnchanged /\ UNCHANGED <<clock, begun, flow, recon>>

\* Mutant: a flow that was created but not started is not looked for.
CleanFlowStarted(p) ==
    LET s == call[p].slot
    IN  /\ call[p].pc = "clean_flow"
        /\ call' = [call EXCEPT ![p].seen = flow[s],
                                ![p].pc = IF flow[s] \in {"running"}
                                          THEN "cancel_flow" ELSE "close"]
        /\ ScheduleUnchanged /\ BelowUnchanged /\ UNCHANGED <<clock, begun>>

CleanFlow(p) ==
    LET s == call[p].slot
    IN  /\ call[p].pc = "clean_flow"
        /\ call' = [call EXCEPT ![p].seen = flow[s],
                                ![p].pc = IF Open(s) THEN "cancel_flow" ELSE "close"]
        /\ ScheduleUnchanged /\ BelowUnchanged /\ UNCHANGED <<clock, begun>>

\* A flow that moved on since it was read is not cancelled.
CancelFlow(p) ==
    LET s == call[p].slot
    IN  /\ call[p].pc = "cancel_flow"
        /\ \/ /\ flow[s] = call[p].seen
              /\ flow' = [flow EXCEPT ![s] = "ended"] /\ Goto(p, "close")
           \/ /\ flow[s] # call[p].seen \/ recon[s] # "none"
              /\ call' = [call EXCEPT ![p].pc = "close", ![p].clean = FALSE]
              /\ UNCHANGED flow
        /\ ScheduleUnchanged /\ UNCHANGED <<clock, begun, resv, recon>>

(***************************************************************************)
(* materialize, timeout, fail: one transaction that compares the           *)
(* checkpoint, and the run's state and attempt.  Nothing reads the attempt *)
(* and the times of a run that has ended, and they are forgotten here.     *)
(***************************************************************************)
RunFence(p) ==
    LET r == runs[call[p].slot]
    IN  r.state = "started" /\ r.attempt = call[p].run.attempt

Finish(p, state, clean, paused) ==
    LET c == call[p].view
        s == call[p].slot
    IN  /\ c.active = s
        /\ AssertLatest(c) /\ RunFence(p)
        /\ runs' = [runs EXCEPT ![s] = [NoRun EXCEPT !.state = state, !.clean = clean]]
        /\ cp' = Finished(c, s, call[p].now, paused)
        /\ Leave(p)
        /\ BelowUnchanged /\ UNCHANGED <<clock, begun, overtaken>>

Materialize(p) ==
    /\ call[p].pc = "finish"
    /\ Current(call[p].view, call[p].now) /\ call[p].now < call[p].run.deadline
    /\ Finish(p, "materialized", TRUE, FALSE)

\* recover past the deadline ends in timeout, the third attempt in fail.
Close(p) ==
    /\ call[p].pc = "close" /\ call[p].view.updated <= call[p].now
    /\ IF call[p].now >= call[p].run.deadline
       THEN Finish(p, "timed_out", call[p].clean, ~call[p].clean)
       ELSE Finish(p, "failed", call[p].clean, TRUE)

(***************************************************************************)
(* pause, resume, cancel, expire: read, then advance the chain.            *)
(***************************************************************************)
Transition(op, c, now) ==
    LET next == Advanced(c, now)
    IN  CASE op = "pause"  -> [next EXCEPT !.state = "paused"]
          [] op = "resume" -> [next EXCEPT !.state = "active", !.due = NextDue(c.due, now)]
          [] op = "cancel" -> [next EXCEPT !.state = "cancelled"]
          [] op = "expire" -> [next EXCEPT !.state = "expired"]

Allowed(op, c, now) ==
    /\ c.updated <= now
    /\ \/ op = "pause"  /\ now < ActiveUntil /\ c.state = "active" /\ c.active = NoSlot
       \/ op = "resume" /\ now < ActiveUntil /\ c.state = "paused"
       \/ op = "cancel" /\ c.state \notin Closed /\ c.active = NoSlot
       \/ op = "expire" /\ now >= ActiveUntil /\ c.state \notin Closed /\ c.active = NoSlot

ResumePrior(p, now) == PriorRunClean(cp) /\ Begin(p, "resume", "resume", now)

ResumeRead(p) ==
    /\ call[p].pc = "resume" /\ Allowed("resume", cp, call[p].now)
    /\ call' = [call EXCEPT ![p].pc = "advance", ![p].view = cp]
    /\ ScheduleUnchanged /\ BelowUnchanged /\ UNCHANGED <<clock, begun>>

LifecycleRead(p, op, now) ==
    /\ Allowed(op, cp, now)
    /\ Begin(p, op, "advance", now)

Advance(p) ==
    LET c == call[p].view
    IN  /\ call[p].pc = "advance"
        /\ Allowed(call[p].op, c, call[p].now) /\ AssertLatest(c)
        /\ cp' = Transition(call[p].op, c, call[p].now)
        /\ Leave(p)
        /\ BelowUnchanged /\ UNCHANGED <<clock, begun, runs, overtaken>>

----------------------------------------------------------------------------
Start(p, now) ==
    \/ TriggerRead(p, now) \/ RecoverRead(p, now) \/ ResumePrior(p, now)
    \/ \E op \in {"pause", "cancel", "expire"} : LifecycleRead(p, op, now)
Materializing(p) ==
    \/ CreateFlow(p) \/ StartFlow(p) \/ BindFlow(p) \/ Reserve(p)
    \/ Interrupted(p) \/ Materialize(p)
Cleaning(p) ==
    \/ CleanReservation(p) \/ ReleaseReservation(p) \/ CleanFlow(p) \/ CancelFlow(p) \/ Close(p)

Next ==
    \/ \E p \in Procs :
          \/ \E now \in clock..MaxClock : Start(p, now)
          \/ Claim(p) \/ Take(p) \/ ResumeRead(p) \/ Advance(p)
          \/ Materializing(p) \/ Cleaning(p) \/ End(p)
    \/ \E s \in Slots : ReconMoves(s) \/ FlowEnds(s) \/ ReservationEnds(s)

Spec == Init /\ [][Next]_vars

----------------------------------------------------------------------------
(***************************************************************************)
(* Properties.                                                             *)
(***************************************************************************)
Checkpoints ==
    [revision : Nat, state : {"active", "paused"} \cup Closed, due : Nat,
     active : Slots \cup {NoSlot}, last : Slots \cup {NoSlot}, updated : Nat]

Runs == [state : {"none", "started"} \cup Ended, attempt : 0..MaxAttempts, started : Nat,
         deadline : Nat, clean : BOOLEAN]

Pcs == {"idle", "claim", "take", "finish", "cleanup", "release", "clean_flow",
        "cancel_flow", "close", "resume", "advance"} \cup Working

\* Types of the schedule's two tables, the ledgers below and the commands.
TypeOK ==
    /\ clock \in Nat
    /\ cp \in Checkpoints
    /\ runs \in [Slots -> Runs]
    /\ flow \in [Slots -> {"none", "planned", "running", "ended"}]
    /\ resv \in [Slots -> {"none", "active", "closed"}]
    /\ recon \in [Slots -> {"none", "started", "done"}]
    /\ call \in [Procs -> [pc : Pcs, now : Nat, view : Checkpoints, slot : Slots \cup {NoSlot},
                           op : {"trigger", "recover", "pause", "resume", "cancel", "expire"},
                           run : Runs, clean : BOOLEAN,
                           seen : {"none", "planned", "running", "ended"}]]
    /\ begun \in 0..MaxCommands /\ overtaken \subseteq Slots

\* The two tables agree: the run the latest checkpoint calls active is the only
\* one started, and a schedule that is not active has none.
ActiveIsStarted ==
    /\ \A s \in Slots : runs[s].state = "started" <=> cp.active = s
    /\ cp.active # NoSlot => cp.state = "active"

\* A slot is run at most once: every slot already run lies before the next one
\* that is due, so the claim never meets a run under its own key.
SlotsPassOnce ==
    \A s \in Slots : runs[s].state \in Ended => s < cp.due

\* A run is claimed only after everything earlier runs materialized has ended;
\* runs cleaned up while another command was still at work on them excepted.
NoOverlap ==
    \A s, t \in Slots :
        s < t /\ runs[s] # NoRun /\ runs[t] # NoRun =>
            Quiet(s) \/ (s \in overtaken /\ runs[s].state # "materialized")

\* A run whose cleanup was not proven is the last one: no resume, trigger or
\* recovery gets past it.
UnprovenIsLast ==
    \A s, t \in Slots :
        s < t /\ runs[s].state \in Ended /\ ~runs[s].clean => runs[t] = NoRun

\* Whatever steps the attempts of a run died between, a run closed as clean
\* left nothing open behind.
CleanIsClean ==
    \A s \in Slots :
        runs[s].state \in Ended \ {"materialized"} /\ runs[s].clean /\ s \notin overtaken =>
            Quiet(s)


\* The checkpoints and the runs tell one story, whichever commands raced: one
\* run is under way or none, and the slots behind the next one are over.
TablesAgree == TypeOK /\ ActiveIsStarted /\ SlotsPassOnce
=============================================================================
