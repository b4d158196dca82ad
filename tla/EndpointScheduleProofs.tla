----------------------- MODULE EndpointScheduleProofs -----------------------
(***************************************************************************)
(* Proofs about EndpointSchedule, for any commands, interval, window, life *)
(* of a run and bounds.                                                    *)
(***************************************************************************)
EXTENDS EndpointSchedule, TLAPS

-----------------------------------------------------------------------------
(* The inductive invariant *)

\* The claimed slot is the one that is due, and the last run is the latest of
\* those that ended.
StoryOK ==
    /\ cp.active # NoSlot => cp.active = cp.due
    /\ cp.last # NoSlot => runs[cp.last].state \in Ended
    /\ \A s \in Slots :
          /\ runs[s].state \in Ended => s <= cp.last
          /\ runs[s].state = "none" => runs[s] = NoRun

TablesOK == ActiveIsStarted /\ SlotsPassOnce /\ StoryOK

\* No command materializes what belongs to a slot.
Nobody(s) == \A q \in Procs : call[q].slot = s => call[q].pc \notin Working

\* What a run that has ended left behind.
LeftOK ==
    \A s \in Slots :
        /\ runs[s].state = "materialized" => flow[s] # "none" /\ resv[s] # "none"
        /\ runs[s].state \in Ended \ {"materialized"} /\ runs[s].clean /\ s \notin overtaken =>
              Quiet(s) /\ Nobody(s)

AfterCleanup == {"release", "clean_flow", "cancel_flow", "close"}

\* The steps that work on the run of a slot.
OnRun == Working \cup {"take", "finish", "cleanup"} \cup AfterCleanup

\* What trigger asked of the previous run stays true.
PriorKept(c) ==
    c.last # NoSlot =>
        /\ runs[c.last].state \in Ended /\ runs[c.last].clean
        /\ runs[c.last].state = "materialized" => Quiet(c.last)

\* A cleanup whose run is still the one it was started for, and that no command
\* at work was overtaken by.
CleanerOK(p) ==
    call[p].pc \in AfterCleanup /\ RunFence(p) /\ call[p].slot \notin overtaken =>
        /\ Nobody(call[p].slot)
        /\ call[p].pc # "release" /\ call[p].clean => resv[call[p].slot] # "active"
        /\ call[p].pc = "close" /\ call[p].clean => ~ Open(call[p].slot)

CallOK(p) ==
    /\ call[p].pc \in OnRun =>
          /\ call[p].slot \in Slots /\ runs[call[p].slot].state # "none"
          /\ runs[call[p].slot].state = "started" =>
                call[p].run.attempt <= runs[call[p].slot].attempt
    /\ call[p].pc \in {"start", "bind", "reserve", "finish"} => flow[call[p].slot] # "none"
    /\ call[p].pc = "finish" => resv[call[p].slot] # "none"
    /\ call[p].pc = "claim" => PriorKept(call[p].view)
    /\ CleanerOK(p)

Inv ==
    /\ TypeOK /\ TablesOK /\ NoOverlap /\ UnprovenIsLast /\ LeftOK
    /\ \A p \in Procs : CallOK(p)

-----------------------------------------------------------------------------
(* Values *)

\* The next slot lies after the one that is over.
LEMMA NextDueLater ==
  ASSUME NEW due \in Nat, NEW now \in Nat
  PROVE  NextDue(due, now) \in Nat /\ NextDue(due, now) > due
<1> DEFINE k == IF now > due THEN (now - due) \div Interval ELSE 0
<1>1. Interval \in Nat \ {0} BY TimeAssumption
<1>2. k \in Nat BY <1>1
<1> HIDE DEF k
<1>3. Interval * (k + 1) \in Nat /\ Interval * (k + 1) >= 1 BY <1>1, <1>2
<1>4. NextDue(due, now) = due + Interval * (k + 1) BY DEF NextDue, k
<1> QED BY <1>3, <1>4

\* The record of a command under way.
CallType ==
    [pc : Pcs, now : Nat, view : Checkpoints, slot : Slots \cup {NoSlot},
     op : {"trigger", "recover", "pause", "resume", "cancel", "expire"},
     run : Runs, clean : BOOLEAN, seen : {"none", "planned", "running", "ended"}]

LedgerType ==
    /\ flow \in [Slots -> {"none", "planned", "running", "ended"}]
    /\ resv \in [Slots -> {"none", "active", "closed"}]
    /\ recon \in [Slots -> {"none", "started", "done"}]
    /\ overtaken \subseteq Slots

\* The types of the tables, the ledgers and the commands.
LEMMA TypeParts ==
  TypeOK <=> /\ cp \in Checkpoints /\ runs \in [Slots -> Runs] /\ LedgerType
             /\ call \in [Procs -> CallType] /\ clock \in Nat /\ begun \in 0..MaxCommands
  BY DEF TypeOK, LedgerType, CallType

\* No slot is known by NoSlot.
LEMMA SlotsAreTimes ==
  /\ \A s \in Slots : s \in Nat /\ s # NoSlot /\ s < ActiveUntil
  /\ \A n \in Nat : n < ActiveUntil => n \in Slots
  /\ NoSlot \notin Nat
  BY TimeAssumption DEF Slots, NoSlot

LEMMA NoRunType == NoRun \in Runs /\ NoRun.state = "none"
  BY DEF Runs, NoRun, MaxAttempts

LEMMA IdleType == Idle \in CallType /\ Idle.pc = "idle"
<1>1. Start0 \in Checkpoints BY DEF Start0, Checkpoints
<1> QED BY <1>1, NoRunType DEF Idle, CallType, Pcs

-----------------------------------------------------------------------------
(* What every step keeps *)

\* The ledgers below go on: nothing is forgotten, and what has ended comes back
\* only while a command is at work on its slot and finds nothing there.
FlowsGo ==
    \A s \in Slots :
        /\ flow[s] # "none" => flow'[s] # "none"
        /\ resv[s] # "none" => resv'[s] # "none"
        /\ ~ Open(s) /\ (flow[s] # "none" \/ Nobody(s)) => ~ Open(s)'
        /\ resv[s] # "active" /\ (resv[s] # "none" \/ Nobody(s)) => resv'[s] # "active"

\* The runs go on: attempts are not taken back and what has ended stays.
RunsGo ==
    \A s \in Slots :
        /\ runs[s].state # "none" => runs'[s].state # "none"
        /\ runs[s].state \in Ended => runs'[s] = runs[s]
        /\ runs[s].state = "started" /\ runs'[s].state = "started" =>
              runs'[s].attempt >= runs[s].attempt

\* No command comes to work on a run without a new attempt.
StaysFree ==
    \A s \in Slots :
        runs[s].state # "none" /\ runs'[s].attempt = runs[s].attempt /\ Nobody(s) => Nobody(s)'

\* What a step of p does not touch.
Others(p) == \A q \in Procs \ {p} : call'[q] = call[q]

\* Materializing goes on where it was.
LEMMA FreeAfter ==
  ASSUME NEW p \in Procs, Others(p),
         call'[p].pc \in Working => call[p].pc \in Working /\ call'[p].slot = call[p].slot
  PROVE  \A s \in Slots : Nobody(s) => Nobody(s)'
  BY DEF Others, Nobody

\* The runs stay as they are.
LEMMA SameRuns ==
  ASSUME Inv, runs' = runs
  PROVE  RunsGo
<1>1. runs \in [Slots -> Runs] BY DEF Inv, TypeOK
<1> SUFFICES ASSUME NEW s \in Slots PROVE runs[s].attempt >= runs[s].attempt BY DEF RunsGo
<1>2. runs[s] \in Runs BY <1>1
<1>3. runs[s].attempt \in Nat BY <1>2 DEF Runs, MaxAttempts
<1> QED BY <1>3

\* The ledgers below stay as they are.
LEMMA SameLedgers ==
  ASSUME UNCHANGED <<flow, resv>>
  PROVE  FlowsGo
  BY DEF FlowsGo, Open

\* A cleanup that does not move stays as good as it was.
LEMMA CleanerStays ==
  ASSUME NEW q \in Procs, NEW s \in Slots, call'[q] = call[q], call[q].slot = s,
         FlowsGo, StaysFree, overtaken \subseteq overtaken',
         runs[s].state # "none", runs'[s].attempt = runs[s].attempt,
         RunFence(q), CleanerOK(q)
  PROVE  CleanerOK(q)'
<1> SUFFICES ASSUME call[q].pc \in AfterCleanup, s \notin overtaken'
             PROVE  /\ Nobody(s)'
                    /\ call[q].pc # "release" /\ call[q].clean => resv'[s] # "active"
                    /\ call[q].pc = "close" /\ call[q].clean => ~ Open(s)'
  BY DEF CleanerOK, Nobody, Open
<1>1. /\ Nobody(s)
      /\ call[q].pc # "release" /\ call[q].clean => resv[s] # "active"
      /\ call[q].pc = "close" /\ call[q].clean => ~ Open(s)
  BY DEF CleanerOK
<1>2. Nobody(s)' BY <1>1 DEF StaysFree
<1> QED BY <1>1, <1>2 DEF FlowsGo

\* A command that does not move keeps what it relies on.
LEMMA CallStays ==
  ASSUME Inv, TypeOK', NEW q \in Procs, call'[q] = call[q], FlowsGo, RunsGo, StaysFree,
         overtaken \subseteq overtaken'
  PROVE  CallOK(q)'
<1> DEFINE s == call[q].slot
<1>1. CallOK(q) /\ TypeOK BY DEF Inv
<1>2. call[q] \in CallType /\ call[q].view \in Checkpoints /\ call[q].run \in Runs
  BY <1>1, TypeParts DEF CallType
<1>3. call[q].view.last \in Slots \cup {NoSlot} BY <1>2 DEF Checkpoints
<1>4. \A t \in Slots : runs[t] \in Runs /\ runs'[t] \in Runs BY <1>1 DEF TypeOK
<1>5. \A t \in Slots : /\ runs[t].state \in {"none", "started"} \cup Ended
                       /\ runs[t].attempt \in Nat /\ runs'[t].attempt \in Nat
  BY <1>4 DEF Runs, MaxAttempts
<1>6. call[q].run.attempt \in Nat BY <1>2 DEF Runs, MaxAttempts
<1>7. call[q].pc \in OnRun => s \in Slots /\ runs[s].state # "none" BY <1>1 DEF CallOK
<1> HIDE DEF s
<1>8. call[q].pc \in OnRun /\ runs'[s].state = "started" =>
         /\ runs[s].state = "started" /\ runs'[s].attempt >= runs[s].attempt
         /\ call[q].run.attempt <= runs[s].attempt
  <2> SUFFICES ASSUME call[q].pc \in OnRun, runs'[s].state = "started"
               PROVE  /\ runs[s].state = "started" /\ runs'[s].attempt >= runs[s].attempt
                      /\ call[q].run.attempt <= runs[s].attempt
    OBVIOUS
  <2>1. runs[s].state \notin Ended BY <1>7 DEF RunsGo, Ended
  <2>2. runs[s].state = "started" BY <1>5, <1>7, <2>1
  <2> QED BY <1>1, <1>7, <2>2 DEF CallOK, RunsGo, s
<1>9. call[q].pc \in OnRun =>
         /\ s \in Slots /\ runs'[s].state # "none"
         /\ runs'[s].state = "started" => call[q].run.attempt <= runs'[s].attempt
  BY <1>5, <1>6, <1>7, <1>8 DEF RunsGo
<1>10. {"start", "bind", "reserve", "finish"} \subseteq OnRun BY DEF OnRun, Working
<1>11. /\ call[q].pc \in {"start", "bind", "reserve", "finish"} => flow'[s] # "none"
       /\ call[q].pc = "finish" => resv'[s] # "none"
  BY <1>1, <1>7, <1>10 DEF CallOK, FlowsGo, s
<1>12. call[q].pc = "claim" => PriorKept(call[q].view)'
  <2> SUFFICES ASSUME call[q].pc = "claim", call[q].view.last # NoSlot
               PROVE  /\ runs'[call[q].view.last].state \in Ended
                      /\ runs'[call[q].view.last].clean
                      /\ runs'[call[q].view.last].state = "materialized" =>
                            Quiet(call[q].view.last)'
    BY DEF PriorKept
  <2> DEFINE t == call[q].view.last
  <2>1. /\ t \in Slots /\ runs[t].state \in Ended /\ runs[t].clean
        /\ runs[t].state = "materialized" => Quiet(t)
    BY <1>1, <1>3 DEF CallOK, PriorKept
  <2>2. runs'[t] = runs[t] BY <2>1 DEF RunsGo
  <2>3. runs[t].state = "materialized" => flow[t] # "none" /\ resv[t] # "none"
    BY <2>1 DEF Inv, LeftOK
  <2>4. runs[t].state = "materialized" => ~ Open(t)' /\ resv'[t] # "active"
    BY <2>1, <2>3 DEF FlowsGo, Quiet
  <2>5. Quiet(call[q].view.last)' <=> ~ Open(t)' /\ resv'[t] # "active" BY DEF Quiet, Open
  <2> QED BY <2>1, <2>2, <2>4, <2>5
<1>13. CleanerOK(q)'
  <2> SUFFICES ASSUME call[q].pc \in AfterCleanup, RunFence(q)' PROVE CleanerOK(q)'
    BY DEF CleanerOK
  <2>1. call[q].pc \in OnRun BY DEF OnRun
  <2>2. runs'[s].state = "started" /\ runs'[s].attempt = call[q].run.attempt
    BY DEF RunFence, s
  <2>3. s \in Slots /\ s = call[q].slot BY <1>7, <2>1 DEF s
  <2>4. runs[s].state = "started" /\ runs'[s].attempt = runs[s].attempt
    BY <1>5, <1>6, <1>8, <2>1, <2>2, <2>3
  <2>5. RunFence(q) BY <2>2, <2>3, <2>4 DEF RunFence
  <2> QED BY <1>1, <2>3, <2>4, <2>5, CleanerStays DEF CallOK
<1> QED BY <1>9, <1>11, <1>12, <1>13 DEF CallOK, s

\* Of two runs the earlier one has ended.
LEMMA PairEnded ==
  ASSUME Inv, NEW s \in Slots, NEW t \in Slots, s < t, runs[s] # NoRun, runs[t] # NoRun
  PROVE  runs[s].state \in Ended
<1>1. TypeOK /\ ActiveIsStarted /\ SlotsPassOnce /\ StoryOK BY DEF Inv, TablesOK
<1>2. \A u \in Slots : runs[u] \in Runs BY <1>1 DEF TypeOK
<1>3. \A u \in Slots : runs[u].state \in {"none", "started"} \cup Ended BY <1>2 DEF Runs
<1>4. runs[s].state # "none" /\ runs[t].state # "none" BY <1>1 DEF StoryOK
<1>5. ASSUME runs[s].state = "started" PROVE FALSE
  <2>1. cp.active = s /\ s = cp.due
    BY <1>1, <1>5, SlotsAreTimes DEF ActiveIsStarted, StoryOK
  <2>2. runs[t].state # "started" BY <1>1, <2>1, SlotsAreTimes DEF ActiveIsStarted
  <2>3. t < cp.due BY <1>1, <1>3, <1>4, <2>2 DEF SlotsPassOnce
  <2> QED BY <2>1, <2>3, SlotsAreTimes
<1> QED BY <1>3, <1>4, <1>5

\* The tables stay and the ledgers go on.
LEMMA QuietStep ==
  ASSUME Inv, TypeOK', UNCHANGED <<cp, runs>>, overtaken \subseteq overtaken',
         FlowsGo, StaysFree, \A q \in Procs : CallOK(q)'
  PROVE  Inv'
<1>1. TablesOK /\ NoOverlap /\ UnprovenIsLast /\ LeftOK BY DEF Inv
<1>2. TablesOK' BY <1>1 DEF TablesOK, ActiveIsStarted, SlotsPassOnce, StoryOK
<1>3. UnprovenIsLast' BY <1>1 DEF UnprovenIsLast
<1>4. LeftOK'
  <2> SUFFICES ASSUME NEW s \in Slots
               PROVE  /\ runs[s].state = "materialized" => flow'[s] # "none" /\ resv'[s] # "none"
                      /\ runs[s].state \in Ended \ {"materialized"} /\ runs[s].clean
                         /\ s \notin overtaken' => Quiet(s)' /\ Nobody(s)'
    BY DEF LeftOK
  <2>1. runs[s].state = "materialized" => flow'[s] # "none" /\ resv'[s] # "none"
    BY <1>1 DEF LeftOK, FlowsGo
  <2>2. ASSUME runs[s].state \in Ended \ {"materialized"}, runs[s].clean, s \notin overtaken'
        PROVE  Quiet(s)' /\ Nobody(s)'
    <3>1. Quiet(s) /\ Nobody(s) BY <1>1, <2>2 DEF LeftOK
    <3>2. runs[s].state # "none" BY <2>2 DEF Ended
    <3> QED BY <3>1, <3>2 DEF FlowsGo, StaysFree, Quiet
  <2> QED BY <2>1, <2>2
<1>5. NoOverlap'
  <2> SUFFICES ASSUME NEW s \in Slots, NEW t \in Slots, s < t, runs[s] # NoRun, runs[t] # NoRun
               PROVE  Quiet(s)' \/ (s \in overtaken' /\ runs[s].state # "materialized")
    BY DEF NoOverlap
  <2>1. Quiet(s) \/ (s \in overtaken /\ runs[s].state # "materialized")
    BY <1>1 DEF NoOverlap
  <2>2. CASE s \in overtaken /\ runs[s].state # "materialized" BY <2>2
  <2>3. CASE Quiet(s) /\ runs[s].state = "materialized"
    BY <1>1, <2>3 DEF LeftOK, FlowsGo, Quiet
  <2>4. CASE Quiet(s) /\ runs[s].state # "materialized" /\ s \notin overtaken'
    <3>1. runs[s].state \in Ended /\ runs[s].clean BY <1>1, PairEnded DEF UnprovenIsLast
    <3>2. Nobody(s) BY <1>1, <2>4, <3>1 DEF LeftOK
    <3> QED BY <2>4, <3>2 DEF FlowsGo, Quiet
  <2>5. CASE Quiet(s) /\ runs[s].state # "materialized" /\ s \in overtaken' BY <2>5
  <2> QED BY <2>1, <2>2, <2>3, <2>4, <2>5
<1> QED BY <1>2, <1>3, <1>4, <1>5 DEF Inv

\* A step of one command that touches neither table: what it has to show.
LEMMA LocalStep ==
  ASSUME Inv, TypeOK', UNCHANGED <<cp, runs>>, overtaken \subseteq overtaken', FlowsGo,
         NEW p \in Procs, Others(p),
         call'[p].pc \in Working => call[p].pc \in Working /\ call'[p].slot = call[p].slot,
         CallOK(p)'
  PROVE  Inv'
<1>1. StaysFree BY FreeAfter DEF StaysFree
<1>2. RunsGo BY SameRuns
<1>3. \A q \in Procs \ {p} : call'[q] = call[q] BY DEF Others
<1>4. \A q \in Procs \ {p} : CallOK(q)' BY <1>1, <1>2, <1>3, CallStays
<1>5. \A q \in Procs : CallOK(q)' BY <1>4
<1> QED BY <1>1, <1>5, QuietStep

\* A step of the other services.
LEMMA EnvironmentStep ==
  ASSUME Inv, TypeOK', UNCHANGED <<cp, runs, call, overtaken>>, FlowsGo
  PROVE  Inv'
<1>1. StaysFree BY DEF StaysFree, Nobody
<1>2. RunsGo BY SameRuns
<1>3. \A q \in Procs : CallOK(q)' BY <1>1, <1>2, CallStays
<1> QED BY <1>1, <1>3, QuietStep

-----------------------------------------------------------------------------
(* The records of the commands *)

\* A command's record is replaced.
LEMMA CallSet ==
  ASSUME TypeOK, NEW p \in Procs, NEW c \in CallType, call' = [call EXCEPT ![p] = c]
  PROVE  call' \in [Procs -> CallType] /\ call'[p] = c /\ Others(p)
<1>1. call \in [Procs -> CallType] BY TypeParts
<1> QED BY <1>1 DEF Others

\* A command goes on: its step, what it saw, and whether it cleaned up.
LEMMA CallGoes ==
  ASSUME TypeOK, NEW p \in Procs, NEW pc \in Pcs, NEW clean \in BOOLEAN,
         NEW seen \in {"none", "planned", "running", "ended"},
         call' = [call EXCEPT ![p].pc = pc, ![p].clean = clean, ![p].seen = seen]
  PROVE  /\ call' \in [Procs -> CallType] /\ Others(p)
         /\ call'[p].pc = pc /\ call'[p].slot = call[p].slot /\ call'[p].clean = clean
         /\ call'[p].run = call[p].run /\ call'[p].view = call[p].view
<1>1. call \in [Procs -> CallType] BY TypeParts
<1>2. call[p] \in CallType BY <1>1
<1> DEFINE c == [call[p] EXCEPT !.pc = pc, !.clean = clean, !.seen = seen]
<1>3. /\ c \in CallType
      /\ c.pc = pc /\ c.slot = call[p].slot /\ c.clean = clean
      /\ c.run = call[p].run /\ c.view = call[p].view
  BY <1>2 DEF CallType
<1>4. call' = [call EXCEPT ![p] = c] BY <1>1
<1> HIDE DEF c
<1>5. call' \in [Procs -> CallType] /\ call'[p] = c /\ Others(p)
  BY <1>3, <1>4, CallSet
<1> QED BY <1>3, <1>5

\* Goto changes the step and nothing else.
LEMMA GotoGoes ==
  ASSUME TypeOK, NEW p \in Procs, NEW pc \in Pcs, Goto(p, pc)
  PROVE  /\ call' \in [Procs -> CallType] /\ Others(p)
         /\ call'[p].pc = pc /\ call'[p].slot = call[p].slot /\ call'[p].clean = call[p].clean
         /\ call'[p].run = call[p].run /\ call'[p].view = call[p].view
<1>1. call \in [Procs -> CallType] BY TypeParts
<1>2. call[p] \in CallType BY <1>1
<1>3. /\ call[p].clean \in BOOLEAN
      /\ call[p].seen \in {"none", "planned", "running", "ended"}
      /\ [call[p] EXCEPT !.pc = pc]
            = [call[p] EXCEPT !.pc = pc, !.clean = call[p].clean, !.seen = call[p].seen]
  BY <1>2 DEF CallType
<1>4. call' = [call EXCEPT ![p].pc = pc, ![p].clean = call[p].clean, ![p].seen = call[p].seen]
  BY <1>1, <1>3 DEF Goto
<1> HIDE DEF Goto
<1> QED BY <1>3, <1>4, CallGoes

\* A command that ended relies on nothing.
LEMMA LeaveGoes ==
  ASSUME TypeOK, NEW p \in Procs, Leave(p)
  PROVE  /\ call' \in [Procs -> CallType] /\ Others(p) /\ call'[p].pc = "idle"
         /\ CallOK(p)'
<1>1. call' \in [Procs -> CallType] /\ call'[p] = Idle /\ Others(p)
  BY IdleType, CallSet DEF Leave
<1>2. call'[p].pc = "idle" BY <1>1, IdleType
<1> QED BY <1>1, <1>2 DEF CallOK, CleanerOK, OnRun, AfterCleanup, Working

-----------------------------------------------------------------------------
(* Steps that touch neither table *)

\* Once a step, the types of what it changed.
LEMMA TypeStep ==
  ASSUME TypeOK, UNCHANGED <<cp, runs, clock, begun>>, call' \in [Procs -> CallType],
         LedgerType'
  PROVE  TypeOK'
  BY DEF TypeOK, LedgerType, CallType

LEMMA ReconMovesInv ==
  ASSUME Inv, NEW s \in Slots, ReconMoves(s)
  PROVE  Inv'
<1>1. TypeOK BY DEF Inv
<1>2. UNCHANGED <<cp, runs, call, overtaken, flow, resv, clock, begun>>
  BY DEF ReconMoves, ScheduleUnchanged
<1>3. LedgerType' BY <1>1, <1>2 DEF TypeOK, LedgerType, ReconMoves
<1>4. TypeOK' BY <1>1, <1>2, <1>3, TypeStep, TypeParts
<1> QED BY <1>2, <1>4, SameLedgers, EnvironmentStep

LEMMA FlowEndsInv ==
  ASSUME Inv, NEW s \in Slots, FlowEnds(s)
  PROVE  Inv'
<1>1. TypeOK BY DEF Inv
<1>2. /\ UNCHANGED <<cp, runs, call, overtaken, recon, resv, clock, begun>>
      /\ flow' = [flow EXCEPT ![s] = "ended"]
  BY DEF FlowEnds, ScheduleUnchanged
<1>3. LedgerType' BY <1>1, <1>2 DEF TypeOK, LedgerType
<1>4. TypeOK' BY <1>1, <1>2, <1>3, TypeStep, TypeParts
<1>5. FlowsGo BY <1>1, <1>2 DEF FlowsGo, Open, TypeOK
<1> QED BY <1>2, <1>4, <1>5, EnvironmentStep

LEMMA ReservationEndsInv ==
  ASSUME Inv, NEW s \in Slots, ReservationEnds(s)
  PROVE  Inv'
<1>1. TypeOK BY DEF Inv
<1>2. /\ UNCHANGED <<cp, runs, call, overtaken, recon, flow, clock, begun>>
      /\ resv' = [resv EXCEPT ![s] = "closed"]
  BY DEF ReservationEnds, ScheduleUnchanged
<1>3. LedgerType' BY <1>1, <1>2 DEF TypeOK, LedgerType
<1>4. TypeOK' BY <1>1, <1>2, <1>3, TypeStep, TypeParts
<1>5. FlowsGo BY <1>1, <1>2 DEF FlowsGo, Open, TypeOK
<1> QED BY <1>2, <1>4, <1>5, EnvironmentStep

\* A command starts with what it read.
LEMMA StartStep ==
  ASSUME Inv, NEW p \in Procs, NEW now \in clock..MaxClock, Command(now),
         ScheduleUnchanged, BelowUnchanged, NEW c \in CallType,
         call' = [call EXCEPT ![p] = c], c.pc \notin Working, CallOK(p)'
  PROVE  Inv'
<1>1. TypeOK BY DEF Inv
<1>2. UNCHANGED <<cp, runs, overtaken, flow, resv, recon>>
  BY DEF ScheduleUnchanged, BelowUnchanged
<1>3. clock' \in Nat /\ begun' \in 0..MaxCommands
  BY <1>1, TimeAssumption DEF Command, TypeOK
<1>4. call' \in [Procs -> CallType] /\ call'[p] = c /\ Others(p) BY <1>1, CallSet
<1>5. TypeOK' BY <1>1, <1>2, <1>3, <1>4 DEF TypeOK, CallType
<1>6. FlowsGo BY <1>2, SameLedgers
<1> QED BY <1>2, <1>4, <1>5, <1>6, LocalStep

\* A command that starts on no run.
LEMMA BeginInv ==
  ASSUME Inv, NEW p \in Procs, NEW now \in clock..MaxClock,
         NEW op \in {"trigger", "recover", "pause", "resume", "cancel", "expire"},
         NEW pc \in {"claim", "resume", "advance"}, Begin(p, op, pc, now),
         pc = "claim" => PriorKept(cp)
  PROVE  Inv'
<1>1. TypeOK BY DEF Inv
<1> DEFINE c == [Idle EXCEPT !.pc = pc, !.op = op, !.now = now, !.view = cp]
<1>2. now \in Nat BY <1>1, TimeAssumption DEF TypeOK
<1>3. c \in CallType /\ c.pc = pc /\ c.view = cp
  BY <1>1, <1>2, IdleType DEF CallType, Pcs, TypeOK
<1>4. /\ Command(now) /\ ScheduleUnchanged /\ BelowUnchanged
      /\ call' = [call EXCEPT ![p] = c]
  BY DEF Begin
<1> HIDE DEF c
<1>5. call'[p] = c BY <1>1, <1>3, <1>4, CallSet
<1>6. pc \notin OnRun /\ pc \notin {"start", "bind", "reserve", "finish"} /\ pc \notin AfterCleanup
      /\ pc \notin Working
  BY DEF OnRun, Working, AfterCleanup
<1>7. pc = "claim" => PriorKept(cp)'
  BY <1>4 DEF PriorKept, Quiet, Open, ScheduleUnchanged, BelowUnchanged
<1>8. CallOK(p)'
  <2>1. call'[p].pc = pc /\ call'[p].view = cp /\ cp' = cp
    BY <1>3, <1>4, <1>5 DEF ScheduleUnchanged
  <2>2. pc = "claim" => PriorKept(call[p].view)' BY <1>7, <2>1 DEF PriorKept, Quiet, Open
  <2>3. CleanerOK(p)' BY <1>6, <2>1 DEF CleanerOK
  <2> QED BY <1>6, <2>1, <2>2, <2>3 DEF CallOK
<1> QED BY <1>3, <1>4, <1>6, <1>8, StartStep

LEMMA TriggerReadInv ==
  ASSUME Inv, NEW p \in Procs, NEW now \in clock..MaxClock, TriggerRead(p, now)
  PROVE  Inv'
<1>1. PriorKept(cp) BY DEF TriggerRead, PriorRunClean, PriorKept, Inv, TablesOK, StoryOK
<1> QED BY <1>1, BeginInv DEF TriggerRead

LEMMA ResumePriorInv ==
  ASSUME Inv, NEW p \in Procs, NEW now \in clock..MaxClock, ResumePrior(p, now)
  PROVE  Inv'
  BY BeginInv DEF ResumePrior

LEMMA LifecycleReadInv ==
  ASSUME Inv, NEW p \in Procs, NEW now \in clock..MaxClock,
         NEW op \in {"pause", "cancel", "expire"}, LifecycleRead(p, op, now)
  PROVE  Inv'
  BY BeginInv DEF LifecycleRead

LEMMA RecoverReadInv ==
  ASSUME Inv, NEW p \in Procs, NEW now \in clock..MaxClock, RecoverRead(p, now)
  PROVE  Inv'
<1>1. TypeOK /\ ActiveIsStarted BY DEF Inv, TablesOK
<1> DEFINE s == cp.active
           pc == IF now >= runs[s].deadline THEN "cleanup" ELSE "take"
           c == [Idle EXCEPT !.op = "recover", !.now = now, !.view = cp, !.slot = s,
                             !.run = runs[s], !.pc = pc]
<1>2. s \in Slots BY <1>1 DEF RecoverRead, TypeOK, Checkpoints
<1>3. runs[s] \in Runs /\ cp \in Checkpoints BY <1>1, <1>2 DEF TypeOK
<1>4. now \in Nat BY <1>1, TimeAssumption DEF TypeOK
<1>5. pc \in {"cleanup", "take"} OBVIOUS
<1>6. /\ Command(now) /\ ScheduleUnchanged /\ BelowUnchanged
      /\ call' = [call EXCEPT ![p] = c]
  BY DEF RecoverRead
<1> HIDE DEF pc, s
<1>7. c \in CallType /\ c.pc = pc /\ c.slot = s /\ c.run = runs[s]
  BY <1>2, <1>3, <1>4, <1>5, IdleType DEF CallType, Pcs
<1> HIDE DEF c
<1>8. call'[p] = c BY <1>1, <1>6, <1>7, CallSet
<1>9. pc \notin {"start", "bind", "reserve", "finish", "claim"} /\ pc \notin AfterCleanup
      /\ pc \notin Working
  BY <1>5 DEF Working, AfterCleanup
<1>10. CallOK(p)'
  <2>1. call'[p].pc = pc /\ call'[p].slot = s /\ call'[p].run = runs[s] /\ runs' = runs
    BY <1>6, <1>7, <1>8 DEF ScheduleUnchanged
  <2>2. CleanerOK(p)' BY <1>9, <2>1 DEF CleanerOK
  <2>3. runs[s].state # "none" BY <1>1, <1>2 DEF ActiveIsStarted, s
  <2>4. runs[s].attempt <= runs[s].attempt BY <1>3 DEF Runs, MaxAttempts
  <2> QED BY <1>2, <1>9, <2>1, <2>2, <2>3, <2>4 DEF CallOK
<1> QED BY <1>6, <1>7, <1>9, <1>10, StartStep

\* Steps outside any cleanup rely on no proof of one.
LEMMA NotCleaning ==
  ASSUME NEW p \in Procs, call'[p].pc \notin AfterCleanup
  PROVE  CleanerOK(p)'
  BY DEF CleanerOK

\* A command goes on working on its run.
LEMMA OnRunStays ==
  ASSUME Inv, NEW p \in Procs, call[p].pc \in OnRun, UNCHANGED runs,
         call'[p].slot = call[p].slot, call'[p].run = call[p].run
  PROVE  /\ call'[p].slot \in Slots /\ runs'[call'[p].slot].state # "none"
         /\ runs'[call'[p].slot].state = "started" =>
               call'[p].run.attempt <= runs'[call'[p].slot].attempt
  BY DEF Inv, CallOK

LEMMA EndInv ==
  ASSUME Inv, NEW p \in Procs, End(p)
  PROVE  Inv'
<1>1. TypeOK BY DEF Inv
<1>2. /\ UNCHANGED <<cp, runs, overtaken, flow, resv, recon, clock, begun>>
      /\ Leave(p)
  BY DEF End, ScheduleUnchanged, BelowUnchanged
<1>3. /\ call' \in [Procs -> CallType] /\ Others(p) /\ call'[p].pc = "idle" /\ CallOK(p)'
  BY <1>1, <1>2, LeaveGoes
<1>4. TypeOK' BY <1>1, <1>2, <1>3, TypeStep, TypeParts DEF LedgerType
<1>5. FlowsGo BY <1>2, SameLedgers
<1> QED BY <1>2, <1>3, <1>4, <1>5, LocalStep DEF Working

LEMMA ResumeReadInv ==
  ASSUME Inv, NEW p \in Procs, ResumeRead(p)
  PROVE  Inv'
<1>1. TypeOK BY DEF Inv
<1>2. UNCHANGED <<cp, runs, overtaken, flow, resv, recon, clock, begun>>
  BY DEF ResumeRead, ScheduleUnchanged, BelowUnchanged
<1> DEFINE c == [call[p] EXCEPT !.pc = "advance", !.view = cp]
<1>3. c \in CallType /\ c.pc = "advance" BY <1>1, TypeParts DEF CallType, Pcs
<1>4. call' = [call EXCEPT ![p] = c] BY <1>1, TypeParts DEF ResumeRead
<1> HIDE DEF c
<1>5. call' \in [Procs -> CallType] /\ call'[p] = c /\ Others(p) BY <1>1, <1>3, <1>4, CallSet
<1>6. TypeOK' BY <1>1, <1>2, <1>5, TypeStep, TypeParts DEF LedgerType
<1>7. FlowsGo BY <1>2, SameLedgers
<1>8. CallOK(p)'
  BY <1>3, <1>5, NotCleaning DEF CallOK, OnRun, AfterCleanup, Working
<1> QED BY <1>2, <1>3, <1>5, <1>6, <1>7, <1>8, LocalStep DEF Working

LEMMA CreateFlowInv ==
  ASSUME Inv, NEW p \in Procs, CreateFlow(p)
  PROVE  Inv'
<1> DEFINE s == call[p].slot
           pc == IF flow'[s] = "planned" THEN "start" ELSE "bind"
<1>1. TypeOK /\ CallOK(p) BY DEF Inv
<1>2. call[p].pc = "create" /\ call[p].pc \in OnRun /\ call[p].pc \in Working
  BY DEF CreateFlow, OnRun, Working
<1>3. s \in Slots BY <1>1, <1>2 DEF CallOK
<1>4. /\ UNCHANGED <<cp, runs, overtaken, resv, recon, clock, begun>>
      /\ flow' = [flow EXCEPT ![s] = IF @ = "none" THEN "planned" ELSE @]
      /\ Goto(p, pc)
  BY DEF CreateFlow, ScheduleUnchanged
<1>5. pc \in {"start", "bind"} OBVIOUS
<1> HIDE DEF pc, s
<1>6. /\ call' \in [Procs -> CallType] /\ Others(p)
      /\ call'[p].pc = pc /\ call'[p].slot = call[p].slot /\ call'[p].run = call[p].run
  BY <1>1, <1>4, <1>5, GotoGoes DEF Pcs, Working
<1>7. flow \in [Slots -> {"none", "planned", "running", "ended"}] BY <1>1 DEF TypeOK
<1>8. LedgerType' BY <1>1, <1>3, <1>4, <1>7 DEF TypeOK, LedgerType
<1>9. TypeOK' BY <1>1, <1>4, <1>6, <1>8, TypeStep
<1>10. ~ Nobody(s) BY <1>2 DEF Nobody, s
<1>11. FlowsGo BY <1>3, <1>4, <1>7, <1>10 DEF FlowsGo, Open
<1>12. flow'[s] # "none" BY <1>3, <1>4, <1>7
<1>13. CallOK(p)'
  <2>1. flow'[call'[p].slot] # "none" BY <1>6, <1>12 DEF s
  <2>2. CleanerOK(p)' BY <1>5, <1>6, NotCleaning DEF AfterCleanup
  <2> QED BY <1>2, <1>4, <1>5, <1>6, <2>1, <2>2, OnRunStays DEF CallOK
<1> QED BY <1>2, <1>4, <1>6, <1>9, <1>11, <1>13, LocalStep

LEMMA StartFlowInv ==
  ASSUME Inv, NEW p \in Procs, StartFlow(p)
  PROVE  Inv'
<1> DEFINE s == call[p].slot
<1>1. TypeOK /\ CallOK(p) BY DEF Inv
<1>2. call[p].pc = "start" /\ call[p].pc \in OnRun /\ call[p].pc \in Working
  BY DEF StartFlow, OnRun, Working
<1>3. s \in Slots BY <1>1, <1>2 DEF CallOK
<1>4. /\ UNCHANGED <<cp, runs, overtaken, resv, recon, clock, begun>>
      /\ flow[s] = "planned" /\ flow' = [flow EXCEPT ![s] = "running"]
      /\ Goto(p, "bind")
  BY DEF StartFlow, ScheduleUnchanged
<1> HIDE DEF s
<1>6. /\ call' \in [Procs -> CallType] /\ Others(p)
      /\ call'[p].pc = "bind" /\ call'[p].slot = call[p].slot /\ call'[p].run = call[p].run
  BY <1>1, <1>4, GotoGoes DEF Pcs, Working
<1>7. flow \in [Slots -> {"none", "planned", "running", "ended"}] BY <1>1 DEF TypeOK
<1>8. LedgerType' BY <1>1, <1>3, <1>4, <1>7 DEF TypeOK, LedgerType
<1>9. TypeOK' BY <1>1, <1>4, <1>6, <1>8, TypeStep
<1>11. FlowsGo BY <1>3, <1>4, <1>7 DEF FlowsGo, Open
<1>12. flow'[s] # "none" BY <1>3, <1>4, <1>7
<1>13. CallOK(p)'
  <2>1. flow'[call'[p].slot] # "none" BY <1>6, <1>12 DEF s
  <2>2. CleanerOK(p)' BY <1>6, NotCleaning DEF AfterCleanup
  <2> QED BY <1>2, <1>4, <1>6, <2>1, <2>2, OnRunStays DEF CallOK
<1> QED BY <1>2, <1>4, <1>6, <1>9, <1>11, <1>13, LocalStep

LEMMA BindFlowInv ==
  ASSUME Inv, NEW p \in Procs, BindFlow(p)
  PROVE  Inv'
<1>1. TypeOK /\ CallOK(p) BY DEF Inv
<1>2. call[p].pc = "bind" /\ call[p].pc \in OnRun /\ call[p].pc \in Working
  BY DEF BindFlow, OnRun, Working
<1>4. /\ UNCHANGED <<cp, runs, overtaken, flow, resv, recon, clock, begun>>
      /\ Goto(p, "reserve") /\ flow[call[p].slot] = "running"
  BY DEF BindFlow, ScheduleUnchanged, BelowUnchanged
<1>6. /\ call' \in [Procs -> CallType] /\ Others(p)
      /\ call'[p].pc = "reserve" /\ call'[p].slot = call[p].slot /\ call'[p].run = call[p].run
  BY <1>1, <1>4, GotoGoes DEF Pcs, Working
<1>9. TypeOK' BY <1>1, <1>4, <1>6, TypeStep, TypeParts DEF LedgerType
<1>11. FlowsGo BY <1>4, SameLedgers
<1>13. CallOK(p)'
  <2>2. CleanerOK(p)' BY <1>6, NotCleaning DEF AfterCleanup
  <2> QED BY <1>2, <1>4, <1>6, <2>2, OnRunStays DEF CallOK
<1> QED BY <1>2, <1>4, <1>6, <1>9, <1>11, <1>13, LocalStep

LEMMA ReserveInv ==
  ASSUME Inv, NEW p \in Procs, Reserve(p)
  PROVE  Inv'
<1> DEFINE s == call[p].slot
<1>1. TypeOK /\ CallOK(p) BY DEF Inv
<1>2. call[p].pc = "reserve" /\ call[p].pc \in OnRun /\ call[p].pc \in Working
  BY DEF Reserve, OnRun, Working
<1>3. s \in Slots /\ flow[s] # "none" BY <1>1, <1>2 DEF CallOK
<1>4. /\ UNCHANGED <<cp, runs, overtaken, flow, recon, clock, begun>>
      /\ resv' = [resv EXCEPT ![s] = IF @ = "none" THEN "active" ELSE @]
      /\ Goto(p, "finish")
  BY DEF Reserve, ScheduleUnchanged
<1> HIDE DEF s
<1>6. /\ call' \in [Procs -> CallType] /\ Others(p)
      /\ call'[p].pc = "finish" /\ call'[p].slot = call[p].slot /\ call'[p].run = call[p].run
  BY <1>1, <1>4, GotoGoes DEF Pcs, Working
<1>7. resv \in [Slots -> {"none", "active", "closed"}] BY <1>1 DEF TypeOK
<1>8. LedgerType' BY <1>1, <1>3, <1>4, <1>7 DEF TypeOK, LedgerType
<1>9. TypeOK' BY <1>1, <1>4, <1>6, <1>8, TypeStep
<1>10. ~ Nobody(s) BY <1>2 DEF Nobody, s
<1>11. FlowsGo BY <1>3, <1>4, <1>7, <1>10 DEF FlowsGo, Open
<1>12. flow'[s] # "none" /\ resv'[s] # "none" BY <1>3, <1>4, <1>7
<1>13. CallOK(p)'
  <2>1. flow'[call'[p].slot] # "none" /\ resv'[call'[p].slot] # "none" BY <1>6, <1>12 DEF s
  <2>2. CleanerOK(p)' BY <1>6, NotCleaning DEF AfterCleanup
  <2> QED BY <1>2, <1>4, <1>6, <2>1, <2>2, OnRunStays DEF CallOK
<1> QED BY <1>2, <1>4, <1>6, <1>9, <1>11, <1>13, LocalStep DEF Working

LEMMA InterruptedInv ==
  ASSUME Inv, NEW p \in Procs, Interrupted(p)
  PROVE  Inv'
<1>1. TypeOK /\ CallOK(p) BY DEF Inv
<1>2. call[p].pc \in OnRun BY DEF Interrupted, OnRun
<1>3. UNCHANGED <<cp, runs, overtaken, flow, resv, recon, clock, begun>>
  BY DEF Interrupted, ScheduleUnchanged, BelowUnchanged
<1>4. FlowsGo BY <1>3, SameLedgers
<1>5. CASE Leave(p)
  <2>1. call' \in [Procs -> CallType] /\ Others(p) /\ call'[p].pc = "idle" /\ CallOK(p)'
    BY <1>1, <1>5, LeaveGoes
  <2>2. TypeOK' BY <1>1, <1>3, <2>1, TypeStep, TypeParts DEF LedgerType
  <2> QED BY <1>3, <1>4, <2>1, <2>2, LocalStep DEF Working
<1>6. CASE Goto(p, "cleanup")
  <2>1. /\ call' \in [Procs -> CallType] /\ Others(p)
        /\ call'[p].pc = "cleanup" /\ call'[p].slot = call[p].slot
        /\ call'[p].run = call[p].run
    BY <1>1, <1>6, GotoGoes DEF Pcs
  <2>2. TypeOK' BY <1>1, <1>3, <2>1, TypeStep, TypeParts DEF LedgerType
  <2>3. CleanerOK(p)' BY <2>1, NotCleaning DEF AfterCleanup
  <2>4. CallOK(p)' BY <1>2, <1>3, <2>1, <2>3, OnRunStays DEF CallOK
  <2> QED BY <1>3, <1>4, <2>1, <2>2, <2>4, LocalStep DEF Working
<1> QED BY <1>5, <1>6 DEF Interrupted

\* A cleanup goes on: it has only to show that it proved what it says.
LEMMA CleanupGoes ==
  ASSUME Inv, TypeOK', NEW p \in Procs, NEW s \in Slots, UNCHANGED <<cp, runs>>,
         overtaken \subseteq overtaken', FlowsGo, Others(p),
         call[p].pc \in {"cleanup"} \cup AfterCleanup, call[p].slot = s,
         call'[p].slot = s, call'[p].run = call[p].run, call'[p].pc \in AfterCleanup,
         call[p].pc = "cleanup" /\ s \notin overtaken' => Nobody(s)',
         RunFence(p) /\ s \notin overtaken' /\ call'[p].clean =>
            /\ call'[p].pc # "release" => resv'[s] # "active"
            /\ call'[p].pc = "close" => ~ Open(s)'
  PROVE  Inv'
<1>1. call[p].pc \in OnRun BY DEF OnRun
<1>2. call'[p].pc \notin Working BY DEF AfterCleanup, Working
<1>3. Nobody(s) => Nobody(s)' BY <1>2, FreeAfter
<1>4. call[p].pc \in AfterCleanup /\ RunFence(p) /\ s \notin overtaken => Nobody(s)
  BY DEF Inv, CallOK, CleanerOK
<1>5. RunFence(p)' <=> RunFence(p) BY DEF RunFence
<1>6. RunFence(p) /\ s \notin overtaken' => Nobody(s)'
  BY <1>3, <1>4
<1>7. CleanerOK(p)'
  <2> SUFFICES ASSUME RunFence(p)', s \notin overtaken'
               PROVE  /\ Nobody(s)'
                      /\ call'[p].pc # "release" /\ call'[p].clean => resv'[s] # "active"
                      /\ call'[p].pc = "close" /\ call'[p].clean => ~ Open(s)'
    BY DEF CleanerOK, Nobody, Open
  <2> QED BY <1>5, <1>6
<1>8. CallOK(p)'
  BY <1>1, <1>7, OnRunStays DEF CallOK, AfterCleanup
<1> QED BY <1>2, <1>8, LocalStep

\* What a cleanup has proved so far.
LEMMA CleanupKnows ==
  ASSUME Inv, NEW p \in Procs, NEW s \in Slots, call[p].slot = s, call[p].pc \in AfterCleanup,
         RunFence(p), s \notin overtaken
  PROVE  /\ call[p].pc # "release" /\ call[p].clean => resv[s] # "active"
         /\ call[p].pc = "close" /\ call[p].clean => ~ Open(s)
  BY DEF Inv, CallOK, CleanerOK

\* The slot of a command that works on a run.
LEMMA OnRunSlot ==
  ASSUME Inv, NEW p \in Procs, call[p].pc \in OnRun
  PROVE  call[p].slot \in Slots
  BY DEF Inv, CallOK

LEMMA CleanReservationInv ==
  ASSUME Inv, NEW p \in Procs, CleanReservation(p)
  PROVE  Inv'
<1> SUFFICES ASSUME NEW s \in Slots, call[p].slot = s PROVE Inv'
  BY OnRunSlot DEF CleanReservation, OnRun
<1> DEFINE pc == IF resv[s] = "active" /\ recon[s] # "started" THEN "release" ELSE "clean_flow"
           clean == ~(resv[s] # "none" /\ recon[s] = "started")
<1>1. TypeOK BY DEF Inv
<1>2. /\ UNCHANGED <<cp, runs, flow, resv, recon, clock, begun>>
      /\ overtaken' = IF \E q \in Procs \ {p} : call[q].slot = s /\ call[q].pc \in Working
                      THEN overtaken \cup {s} ELSE overtaken
      /\ call' = [call EXCEPT ![p].pc = pc, ![p].clean = clean]
      /\ call[p].pc = "cleanup"
  BY DEF CleanReservation, BelowUnchanged
<1>3. /\ pc \in Pcs /\ (pc = "release" \/ pc = "clean_flow")
      /\ clean \in BOOLEAN
      /\ pc # "release" /\ clean => resv[s] # "active"
  BY DEF Pcs
<1> HIDE DEF pc, clean
<1>4. call \in [Procs -> CallType] /\ call[p] \in CallType /\ call[p].seen \in {"none", "planned", "running", "ended"}
  BY <1>1, TypeParts DEF CallType
<1>5. call' = [call EXCEPT ![p].pc = pc, ![p].clean = clean, ![p].seen = call[p].seen]
  BY <1>2, <1>4 DEF CallType
<1>6. /\ call' \in [Procs -> CallType] /\ Others(p)
      /\ call'[p].pc = pc /\ call'[p].slot = s /\ call'[p].clean = clean
      /\ call'[p].run = call[p].run
  BY <1>1, <1>3, <1>4, <1>5, CallGoes
<1>7. overtaken \subseteq overtaken' /\ overtaken' \subseteq Slots BY <1>1, <1>2 DEF TypeOK
<1>8. TypeOK' BY <1>1, <1>2, <1>6, <1>7, TypeStep, TypeParts DEF LedgerType
<1>9. FlowsGo BY <1>2, SameLedgers
<1>10. s \notin overtaken' => Nobody(s)'
  <2> SUFFICES ASSUME s \notin overtaken', NEW q \in Procs, call'[q].slot = s
               PROVE  call'[q].pc \notin Working
    BY DEF Nobody
  <2>1. CASE q = p BY <1>3, <1>6, <2>1 DEF Working
  <2>2. CASE q # p
    <3>1. call'[q] = call[q] BY <1>6, <2>2 DEF Others
    <3>2. \A r \in Procs \ {p} : call[r].slot = s => call[r].pc \notin Working BY <1>2
    <3> QED BY <2>2, <3>1, <3>2
  <2> QED BY <2>1, <2>2
<1>11. call'[p].pc \in AfterCleanup /\ call'[p].pc # "close"
  BY <1>3, <1>6 DEF AfterCleanup
<1>12. call'[p].clean => /\ call'[p].pc # "release" => resv'[s] # "active"
                         /\ call'[p].pc = "close" => ~ Open(s)'
  BY <1>2, <1>3, <1>6, <1>11
<1> HIDE DEF CleanReservation
<1> QED BY <1>2, <1>6, <1>7, <1>8, <1>9, <1>10, <1>11, <1>12, CleanupGoes

LEMMA ReleaseReservationInv ==
  ASSUME Inv, NEW p \in Procs, ReleaseReservation(p)
  PROVE  Inv'
<1> SUFFICES ASSUME NEW s \in Slots, call[p].slot = s PROVE Inv'
  BY OnRunSlot DEF ReleaseReservation, OnRun, AfterCleanup
<1>1. TypeOK BY DEF Inv
<1>2. /\ UNCHANGED <<cp, runs, overtaken, flow, recon, clock, begun>>
      /\ call[p].pc = "release"
  BY DEF ReleaseReservation, ScheduleUnchanged
<1>3. /\ call \in [Procs -> CallType] /\ call[p] \in CallType
      /\ call[p].seen \in {"none", "planned", "running", "ended"}
      /\ resv \in [Slots -> {"none", "active", "closed"}]
  BY <1>1, TypeParts DEF CallType, LedgerType
<1>4. /\ resv' \in [Slots -> {"none", "active", "closed"}] /\ FlowsGo
      /\ resv' # resv => resv'[s] # "active"
  BY <1>2, <1>3 DEF ReleaseReservation, FlowsGo, Open
<1>5. /\ call' \in [Procs -> CallType] /\ Others(p)
      /\ call'[p].pc = "clean_flow" /\ call'[p].slot = s /\ call'[p].run = call[p].run
      /\ call'[p].clean => resv'[s] # "active"
  <2>1. CASE Goto(p, "clean_flow") /\ resv'[s] # "active"
    BY <1>1, <2>1, GotoGoes DEF Pcs
  <2>2. CASE call' = [call EXCEPT ![p].pc = "clean_flow", ![p].clean = FALSE]
    <3>1. call' = [call EXCEPT ![p].pc = "clean_flow", ![p].clean = FALSE,
                               ![p].seen = call[p].seen]
      BY <1>3, <2>2 DEF CallType
    <3> QED BY <1>1, <1>3, <3>1, CallGoes DEF Pcs
  <2>3. \/ Goto(p, "clean_flow") /\ resv'[s] # "active"
        \/ call' = [call EXCEPT ![p].pc = "clean_flow", ![p].clean = FALSE]
    BY <1>3 DEF ReleaseReservation
  <2> QED BY <2>1, <2>2, <2>3
<1>6. TypeOK' BY <1>1, <1>2, <1>4, <1>5, TypeStep DEF LedgerType, TypeOK
<1>7. call[p].pc \in AfterCleanup /\ call'[p].pc \in AfterCleanup BY <1>2, <1>5 DEF AfterCleanup
<1> QED BY <1>2, <1>4, <1>5, <1>6, <1>7, CleanupGoes

LEMMA CleanFlowInv ==
  ASSUME Inv, NEW p \in Procs, CleanFlow(p)
  PROVE  Inv'
<1> SUFFICES ASSUME NEW s \in Slots, call[p].slot = s PROVE Inv'
  BY OnRunSlot DEF CleanFlow, OnRun, AfterCleanup
<1> DEFINE pc == IF Open(s) THEN "cancel_flow" ELSE "close"
           clean == call[p].clean
<1>1. TypeOK BY DEF Inv
<1>2. /\ UNCHANGED <<cp, runs, overtaken, flow, resv, recon, clock, begun>>
      /\ call[p].pc = "clean_flow"
      /\ call' = [call EXCEPT ![p].seen = flow[s], ![p].pc = pc]
  BY DEF CleanFlow, ScheduleUnchanged, BelowUnchanged
<1>3. pc \in Pcs /\ (pc = "cancel_flow" \/ pc = "close") BY DEF Pcs
<1>11. pc = "close" => ~ Open(s) OBVIOUS
<1> HIDE DEF pc
<1>4. /\ call \in [Procs -> CallType] /\ call[p] \in CallType /\ clean \in BOOLEAN
      /\ flow[s] \in {"none", "planned", "running", "ended"}
  BY <1>1, TypeParts DEF CallType, LedgerType
<1>5. call' = [call EXCEPT ![p].pc = pc, ![p].clean = clean, ![p].seen = flow[s]]
  BY <1>2, <1>4 DEF CallType
<1> HIDE DEF clean
<1>6. /\ call' \in [Procs -> CallType] /\ Others(p)
      /\ call'[p].pc = pc /\ call'[p].slot = s /\ call'[p].clean = clean
      /\ call'[p].run = call[p].run
  <2> DEFINE seen == flow[s]
  <2>1. seen \in {"none", "planned", "running", "ended"} BY <1>4
  <2>2. call' = [call EXCEPT ![p].pc = pc, ![p].clean = clean, ![p].seen = seen] BY <1>5
  <2> HIDE DEF seen
  <2> QED BY <1>1, <1>3, <1>4, <2>1, <2>2, CallGoes
<1>7. TypeOK' BY <1>1, <1>2, <1>6, TypeStep, TypeParts DEF LedgerType
<1>8. FlowsGo BY <1>2, SameLedgers
<1>9. call[p].pc \in AfterCleanup /\ call'[p].pc \in AfterCleanup
  BY <1>2, <1>3, <1>6 DEF AfterCleanup
<1>10. RunFence(p) /\ s \notin overtaken' /\ call'[p].clean =>
          resv'[s] # "active" /\ (call'[p].pc = "close" => ~ Open(s)')
  BY <1>2, <1>6, <1>9, <1>11, CleanupKnows DEF Open, clean
<1> QED BY <1>2, <1>6, <1>7, <1>8, <1>9, <1>10, CleanupGoes

LEMMA CancelFlowInv ==
  ASSUME Inv, NEW p \in Procs, CancelFlow(p)
  PROVE  Inv'
<1> SUFFICES ASSUME NEW s \in Slots, call[p].slot = s PROVE Inv'
  BY OnRunSlot DEF CancelFlow, OnRun, AfterCleanup
<1>1. TypeOK BY DEF Inv
<1>2. /\ UNCHANGED <<cp, runs, overtaken, resv, recon, clock, begun>>
      /\ call[p].pc = "cancel_flow"
  BY DEF CancelFlow, ScheduleUnchanged
<1>3. /\ call \in [Procs -> CallType] /\ call[p] \in CallType
      /\ call[p].seen \in {"none", "planned", "running", "ended"}
      /\ flow \in [Slots -> {"none", "planned", "running", "ended"}]
  BY <1>1, TypeParts DEF CallType, LedgerType
<1>4. flow' \in [Slots -> {"none", "planned", "running", "ended"}] /\ FlowsGo
  BY <1>2, <1>3 DEF CancelFlow, FlowsGo, Open
<1>5. /\ call' \in [Procs -> CallType] /\ Others(p)
      /\ call'[p].pc = "close" /\ call'[p].slot = s /\ call'[p].run = call[p].run
      /\ call'[p].clean => call[p].clean /\ flow'[s] = "ended"
  <2>1. CASE Goto(p, "close") /\ flow'[s] = "ended"
    BY <1>1, <2>1, GotoGoes DEF Pcs
  <2>2. CASE call' = [call EXCEPT ![p].pc = "close", ![p].clean = FALSE]
    <3>1. call' = [call EXCEPT ![p].pc = "close", ![p].clean = FALSE,
                               ![p].seen = call[p].seen]
      BY <1>3, <2>2 DEF CallType
    <3> QED BY <1>1, <1>3, <3>1, CallGoes DEF Pcs
  <2>3. \/ Goto(p, "close") /\ flow'[s] = "ended"
        \/ call' = [call EXCEPT ![p].pc = "close", ![p].clean = FALSE]
    BY <1>3 DEF CancelFlow
  <2> QED BY <2>1, <2>2, <2>3
<1>6. TypeOK' BY <1>1, <1>2, <1>4, <1>5, TypeStep DEF LedgerType, TypeOK
<1>7. call[p].pc \in AfterCleanup /\ call'[p].pc \in AfterCleanup BY <1>2, <1>5 DEF AfterCleanup
<1>8. RunFence(p) /\ s \notin overtaken' /\ call'[p].clean =>
         resv'[s] # "active" /\ ~ Open(s)'
  BY <1>2, <1>5, <1>7, CleanupKnows DEF Open
<1> QED BY <1>2, <1>4, <1>5, <1>6, <1>7, <1>8, CleanupGoes

-----------------------------------------------------------------------------
(* Steps that write the tables *)

\* Such a step leaves the ledgers below and the other commands alone.
LEMMA OthersStay ==
  ASSUME Inv, TypeOK', UNCHANGED <<flow, resv, overtaken>>, NEW p \in Procs, Others(p),
         RunsGo, StaysFree, CallOK(p)'
  PROVE  \A q \in Procs : CallOK(q)'
<1>1. FlowsGo BY SameLedgers
<1>2. \A q \in Procs \ {p} : call'[q] = call[q] BY DEF Others
<1>3. \A q \in Procs \ {p} : CallOK(q)' BY <1>1, <1>2, CallStays
<1> QED BY <1>3

\* The types of what a claim writes.
LEMMA ClaimTypes ==
  ASSUME NEW c \in Checkpoints, c.due \in Slots, NEW now \in Nat
  PROVE  /\ Claimed(c, now) \in Checkpoints
         /\ Claimed(c, now).active = c.due /\ Claimed(c, now).due = c.due
         /\ Claimed(c, now).last = c.last /\ Claimed(c, now).state = c.state
         /\ NewRun(now) \in Runs
         /\ NewRun(now).state = "started" /\ NewRun(now).attempt = 1
<1>1. now + RunTtl \in Nat /\ ActiveUntil \in Nat BY TimeAssumption
<1>2. c.revision + 1 \in Nat BY DEF Checkpoints
<1>3. /\ Advanced(c, now) \in Checkpoints
      /\ Advanced(c, now).due = c.due /\ Advanced(c, now).last = c.last
      /\ Advanced(c, now).state = c.state
  BY <1>2 DEF Advanced, Checkpoints
<1>4. /\ Claimed(c, now) \in Checkpoints /\ Claimed(c, now).active = c.due
      /\ Claimed(c, now).due = c.due /\ Claimed(c, now).last = c.last
      /\ Claimed(c, now).state = c.state
  BY <1>3 DEF Claimed, Checkpoints
<1>5. NewRun(now).deadline \in Nat BY <1>1 DEF NewRun
<1>6. NewRun(now) \in Runs BY <1>5 DEF NewRun, Runs, MaxAttempts
<1> QED BY <1>4, <1>6 DEF NewRun

\* The tables after slot s was claimed.
LEMMA ClaimTables ==
  ASSUME Inv, NEW s \in Slots, NEW r, cp.active = NoSlot, cp.due = s, cp.state = "active",
         runs[s] = NoRun, r.state = "started",
         runs' = [runs EXCEPT ![s] = r],
         cp'.active = s, cp'.due = s, cp'.last = cp.last, cp'.state = "active"
  PROVE  TablesOK'
<1>1. TypeOK /\ ActiveIsStarted /\ SlotsPassOnce /\ StoryOK BY DEF Inv, TablesOK
<1>2. runs \in [Slots -> Runs] /\ cp.last \in Slots \cup {NoSlot} BY <1>1 DEF TypeOK, Checkpoints
<1>3. \A t \in Slots : runs'[t] = IF t = s THEN r ELSE runs[t] BY <1>2
<1>4. r.state \notin Ended /\ r.state # "none" BY DEF Ended
<1>5. ActiveIsStarted'
  <2>1. \A t \in Slots : runs[t].state # "started" BY <1>1, SlotsAreTimes DEF ActiveIsStarted
  <2> QED BY <1>3, <2>1 DEF ActiveIsStarted
<1>6. SlotsPassOnce' BY <1>1, <1>3, <1>4 DEF SlotsPassOnce
<1>7. StoryOK'
  <2>1. cp.last # NoSlot => cp.last # s /\ cp.last \in Slots
    BY <1>1, <1>2, NoRunType DEF StoryOK, Ended
  <2> QED BY <1>1, <1>3, <1>4, <2>1 DEF StoryOK
<1> QED BY <1>5, <1>6, <1>7 DEF TablesOK

\* Everything before a slot that may be claimed is over.
LEMMA ClaimedIsFirst ==
  ASSUME Inv, PriorKept(cp), cp.active = NoSlot,
         NEW t \in Slots, runs[t] # NoRun
  PROVE  /\ t < cp.due /\ runs[t].clean
         /\ Quiet(t) \/ (t \in overtaken /\ runs[t].state # "materialized")
<1>1. TypeOK /\ ActiveIsStarted /\ SlotsPassOnce /\ StoryOK BY DEF Inv, TablesOK
<1>2. runs[t] \in Runs /\ cp.last \in Slots \cup {NoSlot} BY <1>1 DEF TypeOK, Checkpoints
<1>3. runs[t].state # "started" BY <1>1, SlotsAreTimes DEF ActiveIsStarted
<1>4. runs[t].state \in Ended BY <1>1, <1>2, <1>3 DEF StoryOK, Runs
<1>5. t < cp.due /\ t <= cp.last BY <1>1, <1>4 DEF SlotsPassOnce, StoryOK
<1>6. cp.last \in Slots /\ cp.last # NoSlot
  BY <1>2, <1>5, SlotsAreTimes DEF NoSlot
<1>7. /\ runs[cp.last].state \in Ended /\ runs[cp.last].clean
      /\ runs[cp.last].state = "materialized" => Quiet(cp.last)
  BY <1>6 DEF PriorKept
<1>8. CASE t = cp.last
  BY <1>4, <1>5, <1>7, <1>8 DEF Inv, LeftOK
<1>9. CASE t # cp.last
  <2>1. t < cp.last BY <1>5, <1>6, <1>9, SlotsAreTimes
  <2>2. runs[cp.last] # NoRun BY <1>7, NoRunType DEF Ended
  <2> QED BY <1>4, <1>5, <1>6, <2>1, <2>2 DEF Inv, NoOverlap, UnprovenIsLast
<1> QED BY <1>8, <1>9

LEMMA ClaimInv ==
  ASSUME Inv, NEW p \in Procs, Claim(p)
  PROVE  Inv'
<1>1. TypeOK /\ TablesOK /\ NoOverlap /\ UnprovenIsLast /\ LeftOK /\ CallOK(p) BY DEF Inv
<1> DEFINE s == cp.due
           now == call[p].now
           r == NewRun(now)
           d == Claimed(cp, now)
           c == [call[p] EXCEPT !.pc = "create", !.view = d, !.slot = s, !.run = r]
<1>2. /\ call[p].pc = "claim" /\ call[p].view = cp
      /\ cp.state = "active" /\ cp.active = NoSlot /\ s <= now /\ now < ActiveUntil
      /\ runs[s] = NoRun
  BY DEF Claim, AssertLatest, Current
<1>3. /\ cp \in Checkpoints /\ runs \in [Slots -> Runs] /\ call[p] \in CallType
      /\ call \in [Procs -> CallType] /\ now \in Nat
  BY <1>1, TypeParts DEF CallType
<1>4. s \in Slots BY <1>2, <1>3, SlotsAreTimes, TimeAssumption DEF Checkpoints
<1>5. /\ d \in Checkpoints /\ d.active = s /\ d.due = s /\ d.last = cp.last
      /\ d.state = "active" /\ r \in Runs /\ r.state = "started" /\ r.attempt = 1
  BY <1>2, <1>3, <1>4, ClaimTypes
<1>6. /\ UNCHANGED <<flow, resv, recon, clock, begun, overtaken>>
      /\ runs' = [runs EXCEPT ![s] = r] /\ cp' = d
      /\ call' = [call EXCEPT ![p] = c]
  BY <1>2, <1>3 DEF Claim, BelowUnchanged
<1> HIDE DEF d, r, s, now
<1>7. c \in CallType /\ c.pc = "create" /\ c.slot = s /\ c.run = r
  BY <1>3, <1>4, <1>5 DEF CallType, Pcs, Working
<1> HIDE DEF c
<1>8. call' \in [Procs -> CallType] /\ call'[p] = c /\ Others(p)
  BY <1>1, <1>6, <1>7, CallSet
<1>9. \A t \in Slots : runs'[t] = IF t = s THEN r ELSE runs[t] BY <1>3, <1>6
<1>10. TypeOK'
  <2>1. runs' \in [Slots -> Runs] BY <1>3, <1>5, <1>6
  <2>2. LedgerType' BY <1>1, <1>6 DEF TypeOK, LedgerType
  <2> QED BY <1>1, <1>5, <1>6, <1>8, <2>1, <2>2 DEF TypeOK, LedgerType, CallType
<1>11. TablesOK' BY <1>2, <1>4, <1>5, <1>6, ClaimTables DEF s
<1>12. PriorKept(cp) BY <1>1, <1>2 DEF CallOK
<1>13. \A t \in Slots : runs[t] # NoRun =>
          /\ t < s /\ runs[t].clean
          /\ Quiet(t) \/ (t \in overtaken /\ runs[t].state # "materialized")
  BY <1>2, <1>12, ClaimedIsFirst DEF s
<1>14. \A t \in Slots : t # s => (Nobody(t) => Nobody(t)')
  BY <1>7, <1>8 DEF Nobody, Others
<1>15. \A t \in Slots : Quiet(t)' <=> Quiet(t) BY <1>6 DEF Quiet, Open
<1>16. r # NoRun /\ r.state \notin Ended /\ runs[s].state = "none"
  BY <1>2, <1>5, NoRunType DEF Ended, s
<1>17. NoOverlap'
  <2> SUFFICES ASSUME NEW u \in Slots, NEW v \in Slots, u < v, runs'[u] # NoRun, runs'[v] # NoRun
               PROVE  Quiet(u) \/ (u \in overtaken /\ runs'[u].state # "materialized")
    BY <1>6, <1>15 DEF NoOverlap
  <2>1. u # s BY <1>4, <1>9, <1>13, SlotsAreTimes
  <2> QED BY <1>9, <1>13, <2>1
<1>18. UnprovenIsLast'
  BY <1>9, <1>13, <1>16, NoRunType DEF UnprovenIsLast, Ended
<1>19. LeftOK'
  <2> SUFFICES ASSUME NEW t \in Slots
               PROVE  /\ runs'[t].state = "materialized" => flow[t] # "none" /\ resv[t] # "none"
                      /\ runs'[t].state \in Ended \ {"materialized"} /\ runs'[t].clean
                         /\ t \notin overtaken => Quiet(t) /\ Nobody(t)'
    BY <1>6, <1>15 DEF LeftOK
  <2>1. CASE t = s BY <1>5, <1>9, <1>16, <2>1 DEF Ended
  <2>2. CASE t # s
    <3>1. runs'[t] = runs[t] BY <1>9, <2>2
    <3> QED BY <1>1, <1>14, <2>2, <3>1 DEF LeftOK
  <2> QED BY <2>1, <2>2
<1>20. \A q \in Procs : CallOK(q)'
  <2>1. RunsGo
    <3> SUFFICES ASSUME NEW t \in Slots
                 PROVE  /\ runs[t].state # "none" => runs'[t].state # "none"
                        /\ runs[t].state \in Ended => runs'[t] = runs[t]
                        /\ runs[t].state = "started" /\ runs'[t].state = "started" =>
                              runs'[t].attempt >= runs[t].attempt
      BY DEF RunsGo
    <3>1. runs[t] \in Runs BY <1>3
    <3>2. runs[t].attempt \in Nat BY <3>1 DEF Runs, MaxAttempts
    <3>3. CASE t = s BY <1>9, <1>16, <3>3 DEF Ended
    <3>4. CASE t # s BY <1>9, <3>2, <3>4
    <3> QED BY <3>3, <3>4
  <2>2. StaysFree BY <1>14, <1>16 DEF StaysFree
  <2>3. CleanerOK(p)' BY <1>7, <1>8, NotCleaning DEF AfterCleanup
  <2>4. CallOK(p)'
    <3>1. runs'[s].state # "none" /\ r.attempt <= runs'[s].attempt BY <1>4, <1>5, <1>9
    <3>2. call'[p].pc = "create" /\ call'[p].slot = s /\ call'[p].run = r BY <1>7, <1>8
    <3> QED BY <1>4, <2>3, <3>1, <3>2 DEF CallOK
  <2> QED BY <1>6, <1>8, <1>10, <2>1, <2>2, <2>4, OthersStay
<1> QED BY <1>10, <1>11, <1>17, <1>18, <1>19, <1>20 DEF Inv

LEMMA TakeInv ==
  ASSUME Inv, NEW p \in Procs, Take(p)
  PROVE  Inv'
<1> SUFFICES ASSUME NEW s \in Slots, call[p].slot = s PROVE Inv'
  BY OnRunSlot DEF Take, OnRun
<1>1. TypeOK /\ TablesOK /\ NoOverlap /\ UnprovenIsLast /\ LeftOK /\ CallOK(p) BY DEF Inv
<1> DEFINE r == [runs[s] EXCEPT !.attempt = @ + 1]
           c == [call[p] EXCEPT !.pc = "create", !.view = cp, !.run = r]
<1>2. runs[s].state = "started" /\ runs[s].attempt < MaxAttempts BY DEF Take
<1>3. /\ cp \in Checkpoints /\ runs \in [Slots -> Runs] /\ call[p] \in CallType
      /\ call \in [Procs -> CallType] /\ runs[s] \in Runs
  BY <1>1, TypeParts DEF CallType
<1>4. /\ r \in Runs /\ r.state = "started" /\ r.attempt = runs[s].attempt + 1
      /\ runs[s].attempt \in Nat
  BY <1>2, <1>3 DEF Runs, MaxAttempts
<1>5. /\ UNCHANGED <<cp, flow, resv, recon, clock, begun, overtaken>>
      /\ runs' = [runs EXCEPT ![s] = r]
      /\ call' = [call EXCEPT ![p] = c]
  BY <1>3 DEF Take, BelowUnchanged
<1> HIDE DEF r
<1>6. c \in CallType /\ c.pc = "create" /\ c.slot = s /\ c.run = r
  BY <1>3, <1>4 DEF CallType, Pcs, Working
<1> HIDE DEF c
<1>7. call' \in [Procs -> CallType] /\ call'[p] = c /\ Others(p)
  BY <1>1, <1>5, <1>6, CallSet
<1>8. \A t \in Slots : runs'[t] = IF t = s THEN r ELSE runs[t] BY <1>3, <1>5
<1>9. TypeOK'
  <2>1. runs' \in [Slots -> Runs] BY <1>3, <1>4, <1>5
  <2>2. LedgerType' BY <1>1, <1>5 DEF TypeOK, LedgerType
  <2> QED BY <1>1, <1>5, <1>7, <2>1, <2>2 DEF TypeOK, LedgerType, CallType
<1>10. \A t \in Slots :
          /\ runs'[t].state = runs[t].state
          /\ t # s => runs'[t] = runs[t]
          /\ (runs'[t] = NoRun) <=> (runs[t] = NoRun)
  BY <1>2, <1>4, <1>8, NoRunType
<1>11. TablesOK'
  BY <1>1, <1>2, <1>5, <1>10 DEF TablesOK, ActiveIsStarted, SlotsPassOnce, StoryOK, Ended
<1>12. \A t \in Slots : Quiet(t)' <=> Quiet(t) BY <1>5 DEF Quiet, Open
<1>13. NoOverlap' BY <1>1, <1>5, <1>10, <1>12 DEF NoOverlap
<1>14. UnprovenIsLast' BY <1>1, <1>2, <1>10 DEF UnprovenIsLast, Ended
<1>15. \A t \in Slots : t # s => (Nobody(t) => Nobody(t)')
  BY <1>6, <1>7 DEF Nobody, Others
<1>16. LeftOK'
  <2> SUFFICES ASSUME NEW t \in Slots
               PROVE  /\ runs'[t].state = "materialized" => flow[t] # "none" /\ resv[t] # "none"
                      /\ runs'[t].state \in Ended \ {"materialized"} /\ runs'[t].clean
                         /\ t \notin overtaken => Quiet(t) /\ Nobody(t)'
    BY <1>5, <1>12 DEF LeftOK
  <2>1. CASE t = s BY <1>2, <1>10, <2>1 DEF Ended
  <2>2. CASE t # s BY <1>1, <1>10, <1>15, <2>2 DEF LeftOK
  <2> QED BY <2>1, <2>2
<1>17. \A q \in Procs : CallOK(q)'
  <2>1. RunsGo
    <3> SUFFICES ASSUME NEW t \in Slots PROVE runs'[t].attempt >= runs[t].attempt
      BY <1>2, <1>10 DEF RunsGo, Ended
    <3>1. runs[t] \in Runs BY <1>3
    <3>2. runs[t].attempt \in Nat BY <3>1 DEF Runs, MaxAttempts
    <3> QED BY <1>4, <1>8, <3>2
  <2>2. StaysFree
    <3>1. runs'[s].attempt # runs[s].attempt BY <1>4, <1>8
    <3> QED BY <1>15, <3>1 DEF StaysFree
  <2>3. CleanerOK(p)' BY <1>6, <1>7, NotCleaning DEF AfterCleanup
  <2>4. CallOK(p)'
    <3>1. runs'[s].state # "none" /\ r.attempt <= runs'[s].attempt BY <1>4, <1>8
    <3>2. call'[p].pc = "create" /\ call'[p].slot = s /\ call'[p].run = r BY <1>6, <1>7
    <3> QED BY <2>3, <3>1, <3>2 DEF CallOK
  <2> QED BY <1>5, <1>7, <1>9, <2>1, <2>2, <2>4, OthersStay
<1> QED BY <1>9, <1>11, <1>13, <1>14, <1>16, <1>17 DEF Inv

\* The record of a run that has ended.
LEMMA EndedRun ==
  ASSUME NEW state \in Ended, NEW clean \in BOOLEAN
  PROVE  /\ [NoRun EXCEPT !.state = state, !.clean = clean] \in Runs
         /\ [NoRun EXCEPT !.state = state, !.clean = clean].state = state
         /\ [NoRun EXCEPT !.state = state, !.clean = clean].clean = clean
<1>1. NoRun \in Runs BY NoRunType
<1>2. state \in {"none", "started"} \cup Ended OBVIOUS
<1> QED BY <1>1, <1>2 DEF Runs

\* The types of what the end of a run writes.
LEMMA FinishedTypes ==
  ASSUME NEW c \in Checkpoints, NEW s \in Slots, NEW now \in Nat, NEW paused \in BOOLEAN
  PROVE  /\ Finished(c, s, now, paused) \in Checkpoints
         /\ Finished(c, s, now, paused).active = NoSlot
         /\ Finished(c, s, now, paused).last = s
         /\ Finished(c, s, now, paused).due > s
<1>1. NextDue(s, now) \in Nat /\ NextDue(s, now) > s BY SlotsAreTimes, NextDueLater
<1> DEFINE st == IF paused THEN "paused" ELSE "active"
           due == NextDue(s, now)
           c1 == Advanced(c, now)
<1>2. c.revision + 1 \in Nat BY DEF Checkpoints
<1>3. c1 \in Checkpoints BY <1>2 DEF Advanced, Checkpoints
<1>4. st \in {"active", "paused"} OBVIOUS
<1>5. Finished(c, s, now, paused) =
         [c1 EXCEPT !.active = NoSlot, !.last = s, !.due = due, !.state = st]
  BY DEF Finished
<1> HIDE DEF st, due, c1
<1>7. /\ Finished(c, s, now, paused) \in Checkpoints
      /\ Finished(c, s, now, paused).active = NoSlot
      /\ Finished(c, s, now, paused).last = s
      /\ Finished(c, s, now, paused).due = due
  <2>1. due \in Nat BY <1>1 DEF due
  <2> QED BY <1>3, <1>4, <1>5, <2>1 DEF Checkpoints
<1> QED BY <1>1, <1>7 DEF due

\* The run of a slot ends, and what it leaves is as its record says.
LEMMA FinishInv ==
  ASSUME Inv, NEW p \in Procs, NEW state \in Ended, NEW clean \in BOOLEAN, NEW paused \in BOOLEAN,
         Finish(p, state, clean, paused), call[p].pc \in OnRun,
         NEW s \in Slots, call[p].slot = s,
         state = "materialized" => clean /\ flow[s] # "none" /\ resv[s] # "none",
         state # "materialized" /\ clean /\ s \notin overtaken => Quiet(s) /\ Nobody(s)
  PROVE  Inv'
<1>1. TypeOK /\ TablesOK /\ NoOverlap /\ UnprovenIsLast /\ LeftOK BY DEF Inv
<1>2. ActiveIsStarted /\ SlotsPassOnce /\ StoryOK BY <1>1 DEF TablesOK
<1> DEFINE r == [NoRun EXCEPT !.state = state, !.clean = clean]
           now == call[p].now
           d == Finished(cp, s, now, paused)
<1>3. /\ cp \in Checkpoints /\ runs \in [Slots -> Runs] /\ call[p] \in CallType
      /\ now \in Nat
  BY <1>1, TypeParts DEF CallType
<1>4. cp.active = s /\ runs[s].state = "started"
  BY DEF Finish, AssertLatest, RunFence
<1>5. s = cp.due /\ s # NoSlot BY <1>2, <1>4, SlotsAreTimes DEF StoryOK
<1>6. /\ UNCHANGED <<flow, resv, recon, clock, begun, overtaken>>
      /\ runs' = [runs EXCEPT ![s] = r] /\ cp' = d /\ Leave(p)
  BY DEF Finish, AssertLatest, BelowUnchanged
<1> HIDE DEF now
<1>7. /\ d \in Checkpoints /\ d.active = NoSlot /\ d.last = s /\ d.due > s /\ d.due \in Nat
      /\ r \in Runs /\ r.state = state /\ r.clean = clean
  <2>1. d \in Checkpoints /\ d.active = NoSlot /\ d.last = s /\ d.due > s
    BY <1>3, FinishedTypes
  <2>2. r \in Runs /\ r.state = state /\ r.clean = clean BY EndedRun
  <2> HIDE DEF d, r
  <2>3. d.due \in Nat BY <2>1 DEF Checkpoints
  <2> QED BY <2>1, <2>2, <2>3
<1> HIDE DEF r, d
<1>8. call' \in [Procs -> CallType] /\ Others(p) /\ call'[p].pc = "idle" /\ CallOK(p)'
  BY <1>1, <1>6, LeaveGoes
<1>9. \A t \in Slots : runs'[t] = IF t = s THEN r ELSE runs[t] BY <1>3, <1>6
<1>10. TypeOK'
  <2>1. runs' \in [Slots -> Runs] BY <1>3, <1>6, <1>7
  <2>2. LedgerType' BY <1>1, <1>6 DEF TypeOK, LedgerType
  <2> QED BY <1>1, <1>6, <1>7, <1>8, <2>1, <2>2 DEF TypeOK, LedgerType, CallType
<1>11. state # "started" /\ state # "none" /\ runs[s] # NoRun /\ runs[s].state \notin Ended
  BY <1>4, NoRunType DEF Ended
<1>12. \A t \in Slots : runs[t] # NoRun => t <= s /\ (t # s => runs[t].state \in Ended)
  <2> SUFFICES ASSUME NEW t \in Slots, runs[t] # NoRun, t # s
               PROVE  runs[t].state \in Ended /\ t < s
    BY <1>5, SlotsAreTimes
  <2>1. runs[t] \in Runs BY <1>3
  <2>2. runs[t].state # "none" /\ runs[t].state # "started"
    BY <1>2, <1>4 DEF StoryOK, ActiveIsStarted
  <2>3. runs[t].state \in Ended BY <2>1, <2>2 DEF Runs
  <2> QED BY <1>2, <1>5, <2>3 DEF SlotsPassOnce
<1>13. TablesOK'
  <2>1. \A t \in Slots : runs'[t].state # "started"
    BY <1>2, <1>4, <1>7, <1>9, <1>11 DEF ActiveIsStarted
  <2>2. ActiveIsStarted' BY <1>6, <1>7, <2>1, SlotsAreTimes DEF ActiveIsStarted
  <2>3. \A t \in Slots : runs'[t].state \in Ended => t <= s
    BY <1>5, <1>9, <1>12, NoRunType, SlotsAreTimes DEF Ended
  <2>4. SlotsPassOnce' BY <1>6, <1>7, <2>3, SlotsAreTimes DEF SlotsPassOnce
  <2>5. runs'[s].state \in Ended BY <1>7, <1>9
  <2>6. \A t \in Slots : runs'[t].state = "none" => runs'[t] = NoRun
    BY <1>2, <1>7, <1>9, <1>11 DEF StoryOK
  <2>7. StoryOK' BY <1>6, <1>7, <2>3, <2>5, <2>6 DEF StoryOK
  <2> QED BY <2>2, <2>4, <2>7 DEF TablesOK
<1>14. \A t \in Slots : Quiet(t)' <=> Quiet(t) BY <1>6 DEF Quiet, Open
<1>15. \A t \in Slots : runs'[t] # NoRun => runs[t] # NoRun BY <1>9, <1>11
<1>16. NoOverlap'
  <2> SUFFICES ASSUME NEW u \in Slots, NEW v \in Slots, u < v, runs'[u] # NoRun, runs'[v] # NoRun
               PROVE  Quiet(u) \/ (u \in overtaken /\ runs'[u].state # "materialized")
    BY <1>6, <1>14 DEF NoOverlap
  <2>1. u # s BY <1>12, <1>15, SlotsAreTimes
  <2> QED BY <1>1, <1>9, <1>15, <2>1 DEF NoOverlap
<1>17. UnprovenIsLast'
  <2> SUFFICES ASSUME NEW u \in Slots, NEW v \in Slots, u < v, runs'[v] # NoRun
               PROVE  ~(runs'[u].state \in Ended /\ ~runs'[u].clean)
    BY DEF UnprovenIsLast
  <2>1. u # s BY <1>12, <1>15, SlotsAreTimes
  <2> QED BY <1>1, <1>9, <1>15, <2>1 DEF UnprovenIsLast
<1>18. \A t \in Slots : Nobody(t) => Nobody(t)' BY <1>8, FreeAfter DEF Working
<1>19. LeftOK'
  <2> SUFFICES ASSUME NEW t \in Slots
               PROVE  /\ runs'[t].state = "materialized" => flow[t] # "none" /\ resv[t] # "none"
                      /\ runs'[t].state \in Ended \ {"materialized"} /\ runs'[t].clean
                         /\ t \notin overtaken => Quiet(t) /\ Nobody(t)'
    BY <1>6, <1>14 DEF LeftOK
  <2>1. CASE t = s BY <1>7, <1>9, <1>18, <2>1
  <2>2. CASE t # s
    <3>1. runs'[t] = runs[t] BY <1>9, <2>2
    <3> QED BY <1>1, <1>18, <3>1 DEF LeftOK
  <2> QED BY <2>1, <2>2
<1>20. \A q \in Procs : CallOK(q)'
  <2>1. RunsGo
    <3> SUFFICES ASSUME NEW t \in Slots
                 PROVE  /\ runs[t].state # "none" => runs'[t].state # "none"
                        /\ runs[t].state \in Ended => runs'[t] = runs[t]
                        /\ runs[t].state = "started" /\ runs'[t].state = "started" =>
                              runs'[t].attempt >= runs[t].attempt
      BY DEF RunsGo
    <3>1. runs[t] \in Runs BY <1>3
    <3>2. runs[t].attempt \in Nat BY <3>1 DEF Runs, MaxAttempts
    <3>3. CASE t = s BY <1>7, <1>9, <1>11, <3>3
    <3>4. CASE t # s BY <1>9, <3>2, <3>4
    <3> QED BY <3>3, <3>4
  <2>2. StaysFree BY <1>18 DEF StaysFree
  <2> QED BY <1>6, <1>8, <1>10, <2>1, <2>2, OthersStay
<1> QED BY <1>10, <1>13, <1>16, <1>17, <1>19, <1>20 DEF Inv

LEMMA MaterializeInv ==
  ASSUME Inv, NEW p \in Procs, Materialize(p)
  PROVE  Inv'
<1> SUFFICES ASSUME NEW s \in Slots, call[p].slot = s PROVE Inv'
  BY OnRunSlot DEF Materialize, OnRun
<1>1. CallOK(p) BY DEF Inv
<1>2. call[p].pc = "finish" /\ Finish(p, "materialized", TRUE, FALSE) BY DEF Materialize
<1>3. flow[s] # "none" /\ resv[s] # "none" BY <1>1, <1>2 DEF CallOK
<1>4. call[p].pc \in OnRun /\ "materialized" \in Ended BY <1>2 DEF OnRun, Ended
<1> QED BY <1>2, <1>3, <1>4, FinishInv

LEMMA CloseInv ==
  ASSUME Inv, NEW p \in Procs, Close(p)
  PROVE  Inv'
<1> SUFFICES ASSUME NEW s \in Slots, call[p].slot = s PROVE Inv'
  BY OnRunSlot DEF Close, OnRun, AfterCleanup
<1> DEFINE clean == call[p].clean
           paused == ~clean
<1>1. CallOK(p) /\ TypeOK BY DEF Inv
<1>2. /\ call[p].pc = "close"
      /\ Finish(p, "timed_out", clean, paused) \/ Finish(p, "failed", clean, TRUE)
  BY DEF Close
<1>3. call[p].pc \in OnRun /\ call[p].pc \in AfterCleanup /\ {"timed_out", "failed"} \subseteq Ended
  BY <1>2 DEF OnRun, AfterCleanup, Ended
<1>4. clean \in BOOLEAN /\ paused \in BOOLEAN BY <1>1, TypeParts DEF CallType
<1>5. RunFence(p) BY <1>2 DEF Finish
<1>6. clean /\ s \notin overtaken => Quiet(s) /\ Nobody(s)
  BY <1>1, <1>2, <1>3, <1>5 DEF CallOK, CleanerOK, Quiet
<1> HIDE DEF clean, paused
<1> QED BY <1>2, <1>3, <1>4, <1>6, FinishInv

\* pause, resume, cancel and expire move no run, and none is allowed while one
\* is under way.
LEMMA TransitionTypes ==
  ASSUME NEW c \in Checkpoints, NEW now \in Nat,
         NEW op \in {"trigger", "recover", "pause", "resume", "cancel", "expire"},
         Allowed(op, c, now), c.active # NoSlot => c.state = "active"
  PROVE  /\ Transition(op, c, now) \in Checkpoints
         /\ c.active = NoSlot
         /\ Transition(op, c, now).active = c.active
         /\ Transition(op, c, now).last = c.last
         /\ Transition(op, c, now).due >= c.due
<1> DEFINE n == Advanced(c, now)
           due == NextDue(c.due, now)
           d == Transition(op, c, now)
<1>1. c.revision + 1 \in Nat /\ c.due \in Nat BY DEF Checkpoints
<1>2. /\ n \in Checkpoints /\ n.due = c.due /\ n.last = c.last /\ n.active = c.active
  BY <1>1 DEF Advanced, Checkpoints
<1>3. due \in Nat /\ due > c.due BY <1>1, NextDueLater
<1>4. c.active = NoSlot
  BY DEF Allowed
<1>5. \/ d = [n EXCEPT !.state = "paused"]
      \/ d = [n EXCEPT !.state = "active", !.due = due]
      \/ d = [n EXCEPT !.state = "cancelled"]
      \/ d = [n EXCEPT !.state = "expired"]
  BY DEF Transition, Allowed
<1> HIDE DEF n, due, d
<1>6. d \in Checkpoints /\ d.active = c.active /\ d.last = c.last
      /\ d.due \in {c.due, due}
  BY <1>2, <1>3, <1>5 DEF Checkpoints, Closed
<1> QED BY <1>1, <1>3, <1>4, <1>6 DEF d

LEMMA AdvanceInv ==
  ASSUME Inv, NEW p \in Procs, Advance(p)
  PROVE  Inv'
<1>1. TypeOK /\ TablesOK /\ NoOverlap /\ UnprovenIsLast /\ LeftOK BY DEF Inv
<1>2. ActiveIsStarted /\ SlotsPassOnce /\ StoryOK BY <1>1 DEF TablesOK
<1> DEFINE now == call[p].now
           op == call[p].op
           d == Transition(op, cp, now)
<1>3. /\ cp \in Checkpoints /\ runs \in [Slots -> Runs] /\ now \in Nat
      /\ op \in {"trigger", "recover", "pause", "resume", "cancel", "expire"}
  BY <1>1, TypeParts DEF CallType
<1>4. /\ UNCHANGED <<runs, flow, resv, recon, clock, begun, overtaken>>
      /\ cp' = d /\ Leave(p) /\ Allowed(op, cp, now)
  BY DEF Advance, AssertLatest, BelowUnchanged
<1> HIDE DEF now, op
<1>5. /\ d \in Checkpoints /\ cp.active = NoSlot
      /\ d.active = NoSlot /\ d.last = cp.last /\ d.due >= cp.due
      /\ d.due \in Nat /\ cp.due \in Nat
  <2>1. /\ d \in Checkpoints /\ cp.active = NoSlot
        /\ d.active = cp.active /\ d.last = cp.last /\ d.due >= cp.due
    BY <1>2, <1>3, <1>4, TransitionTypes DEF ActiveIsStarted
  <2> HIDE DEF d
  <2> QED BY <1>3, <2>1 DEF Checkpoints
<1> HIDE DEF d
<1>6. call' \in [Procs -> CallType] /\ Others(p) /\ call'[p].pc = "idle" /\ CallOK(p)'
  BY <1>1, <1>4, LeaveGoes
<1>7. TypeOK'
  <2>1. LedgerType' BY <1>1, <1>4 DEF TypeOK, LedgerType
  <2> QED BY <1>1, <1>4, <1>5, <1>6, <2>1 DEF TypeOK, LedgerType, CallType
<1>8. TablesOK'
  <2>1. ActiveIsStarted' BY <1>2, <1>4, <1>5 DEF ActiveIsStarted
  <2>2. SlotsPassOnce' BY <1>2, <1>4, <1>5, SlotsAreTimes DEF SlotsPassOnce
  <2>3. StoryOK' BY <1>2, <1>4, <1>5 DEF StoryOK
  <2> QED BY <2>1, <2>2, <2>3 DEF TablesOK
<1>9. NoOverlap' BY <1>1, <1>4 DEF NoOverlap, Quiet, Open
<1>10. UnprovenIsLast' BY <1>1, <1>4 DEF UnprovenIsLast
<1>11. \A t \in Slots : Nobody(t) => Nobody(t)' BY <1>6, FreeAfter DEF Working
<1>12. LeftOK'
  <2> SUFFICES ASSUME NEW t \in Slots
               PROVE  /\ runs[t].state = "materialized" => flow[t] # "none" /\ resv[t] # "none"
                      /\ runs[t].state \in Ended \ {"materialized"} /\ runs[t].clean
                         /\ t \notin overtaken => Quiet(t) /\ Nobody(t)'
    BY <1>4 DEF LeftOK, Quiet, Open
  <2> QED BY <1>1, <1>11 DEF LeftOK
<1>13. \A q \in Procs : CallOK(q)'
  <2>1. RunsGo BY <1>4, SameRuns
  <2>2. StaysFree BY <1>11 DEF StaysFree
  <2> QED BY <1>4, <1>6, <1>7, <2>1, <2>2, OthersStay
<1> QED BY <1>7, <1>8, <1>9, <1>10, <1>12, <1>13 DEF Inv

-----------------------------------------------------------------------------
(* The invariant *)

LEMMA InitInv ==
  ASSUME Init
  PROVE  Inv
<1>1. Start0 \in Checkpoints BY DEF Start0, Checkpoints
<1>2. TypeOK BY <1>1, NoRunType, IdleType, TimeAssumption DEF Init, TypeOK, CallType
<1>3. \A s \in Slots : runs[s] = NoRun BY DEF Init
<1>4. cp.active = NoSlot /\ cp.last = NoSlot BY DEF Init, Start0
<1>5. TablesOK
  BY <1>3, <1>4, NoRunType, SlotsAreTimes
  DEF TablesOK, ActiveIsStarted, SlotsPassOnce, StoryOK, Ended
<1>6. NoOverlap /\ UnprovenIsLast /\ LeftOK
  BY <1>3, NoRunType DEF NoOverlap, UnprovenIsLast, LeftOK, Ended
<1>7. \A p \in Procs : CallOK(p)
  BY IdleType DEF Init, CallOK, CleanerOK, OnRun, AfterCleanup, Working
<1> QED BY <1>2, <1>5, <1>6, <1>7 DEF Inv

LEMMA StartInv ==
  ASSUME Inv, NEW p \in Procs, NEW now \in clock..MaxClock, Start(p, now)
  PROVE  Inv'
  BY TriggerReadInv, RecoverReadInv, ResumePriorInv, LifecycleReadInv DEF Start

LEMMA MaterializingInv ==
  ASSUME Inv, NEW p \in Procs, Materializing(p)
  PROVE  Inv'
  BY CreateFlowInv, StartFlowInv, BindFlowInv, ReserveInv, InterruptedInv, MaterializeInv
  DEF Materializing

LEMMA CleaningInv ==
  ASSUME Inv, NEW p \in Procs, Cleaning(p)
  PROVE  Inv'
  BY CleanReservationInv, ReleaseReservationInv, CleanFlowInv, CancelFlowInv, CloseInv
  DEF Cleaning

LEMMA StutterInv ==
  ASSUME Inv, UNCHANGED vars
  PROVE  Inv'
<1>1. UNCHANGED <<clock, cp, runs, flow, resv, recon, call, begun, overtaken>> BY DEF vars
<1>2. TypeOK' BY <1>1, TypeStep, TypeParts DEF Inv, LedgerType
<1> QED BY <1>1, <1>2, SameLedgers, EnvironmentStep

LEMMA NextInv ==
  ASSUME Inv, [Next]_vars
  PROVE  Inv'
<1>1. ASSUME NEW p \in Procs,
             \/ \E now \in clock..MaxClock : Start(p, now)
             \/ Claim(p) \/ Take(p) \/ ResumeRead(p) \/ Advance(p)
             \/ Materializing(p) \/ Cleaning(p) \/ End(p)
      PROVE  Inv'
  BY <1>1, StartInv, ClaimInv, TakeInv, ResumeReadInv, AdvanceInv, MaterializingInv,
     CleaningInv, EndInv
<1>2. ASSUME NEW s \in Slots, ReconMoves(s) \/ FlowEnds(s) \/ ReservationEnds(s)
      PROVE  Inv'
  BY <1>2, ReconMovesInv, FlowEndsInv, ReservationEndsInv
<1>3. CASE UNCHANGED vars BY <1>3, StutterInv
<1> QED BY <1>1, <1>2, <1>3 DEF Next

\* The invariant holds in every state, whichever commands race on the schedule
\* and wherever one of them dies (schedule_service.py).
THEOREM ScheduleInvariant == Spec => []Inv
<1>1. Init => Inv BY InitInv
<1>2. Inv /\ [Next]_vars => Inv' BY NextInv
<1> QED BY <1>1, <1>2, PTL DEF Spec

-----------------------------------------------------------------------------
(* The properties *)

\* The checkpoints and the runs tell one story, whichever commands raced
\* (schedule_store.py, the transactions that write both tables).
THEOREM ScheduleTablesAgree == Spec => []TablesAgree
<1>1. Inv => TablesAgree BY DEF Inv, TablesOK, TablesAgree
<1> QED BY <1>1, ScheduleInvariant, PTL

\* No run is claimed before everything that earlier ones materialized has ended
\* (schedule_service.py, _prior_run_clean).
THEOREM RunsDoNotOverlap == Spec => []NoOverlap
<1>1. Inv => NoOverlap BY DEF Inv
<1> QED BY <1>1, ScheduleInvariant, PTL

\* Nothing follows a run whose cleanup was not proven (schedule_service.py,
\* trigger, resume and recover).
THEOREM NothingFollowsTheUnproven == Spec => []UnprovenIsLast
<1>1. Inv => UnprovenIsLast BY DEF Inv
<1> QED BY <1>1, ScheduleInvariant, PTL

\* A run that was closed as clean left nothing open behind, whatever steps its
\* attempts died between (schedule_service.py, _cleanup_partial).
THEOREM CleanMeansQuiet == Spec => []CleanIsClean
<1>1. Inv => CleanIsClean BY DEF Inv, LeftOK, CleanIsClean
<1> QED BY <1>1, ScheduleInvariant, PTL
=============================================================================
