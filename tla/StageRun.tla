------------------------------ MODULE StageRun ------------------------------
(***************************************************************************)
(* One run of one service over its execution ledger.                       *)
(*                                                                         *)
(* Some eighty SQLite stores of the repository keep one row per request    *)
(* ("plan") under unique keys (the plan's id, its idempotency key, and     *)
(* often the thing the plan is about), and the service over each store     *)
(* works along one outline: check the arguments, read the records the plan *)
(* is bound to, claim the row, do the work, check again, write the outcome *)
(* into the row.  What differs from service to service is the ORDER of     *)
(* these steps, which of them are there, how many attempts the row allows  *)
(* and how an unfinished attempt is taken over.  A service is therefore a  *)
(* record (see Service below) holding its programs, and the modules        *)
(* *Services give one per service of the repository.                       *)
(*                                                                         *)
(* A behaviour studies ONE service (svc, chosen by Init) and ONE key: the  *)
(* plans of Plans all compete for it.  Calls is the set of callers, in any *)
(* number of processes; each step of a call is atomic (one transaction,    *)
(* one read, one external operation) and calls interleave and die between  *)
(* any two steps.                                                          *)
(***************************************************************************)
EXTENDS Naturals, Sequences, FiniteSets

CONSTANTS
    Services,   \* the services studied
    Plans,      \* plans competing for one key
    Calls,      \* callers
    Times       \* instants callers pass as "now"

(***************************************************************************)
(* The steps of a program.                                                 *)
(*   bind     the arguments against the plan: digest, scope, approvals and *)
(*            the time window, all fixed for the whole call                *)
(*   load     the finished records the plan is bound to, read from their   *)
(*            ledgers (they never change once finished)                    *)
(*   current  a fact that can be withdrawn: the flow is still at the       *)
(*            checkpoint, the identity is still admitted, ...              *)
(*   claim    take the row, or answer with the outcome it holds            *)
(*   recover  take an unfinished attempt over                              *)
(*   derive   compute the outcome from what was loaded; it may refuse      *)
(*   nested   a call of another service, which keeps its own ledger        *)
(*   effect   the work outside the ledger: a sandbox, an adapter, a model  *)
(*   publish  write the artefact the outcome refers to                     *)
(*   sealed   the artefact is in its content-addressed store               *)
(*   save     add the next phase to the row, or find it there              *)
(*   look     the row is still this attempt's and holds every phase        *)
(*   expire   out of time, end the row as timed out and answer             *)
(*   finish   write the outcome, fenced by the attempt, and answer         *)
(*   put      claim and finish in one: the outcome is made before the row  *)
(*   pause    put the row aside until an approval comes, or go on          *)
(*   resume   take a row that was put aside                                *)
(* A service that guards another one ("wraps" it) binds the outcome of the *)
(* other's row, `inner`, which the other service's own callers can also    *)
(* start:                                                                  *)
(*   unused   the inner row is not there, or this ledger's row is          *)
(*   vacant   the inner row is not there                                   *)
(*   wrap     the inner claim; settle: the inner outcome                   *)
(*   timed    the inner outcome was completed at the time this call passed *)
(***************************************************************************)
Checks == {"bind", "load", "current", "derive", "nested", "unused", "vacant"}

Ends == {"completed", "timed_out", "failed"}

\* What a service may promise; a promise is part of the requirements, never
\* derived from the programs it is held against.
Promises == {"fresh", "sealed", "upstream", "gated", "timed"}

\* Steps that take the row, and steps that a call may only take under a claim.
Takes == {"claim", "recover", "resume"}
UnderClaim == {"effect", "publish", "sealed", "save", "expire", "finish", "pause"}

Steps == Checks \cup Takes \cup UnderClaim \cup {"look", "put", "wrap", "settle", "timed"}
Ops == {"execute", "recover"}

\* How many phases the program saves up to and including its step n.
PhasesUpTo(prog, n) == Cardinality({i \in 1..n : i <= Len(prog) /\ prog[i] = "save"})

Occurs(step, prog) == \E i \in 1..Len(prog) : prog[i] = step

\* Step i of the program comes after one of the steps S.
After(prog, i, S) == \E j \in 1..(i - 1) : prog[j] \in S

\* A program takes the row once, works and writes only after that, and writes
\* the outcome in its last step; a "put" needs neither claim nor phases.
Ordered(prog) ==
    /\ \A i \in 1..Len(prog) : prog[i] \in {"finish", "put"} <=> i = Len(prog)
    /\ \A i, j \in 1..Len(prog) : prog[i] \in Takes /\ prog[j] \in Takes => i = j
    /\ \A i \in 1..Len(prog) : prog[i] \in UnderClaim => After(prog, i, Takes)
    /\ Occurs("put", prog) => \A i \in 1..Len(prog) : prog[i] \notin Takes

\* Both programs of a service save the same phases.
SamePhases(s) ==
    s.recover # <<>> =>
        PhasesUpTo(s.recover, Len(s.recover)) = PhasesUpTo(s.execute, Len(s.execute))

\* A row that is handed to any caller has one attempt, taken by the claim.
SharedOnce(s) ==
    s.shared => /\ s.fenced /\ ~s.takeover /\ s.recover = <<>>
                /\ \A step \in {"recover", "resume", "put"} : ~Occurs(step, s.execute)

\* Where the completion is not fenced, nothing but a completion ends the row.
LooseOnly(s) ==
    ~s.fenced => /\ ~s.shared /\ ~s.exhausts /\ s.catches = {}
                 /\ \A op \in Ops : ~Occurs("expire", s[op]) /\ ~Occurs("pause", s[op])

\* The steps on which the service's promises rest: the records are read before
\* the row is made, the fact is checked after it is taken, both programs store
\* the same artefacts, a wrapper settles the inner run, and it probes for a run
\* under its claim or compares the times of the two.
KeepsPromises(s) ==
    \A op \in Ops : LET prog == s[op] IN
    /\ "upstream" \in s.promises =>
          \A i \in 1..Len(prog) : prog[i] \in {"claim", "put"} => After(prog, i, {"load"})
    /\ "fresh" \in s.promises =>
          /\ ~s.shared /\ s.fenced /\ ~Occurs("put", prog)
          /\ \A i \in 1..Len(prog) : prog[i] = "finish" =>
                \E j \in 1..(i - 1) : prog[j] = "current" /\ After(prog, j, Takes)
    /\ "sealed" \in s.promises /\ prog # <<>> =>
          \A i \in 1..Len(s.execute) : s.execute[i] \in {"publish", "sealed"} =>
              \E j \in 1..Len(prog) :
                  /\ prog[j] \in {"publish", "sealed"}
                  /\ PhasesUpTo(prog, j) = PhasesUpTo(s.execute, i)
    /\ Occurs("wrap", s.execute) /\ prog # <<>> => ~s.shared /\ Occurs("settle", prog)
    /\ Occurs("wrap", s.execute) => ~Occurs("put", prog)
    /\ "gated" \in s.promises =>
          /\ Occurs("wrap", s.execute)
          /\ prog # <<>> => \E j \in 1..Len(prog) : prog[j] = "vacant" /\ After(prog, j, Takes)
    /\ "timed" \in s.promises =>
          /\ Occurs("wrap", s.execute) /\ s.attempts = 1 /\ ~Occurs("resume", prog)
          /\ prog # <<>> => Occurs("timed", prog)

WellFormed(s) ==
    /\ s.attempts \in Nat
    /\ {s.takeover, s.exhausts, s.shared, s.fenced} \subseteq BOOLEAN
    /\ s.catches \subseteq Ends \ {"completed"} /\ s.promises \subseteq Promises
    /\ s.prepare \in Seq(Checks)
    /\ \A op \in Ops : s[op] \in Seq(Steps) /\ Ordered(s[op])
    /\ SamePhases(s) /\ SharedOnce(s) /\ LooseOnly(s) /\ KeepsPromises(s)

ASSUME ServicesWellFormed == \A s \in Services : WellFormed(s)
ASSUME SomePlan == Plans # {}
ASSUME SomeTime == Times # {}

AnyPlan == CHOOSE p \in Plans : TRUE
AnyTime == CHOOSE t \in Times : TRUE
NoOutcome == [plan |-> AnyPlan, attempt |-> 0, end |-> "none"]
NoRow == [state |-> "none", plan |-> AnyPlan, attempt |-> 0, saved |-> 0,
          outcome |-> NoOutcome, at |-> AnyTime]
NoInner == [state |-> "none", by |-> "nobody", at |-> AnyTime, gated |-> FALSE]

VARIABLES
    svc,        \* the service studied
    row,        \* the ledger's row for the key
    upstream,   \* the records the plans are bound to are finished
    moved,      \* the fact "current" reads has been withdrawn
    closed,     \* the plans' time window is over
    call,       \* the calls under way
    prepared,   \* plans a prepare call has produced
    worked,     \* <<plan, attempt, step>> of the effects carried out
    twice,      \* some effect was carried out twice
    artefacts,  \* <<plan, attempt>> whose artefact is stored
    answers,    \* outcomes handed to callers
    takenFresh, \* history: the fact still held when the row's attempt began
    inner       \* the row of the service that is wrapped, who started it and when

vars == <<svc, row, upstream, moved, closed, call, prepared, worked, twice,
          artefacts, answers, takenFresh, inner>>

Idle == [on |-> FALSE, op |-> "execute", pc |-> 1, plan |-> AnyPlan,
         attempt |-> 0, inTime |-> FALSE, at |-> AnyTime]

Program(c) == svc[call[c].op]
At(c, step) == call[c].on /\ Program(c)[call[c].pc] = step

\* The step occurs in the service's program.
Uses(step) == \E i \in 1..Len(svc.execute) : svc.execute[i] = step

\* Times matter only to the services that compare them.
Instants == IF Uses("timed") THEN Times ELSE {AnyTime}

\* A run of the wrapped service, made at time t; `gated` is history: the row
\* studied was taken when it began.
InnerRow(by, t) == [state |-> "started", by |-> by, at |-> t, gated |-> row.state # "none"]

Finished == row.state \in Ends

Phases == PhasesUpTo(svc.execute, Len(svc.execute))

\* What the call has seen of the row: the phases before its step.
Seen(c) == PhasesUpTo(Program(c), call[c].pc - 1)

Artefact(c) == <<call[c].plan, call[c].attempt, Seen(c)>>

Outcome(c, end) == [plan |-> call[c].plan, attempt |-> call[c].attempt, end |-> end]

Init ==
    /\ svc \in Services
    /\ row = NoRow
    /\ upstream = FALSE
    /\ moved = FALSE
    /\ closed = FALSE
    /\ call = [c \in Calls |-> Idle]
    /\ prepared = {}
    /\ worked = {} /\ twice = FALSE
    /\ artefacts = {}
    /\ answers = {}
    /\ takenFresh = FALSE
    /\ inner = NoInner

----------------------------------------------------------------------------
(***************************************************************************)
(* The surroundings.                                                       *)
(***************************************************************************)
EnvUnchanged == UNCHANGED <<svc, upstream, moved, closed, inner>>
LedgerUnchanged == UNCHANGED <<row, takenFresh, answers>>
WorkUnchanged == UNCHANGED <<worked, twice, artefacts>>

UpstreamFinishes ==
    /\ ~upstream /\ Uses("load") /\ upstream' = TRUE
    /\ UNCHANGED <<svc, row, moved, closed, call, prepared, worked, twice,
                   artefacts, answers, takenFresh, inner>>

Withdraw ==
    /\ ~moved /\ Uses("current") /\ moved' = TRUE
    /\ UNCHANGED <<svc, row, upstream, closed, call, prepared, worked, twice,
                   artefacts, answers, takenFresh, inner>>

WindowCloses ==
    /\ ~closed /\ closed' = TRUE
    /\ UNCHANGED <<svc, row, upstream, moved, call, prepared, worked, twice,
                   artefacts, answers, takenFresh, inner>>

\* A caller of the wrapped service itself, past the service studied.
InnerMoves ==
    /\ Uses("wrap")
    /\ \/ inner.state = "none" /\ \E t \in Instants : inner' = InnerRow("direct", t)
       \/ inner.state = "started" /\ inner.by = "direct"
          /\ inner' = [inner EXCEPT !.state = "completed"]
    /\ UNCHANGED <<svc, row, upstream, moved, closed, call, prepared, worked, twice,
                   artefacts, answers, takenFresh>>

(***************************************************************************)
(* prepare builds a plan from what it reads and writes nothing.            *)
(***************************************************************************)
\* Mutant: the withdrawal is not looked at.
MetUnchecked(check, inTime) ==
    \/ check = "bind" /\ inTime
    \/ check = "load" /\ upstream
    \/ check \in {"current", "derive", "nested"}
    \/ check = "unused" /\ (inner = NoInner \/ row # NoRow)
    \/ check = "vacant" /\ inner = NoInner

\* Mutant: the wrapper probes for an inner run before its claim, not after it.
MetProbedOnce(check, inTime) ==
    \/ check = "bind" /\ inTime
    \/ check = "load" /\ upstream
    \/ check = "current" /\ ~moved
    \/ check \in {"derive", "nested", "vacant"}
    \/ check = "unused" /\ (inner = NoInner \/ row # NoRow)

Met(check, inTime) ==
    \/ check = "bind" /\ inTime
    \/ check = "load" /\ upstream
    \/ check = "current" /\ ~moved
    \/ check \in {"derive", "nested"}
    \/ check = "unused" /\ (inner = NoInner \/ row # NoRow)
    \/ check = "vacant" /\ inner = NoInner

Prepare(p) ==
    /\ p \notin prepared
    /\ \A i \in 1..Len(svc.prepare) : Met(svc.prepare[i], ~closed)
    /\ prepared' = prepared \cup {p}
    /\ UNCHANGED call
    /\ EnvUnchanged /\ LedgerUnchanged /\ WorkUnchanged

(***************************************************************************)
(* A caller calls execute or recover.  The time and the scope it passes    *)
(* are fixed for the call, so `inTime` is: a second "bind" of the same     *)
(* call cannot come out differently, nor can a second "load" (finished     *)
(* records never change), and the programs leave such repetitions out.     *)
(***************************************************************************)
Start(c, op, p, t) ==
    /\ ~call[c].on
    /\ p \in prepared
    /\ svc[op] # <<>> /\ t \in Instants
    /\ call' = [call EXCEPT ![c] = [on |-> TRUE, op |-> op, pc |-> 1, plan |-> p,
                                    attempt |-> 0, inTime |-> ~closed, at |-> t]]
    /\ UNCHANGED prepared
    /\ EnvUnchanged /\ LedgerUnchanged /\ WorkUnchanged

Next1(c) == call' = [call EXCEPT ![c].pc = @ + 1]
Leave(c) == call' = [call EXCEPT ![c] = Idle]

(***************************************************************************)
(* Checks that only let the call go on.                                    *)
(***************************************************************************)
\* The phase this work belongs to is in the row already: its result is reused.
AlreadySaved(c) == ~svc.shared /\ row.saved > Seen(c)

Holds(c) ==
    \/ \E check \in Checks : At(c, check) /\ Met(check, call[c].inTime)
    \/ At(c, "sealed") /\ Artefact(c) \in artefacts
    \/ /\ At(c, "look") /\ row.state = "started"
       /\ row.attempt = call[c].attempt /\ row.saved = Phases
    \/ At(c, "expire") /\ call[c].inTime
    \/ At(c, "pause")
    \/ At(c, "effect") /\ AlreadySaved(c)
    \/ At(c, "timed") /\ inner.state = "completed" /\ inner.at = call[c].at

Pass(c) ==
    /\ Holds(c) /\ Next1(c)
    /\ UNCHANGED prepared
    /\ EnvUnchanged /\ LedgerUnchanged /\ WorkUnchanged

(***************************************************************************)
(* claim: the INSERT and what follows when a unique key refuses it.        *)
(***************************************************************************)
NewRow(c) ==
    /\ row.state = "none"
    /\ row' = [NoRow EXCEPT !.state = "started", !.plan = call[c].plan, !.attempt = 1,
                            !.at = call[c].at]

\* Mutant: the row keeps its attempt number.
NextAttemptUncounted(c) ==
    /\ row.state = "started" /\ row.plan = call[c].plan
    /\ row.attempt < svc.attempts
    /\ row' = row

NextAttempt(c) ==
    /\ row.state = "started" /\ row.plan = call[c].plan
    /\ row.attempt < svc.attempts
    /\ row' = [row EXCEPT !.attempt = @ + 1]

TakeAttempt(c, n) ==
    /\ call' = [call EXCEPT ![c].pc = @ + 1, ![c].attempt = n]
    /\ takenFresh' = ~moved
    /\ UNCHANGED <<answers, prepared>> /\ EnvUnchanged /\ WorkUnchanged

\* The claim of a shared row hands it to any caller, who goes on after the
\* phases it holds.
JoinAt(c) ==
    CHOOSE i \in 1..Len(Program(c)) :
        /\ i > call[c].pc
        /\ PhasesUpTo(Program(c), i - 1) = row.saved
        /\ \A j \in 1..(i - 1) : j > call[c].pc => PhasesUpTo(Program(c), j - 1) # row.saved

Join(c) ==
    /\ svc.shared /\ row.state = "started" /\ row.plan = call[c].plan
    /\ call' = [call EXCEPT ![c].pc = JoinAt(c), ![c].attempt = row.attempt]
    /\ UNCHANGED <<row, takenFresh, answers, prepared>> /\ EnvUnchanged /\ WorkUnchanged

Claim(c) ==
    /\ At(c, "claim")
    /\ \/ NewRow(c) /\ TakeAttempt(c, 1)
       \/ svc.takeover /\ NextAttempt(c) /\ TakeAttempt(c, row.attempt + 1)
       \/ Join(c)

\* The row is finished: the call answers with the outcome it holds.
Replay(c) ==
    /\ At(c, "claim") \/ At(c, "resume") \/ At(c, "put")
    /\ Finished /\ row.plan = call[c].plan
    /\ answers' = answers \cup {row.outcome}
    /\ Leave(c)
    /\ UNCHANGED <<row, takenFresh, prepared>> /\ EnvUnchanged /\ WorkUnchanged

Recover(c) ==
    /\ At(c, "recover")
    /\ NextAttempt(c) /\ TakeAttempt(c, row.attempt + 1)

\* Some ledgers close the row when its last attempt is to be recovered, and
\* the call raises all the same.
Exhaust(c) ==
    /\ At(c, "recover") /\ svc.exhausts
    /\ row.state = "started" /\ row.plan = call[c].plan /\ row.attempt >= svc.attempts
    /\ row' = [row EXCEPT !.state = "failed",
                          !.outcome = [plan |-> row.plan, attempt |-> row.attempt, end |-> "failed"]]
    /\ Leave(c)
    /\ UNCHANGED <<takenFresh, answers, prepared>> /\ EnvUnchanged /\ WorkUnchanged

\* An approval came for a row that was put aside: one caller gets it.
Resume(c) ==
    /\ At(c, "resume")
    /\ row.state = "waiting" /\ row.plan = call[c].plan
    /\ row' = [row EXCEPT !.state = "started", !.attempt = @ + 1]
    /\ TakeAttempt(c, row.attempt + 1)

(***************************************************************************)
(* The wrapped service, called with this call's time: it keeps a ledger of *)
(* the Once kind, so a finished row answers and a started one refuses.     *)
(***************************************************************************)
Wrap(c) ==
    /\ At(c, "wrap") /\ Next1(c)
    /\ \/ inner = NoInner /\ inner' = InnerRow("wrapper", call[c].at)
       \/ inner.state = "completed" /\ inner' = inner
    /\ UNCHANGED <<svc, upstream, moved, closed, prepared>>
    /\ LedgerUnchanged /\ WorkUnchanged

Settle(c) ==
    /\ At(c, "settle") /\ inner.state # "none" /\ Next1(c)
    /\ inner' = [inner EXCEPT !.state = "completed"]
    /\ UNCHANGED <<svc, upstream, moved, closed, prepared>>
    /\ LedgerUnchanged /\ WorkUnchanged

(***************************************************************************)
(* The work of the attempt.                                                *)
(***************************************************************************)
Did(c) == <<call[c].plan, call[c].attempt, call[c].pc>>

\* A sandbox or an adapter may store evidence of its own, or fail to.
Effect(c) ==
    /\ At(c, "effect") /\ ~AlreadySaved(c)
    /\ worked' = worked \cup {Did(c)}
    /\ twice' = (twice \/ Did(c) \in worked)
    /\ artefacts' \in IF Uses("sealed")
                     THEN {artefacts, artefacts \cup {Artefact(c)}}
                     ELSE {artefacts}
    /\ Next1(c)
    /\ UNCHANGED prepared /\ EnvUnchanged /\ LedgerUnchanged

\* Mutant: the artefact is left to whoever needs it first.
PublishNothing(c) == At(c, "publish") /\ Next1(c) /\ UNCHANGED <<artefacts, worked, twice, prepared>>
                     /\ EnvUnchanged /\ LedgerUnchanged

Publish(c) ==
    /\ At(c, "publish")
    /\ artefacts' = artefacts \cup {Artefact(c)}
    /\ Next1(c)
    /\ UNCHANGED <<worked, twice, prepared>> /\ EnvUnchanged /\ LedgerUnchanged

\* Mutant: the row is set to what the call has seen, whatever it holds.
SaveOverwriting(c) ==
    /\ At(c, "save")
    /\ row.state = "started"
    /\ row' = [row EXCEPT !.saved = Seen(c) + 1]
    /\ Next1(c)
    /\ UNCHANGED <<takenFresh, answers, prepared>> /\ EnvUnchanged /\ WorkUnchanged

\* A phase is appended while the row is started; one already there is kept,
\* or, where the update compares the row with what the call saw, refused.
Save(c) ==
    LET n == Seen(c) + 1
    IN  /\ At(c, "save")
        /\ row.state = "started"
        /\ \/ ~svc.shared /\ n <= row.saved /\ row' = row
           \/ n = row.saved + 1 /\ row' = [row EXCEPT !.saved = n]
        /\ Next1(c)
        /\ UNCHANGED <<takenFresh, answers, prepared>> /\ EnvUnchanged /\ WorkUnchanged

(***************************************************************************)
(* complete / finish: one UPDATE that asks for state 'started' and for the *)
(* attempt of the outcome, and fails unless it changed one row.            *)
(***************************************************************************)
\* Mutant: the UPDATE does not ask for the state.
FenceOfAnyState(c) == row.plan = call[c].plan /\ row.attempt = call[c].attempt

\* Mutant: the UPDATE does not ask for the attempt.
FenceOfAnyAttempt(c) ==
    /\ row.state = "started" /\ row.plan = call[c].plan
    /\ svc.shared => row.saved = Seen(c)

Fence(c) ==
    /\ row.state = "started" /\ row.plan = call[c].plan
    /\ svc.fenced => row.attempt = call[c].attempt
    /\ svc.shared => row.saved = Seen(c)

End(c, end) ==
    /\ row' = [row EXCEPT !.state = end, !.outcome = Outcome(c, end)]
    /\ answers' = answers \cup {Outcome(c, end)}
    /\ Leave(c)
    /\ UNCHANGED <<takenFresh, prepared>> /\ EnvUnchanged /\ WorkUnchanged

Pause(c) ==
    /\ At(c, "pause") /\ Fence(c)
    /\ row' = [row EXCEPT !.state = "waiting"]
    /\ Leave(c)
    /\ UNCHANGED <<takenFresh, answers, prepared>> /\ EnvUnchanged /\ WorkUnchanged

\* An update that does not look at its row count: the row was finished by
\* another attempt, nothing is written, and the call answers all the same.
FinishUnnoticed(c) ==
    /\ ~svc.fenced /\ ~Fence(c)
    /\ answers' = answers \cup {Outcome(c, "completed")}
    /\ Leave(c)
    /\ UNCHANGED <<row, takenFresh, prepared>> /\ EnvUnchanged /\ WorkUnchanged

Finish(c) ==
    /\ At(c, "finish")
    /\ \/ Fence(c) /\ End(c, "completed")
       \/ FinishUnnoticed(c)

\* Stores that keep only finished rows: one INSERT of plan and outcome.
Put(c) ==
    LET outcome == [plan |-> call[c].plan, attempt |-> 1, end |-> "completed"]
    IN  /\ At(c, "put") /\ row.state = "none"
        /\ row' = [NoRow EXCEPT !.state = "completed", !.plan = call[c].plan, !.attempt = 1,
                                !.at = call[c].at, !.outcome = outcome]
        /\ answers' = answers \cup {outcome}
        /\ takenFresh' = ~moved
        /\ Leave(c)
        /\ UNCHANGED prepared /\ EnvUnchanged /\ WorkUnchanged

Expire(c) == At(c, "expire") /\ ~call[c].inTime /\ Fence(c) /\ End(c, "timed_out")

\* A service that catches what its work raises closes the attempt itself.
Fail(c, end) ==
    /\ call[c].on /\ call[c].attempt > 0
    /\ end \in svc.catches
    /\ Fence(c) /\ End(c, end)

\* A call ends before its last step: a check refuses it, a unique key or a
\* fence refuses its write, its deadline runs out, or its process dies.
Abort(c) ==
    /\ call[c].on /\ Leave(c)
    /\ UNCHANGED prepared /\ EnvUnchanged /\ LedgerUnchanged /\ WorkUnchanged

----------------------------------------------------------------------------
Step(c) ==
    \/ Pass(c) \/ Claim(c) \/ Replay(c) \/ Recover(c) \/ Exhaust(c)
    \/ Pause(c) \/ Resume(c) \/ Wrap(c) \/ Settle(c)
    \/ Effect(c) \/ Publish(c) \/ Save(c) \/ Put(c) \/ Expire(c) \/ Finish(c)

Next ==
    \/ \E c \in Calls :
          \/ Step(c) \/ Abort(c)
          \/ \E end \in Ends : Fail(c, end)
          \/ \E op \in {"execute", "recover"}, p \in Plans, t \in Times : Start(c, op, p, t)
    \/ \E p \in Plans : Prepare(p)
    \/ UpstreamFinishes \/ Withdraw \/ WindowCloses \/ InnerMoves

Spec == Init /\ [][Next]_vars

----------------------------------------------------------------------------
(***************************************************************************)
(* Properties.                                                             *)
(***************************************************************************)
Outcomes == [plan : Plans, attempt : Nat, end : Ends]

InnerRows == [state : {"none", "started", "completed"}, by : {"nobody", "wrapper", "direct"},
              at : Times, gated : BOOLEAN]

\* Types of the ledger row, the calls and the history variables.
TypeOK ==
    /\ svc \in Services
    /\ row \in [state : {"none", "started", "waiting"} \cup Ends, plan : Plans, attempt : Nat,
               saved : Nat, outcome : Outcomes \cup {NoOutcome}, at : Times]
    /\ upstream \in BOOLEAN /\ moved \in BOOLEAN /\ closed \in BOOLEAN
    /\ call \in [Calls -> [on : BOOLEAN, op : {"execute", "recover"}, pc : Nat,
                           plan : Plans, attempt : Nat, inTime : BOOLEAN, at : Times]]
    /\ prepared \subseteq Plans
    /\ worked \subseteq (Plans \X Nat \X Nat) /\ twice \in BOOLEAN
    /\ artefacts \subseteq (Plans \X Nat \X Nat)
    /\ answers \subseteq Outcomes
    /\ takenFresh \in BOOLEAN
    /\ inner \in InnerRows

\* Whatever a caller was told is what the ledger holds: callers that race,
\* replay or recover one key never hear two different outcomes, and the one
\* they hear is never replaced.  (Where the update compares neither the attempt
\* nor its row count, two calls can each be told their own attempt's.  The reply
\* of a call that pauses, "approval_required", is not an outcome.)
OneAnswer ==
    \A a \in answers :
        /\ Finished /\ a.plan = row.outcome.plan /\ a.end = row.outcome.end
        /\ svc.fenced => a = row.outcome

\* Work outside the ledger is done under a claim, for the plan that holds the
\* key, and at most once per attempt: no interleaving of claims, takeovers and
\* crashes makes two calls run the same attempt.  (A shared row has no attempts:
\* callers that join it repeat each other's work and lose at the update.)
WorkOnce ==
    /\ svc.shared \/ ~twice
    /\ \A w \in worked : /\ row.state # "none" /\ row.plan = w[1]
                         /\ 1 <= w[2] /\ w[2] <= row.attempt

\* The attempt that decides is the last one: a call whose attempt was taken
\* over while it was working cannot write its outcome.  (Where the update does
\* not compare the attempt, one taken over after its last look can.)
LastAttemptDecides ==
    Finished => /\ row.outcome.plan = row.plan
                /\ svc.fenced => row.outcome.attempt = row.attempt

\* An outcome is never one of an attempt that began after the fact it relies
\* on was withdrawn: the services that check again after the claim close the
\* window between the first check and the claim.
FreshOutcome ==
    row.state = "completed" /\ "fresh" \in svc.promises => takenFresh

\* A row exists only if what its plan is bound to was finished before.
UpstreamFirst == row.state # "none" /\ "upstream" \in svc.promises => upstream

\* The artefact a completed outcome refers to is stored, whatever crashed.
SealedOutcome ==
    row.state = "completed" /\ "sealed" \in svc.promises =>
        \A i \in 1..Len(svc.execute) :
            svc.execute[i] \in {"publish", "sealed"} =>
                <<row.outcome.plan, row.outcome.attempt, PhasesUpTo(svc.execute, i)>> \in artefacts

\* An outcome covers every phase, although attempts that died in between left
\* the row with some of them and a later attempt resumed from there.
PhasesKept == row.state = "completed" => row.saved = Phases

\* A wrapper's outcome binds a finished inner outcome.
BoundInner == row.state = "completed" /\ Uses("wrap") => inner.state = "completed"

\* A wrapper's outcome never binds a run that began before the wrapper held its
\* row ("M8.2 checkpoint predates pilot outcome gate"), although the two probes
\* and the claim are transactions of their own in two ledgers.  A direct run that
\* begins between the second probe and the inner claim can still be bound; where
\* the times are compared, only if its caller passed the time of the wrapper's claim.
RunUnderGate ==
    row.state = "completed" =>
        /\ "gated" \in svc.promises => inner.gated
        /\ "timed" \in svc.promises => inner.at = row.at

\* A row rests on what was finished before it, and a completed one on all of it:
\* the records of its plan, its own phases, the run it wraps.
RestsOnFinished == TypeOK /\ UpstreamFirst /\ PhasesKept /\ BoundInner
=============================================================================
