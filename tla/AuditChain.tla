----------------------------- MODULE AuditChain -----------------------------
(***************************************************************************)
(* The authoritative event log of the control plane                        *)
(* (src/vulnloom/storage): a SQLite database that holds, per engagement,   *)
(* the domain events and a hash chain of audit records with its head, and  *)
(* outside the database one checkpoint file per audit stream.              *)
(*                                                                         *)
(* A CheckpointedEventStore operation is not atomic: it loads the trusted  *)
(* checkpoint, runs one database transaction, issues a new checkpoint from *)
(* the database and replaces the file under a lock.  Several processes run *)
(* operations at the same time and any of them may die between two steps.  *)
(*                                                                         *)
(* Digests are collision free, so the digest of a chain is modelled by the *)
(* sequence of the contents it seals: <<>> is AUDIT_GENESIS_DIGEST and the *)
(* digest of a record is Append(previous digest, content).  Checkpoint ids *)
(* are digests of the whole checkpoint: checkpoints are compared as values.*)
(***************************************************************************)
EXTENDS Integers, Sequences, FiniteSets

CONSTANTS
    Procs,          \* processes that use the store
    Engagements,    \* engagement ids; each has one audit stream
    Keys, Bodies, Binds,  \* idempotency keys, redacted payloads, bindings
    Requests,       \* what callers append: [eng, key, body, bind]
    None,           \* no checkpoint file, no head row
    MaxRecords,     \* max_records_per_stream
    MaxClock,       \* bound on the clock
    MaxCommits,     \* bound on committed appends
    MaxBackups,     \* bound on copies of the database kept by the operator
    MaxFaults,      \* bound on lost rows and restored copies
    MaxCrashes      \* bound on processes that die in an operation

ASSUME AuditConstants ==
    /\ MaxRecords \in Nat \ {0}
    /\ MaxClock \in Nat
    /\ MaxCommits \in Nat
    /\ MaxBackups \in Nat
    /\ MaxFaults \in Nat
    /\ MaxCrashes \in Nat
    /\ Requests \subseteq [eng : Engagements, key : Keys, body : Bodies, bind : Binds]

VARIABLES
    db,        \* the database: [events, rows, head], each per engagement
    custody,   \* checkpoint file of each stream, or None
    pc,        \* where each process is in its operation
    call,      \* the arguments of the operation it is in
    expected,  \* the trusted checkpoint the operation works from
    latest,    \* the checkpoint it has issued and not yet stored
    result,    \* the events it will return
    clock,     \* the wall clock callers read `now` from
    commits,   \* committed appends; numbers event ids
    backups,   \* complete copies of the database
    faults,    \* lost rows and restored copies so far
    crashes,   \* processes that died in an operation so far
    acked,     \* history: events some caller was given, per engagement
    served     \* history: longest event list given to a caller

local == <<pc, call, expected, latest, result>>
history == <<acked, served>>
environment == <<clock, backups, faults, crashes>>
vars == <<db, custody, local, commits, environment, history>>

-----------------------------------------------------------------------------
\* An event as its row holds it.  The id stands for event_id and occurred_at,
\* which are fresh for every stored event.
Event == [key : Keys, body : Bodies, id : Nat]

\* What an audit record seals: the transition digest of its event and the bindings.
Content == [key : Keys, body : Bodies, bind : Binds, id : Nat]

Digest == Seq(Content)
Genesis == <<>>

\* A stored audit record; previous_digest links it to its predecessor.
AuditRecord == [prev : Digest, content : Content]
RecordDigest(r) == Append(r.prev, r.content)
RecordSequence(r) == Len(r.prev) + 1

HeadRow == [seq : Nat, digest : Digest]
AuditCheckpoint == [seq : Nat, digest : Digest, issued : Nat]

Database ==
    [events : [Engagements -> Seq(Event)],
     rows   : [Engagements -> Seq(AuditRecord)],
     head   : [Engagements -> HeadRow \cup {None}]]

EventOf(c) == [key |-> c.key, body |-> c.body, id |-> c.id]

-----------------------------------------------------------------------------
\* None is no checkpoint and no head row.
ASSUME NoneIsFresh == None \notin HeadRow /\ None \notin AuditCheckpoint

\* The arguments of CheckpointedEventStore.append and list_for_engagement.
\* `late` tells whether the deadline of an append is at or before `now`.
\* `floor` is a history field: the events known to callers at the start.
Call == [kind : {"append", "list"}, eng : Engagements,
         req : Requests \cup {None}, late : BOOLEAN, now : Nat,
         floor : SUBSET Event]

PCs == {"idle", "load", "empty", "genesis", "initialize", "txn", "seal", "advance"}

Eng(p) == call[p].eng
Now(p) == call[p].now
Quiet == \A p \in Procs : pc[p] = "idle"

\* The operation ends, by return, by an exception or by the death of the
\* process: its local state is gone.
Leave(p) ==
    /\ pc' = [pc EXCEPT ![p] = "idle"]
    /\ call' = [call EXCEPT ![p] = None]
    /\ expected' = [expected EXCEPT ![p] = None]
    /\ latest' = [latest EXCEPT ![p] = None]
    /\ result' = [result EXCEPT ![p] = <<>>]

Fail(p) == Leave(p) /\ UNCHANGED <<db, custody, commits, environment, history>>

-----------------------------------------------------------------------------
(* AuthoritativeAuditStore._verify_locked *)

LastDigest(rows) == IF rows = <<>> THEN Genesis ELSE RecordDigest(rows[Len(rows)])

WithinLimits(d, e) == Len(d.rows[e]) <= MaxRecords

LocalChainIntact(d, e) ==
    LET rows == d.rows[e] IN
    /\ \A i \in 1..Len(rows) :
          /\ RecordSequence(rows[i]) = i
          /\ rows[i].prev = IF i = 1 THEN Genesis ELSE RecordDigest(rows[i - 1])
    /\ d.head[e] = IF rows = <<>> THEN None
                   ELSE [seq |-> Len(rows), digest |-> LastDigest(rows)]

\* Mutant: a chain shorter than the checkpoint is accepted.
AnchoredIgnoringRollback(d, e, c, now) ==
    LET rows == d.rows[e] IN
    /\ c.issued <= now
    /\ c.seq \in 1..Len(rows) => c.digest = RecordDigest(rows[c.seq])

\* The chain extends what the trusted checkpoint anchors, and the checkpoint
\* was not issued after the caller's `now`.
Anchored(d, e, c, now) ==
    LET rows == d.rows[e] IN
    /\ c.issued <= now
    /\ c.seq <= Len(rows)
    /\ c.digest = IF c.seq = 0 THEN Genesis ELSE RecordDigest(rows[c.seq])

Verified(d, e) == WithinLimits(d, e) /\ LocalChainIntact(d, e)
VerifiedFrom(d, e, c, now) == Verified(d, e) /\ Anchored(d, e, c, now)

(* AuthoritativeAuditStore.checkpoint *)
CheckpointOf(d, e, now) ==
    [seq |-> Len(d.rows[e]), digest |-> LastDigest(d.rows[e]), issued |-> now]

-----------------------------------------------------------------------------
(* EventStore *)

EventKeys(d, e) == {d.events[e][i].key : i \in 1..Len(d.events[e])}
RecordKeys(d, e) == {d.rows[e][i].content.key : i \in 1..Len(d.rows[e])}

\* Mutant: the records without an event are not counted.
PairsMatchOneWay(d, e) ==
    \A i \in 1..Len(d.events[e]) : \E j \in 1..Len(d.rows[e]) :
        EventOf(d.rows[e][j].content) = d.events[e][i]

\* _assert_authoritative_pairs_locked: as many records as events, and every
\* event has the record of its key with its own transition digest.
PairsMatch(d, e) ==
    /\ Cardinality(EventKeys(d, e)) = Cardinality(RecordKeys(d, e))
    /\ \A i \in 1..Len(d.events[e]) : \E j \in 1..Len(d.rows[e]) :
          EventOf(d.rows[e][j].content) = d.events[e][i]

AuthoritativeStateIsEmpty(d, e) ==
    d.events[e] = <<>> /\ d.rows[e] = <<>> /\ d.head[e] = None

\* The idempotency key is UNIQUE over the events of every engagement.
KeyTaken(d, k) == \E e \in Engagements : k \in EventKeys(d, e)

\* Insert the event, its record and the new head in one transaction.
Committed(d, e, c) ==
    LET row == [prev |-> LastDigest(d.rows[e]), content |-> c] IN
    [events |-> [d.events EXCEPT ![e] = Append(@, EventOf(c))],
     rows   |-> [d.rows EXCEPT ![e] = Append(@, row)],
     head   |-> [d.head EXCEPT ![e] = [seq |-> Len(d.rows[e]) + 1,
                                       digest |-> RecordDigest(row)]]]

-----------------------------------------------------------------------------
(* FileAuditCheckpointStore *)

SameTrust(c, d) == c.seq = d.seq /\ c.digest = d.digest

\* What `initialize` leaves in the file, under the stream's lock.
CanInitialize(stored, c) ==
    /\ c.seq = 0
    /\ stored # None => SameTrust(stored, c)

Initialized(stored, c) == IF stored = None THEN c ELSE stored

\* Mutant: a checkpoint that is already stored is a conflict.
CanAdvanceNotIdempotent(stored, exp, c) ==
    stored # None /\ stored = exp /\ c.seq > stored.seq

\* Mutant: no comparison with the checkpoint the operation started from.
CanAdvanceWithoutCompare(stored, exp, c) == stored # None

\* `advance`: idempotent on the stored trust, otherwise a compare-and-swap
\* from the checkpoint the operation was given to a longer chain.
CanAdvance(stored, exp, c) ==
    /\ stored # None
    /\ \/ SameTrust(stored, c)
       \/ /\ stored = exp
          /\ c.seq > stored.seq
          /\ c.issued >= stored.issued

Advanced(stored, c) == IF SameTrust(stored, c) THEN stored ELSE c

-----------------------------------------------------------------------------
(* Steps of an operation *)

Begin(p, kind, e, r, late) ==
    /\ pc[p] = "idle"
    /\ pc' = [pc EXCEPT ![p] = "load"]
    /\ call' = [call EXCEPT ![p] =
                  [kind |-> kind, eng |-> e, req |-> r, late |-> late,
                   now |-> clock, floor |-> acked[e]]]
    /\ UNCHANGED <<expected, latest, result>>
    /\ UNCHANGED <<db, custody, commits, environment, history>>

BeginAppend(p, r, late) == Begin(p, "append", r.eng, r, late)
BeginList(p, e) == Begin(p, "list", e, None, FALSE)

\* _trusted_checkpoint: the file is there.
Load(p) ==
    /\ pc[p] = "load"
    /\ IF custody[Eng(p)] # None
       THEN /\ expected' = [expected EXCEPT ![p] = custody[Eng(p)]]
            /\ pc' = [pc EXCEPT ![p] = "txn"]
       ELSE /\ pc' = [pc EXCEPT ![p] = "empty"]
            /\ UNCHANGED expected
    /\ UNCHANGED <<call, latest, result>>
    /\ UNCHANGED <<db, custody, commits, environment, history>>

\* _trusted_checkpoint without a file: only an empty stream may start one.
CheckEmpty(p) ==
    /\ pc[p] = "empty"
    /\ \/ /\ AuthoritativeStateIsEmpty(db, Eng(p))
          /\ pc' = [pc EXCEPT ![p] = "genesis"]
          /\ UNCHANGED <<call, expected, latest, result>>
          /\ UNCHANGED <<db, custody, commits, environment, history>>
       \/ ~AuthoritativeStateIsEmpty(db, Eng(p)) /\ Fail(p)

\* checkpoint(): issue a checkpoint from the verified database.
Issue(p, from, to) ==
    /\ pc[p] = from
    /\ \/ /\ Verified(db, Eng(p))
          /\ latest' = [latest EXCEPT ![p] = CheckpointOf(db, Eng(p), Now(p))]
          /\ pc' = [pc EXCEPT ![p] = to]
          /\ UNCHANGED <<call, expected, result>>
          /\ UNCHANGED <<db, custody, commits, environment, history>>
       \/ ~Verified(db, Eng(p)) /\ Fail(p)

IssueGenesis(p) == Issue(p, "genesis", "initialize")

Initialize(p) ==
    /\ pc[p] = "initialize"
    /\ LET e == Eng(p) IN
       \/ /\ CanInitialize(custody[e], latest[p])
          /\ custody' = [custody EXCEPT ![e] = Initialized(@, latest[p])]
          /\ expected' = [expected EXCEPT ![p] = custody'[e]]
          /\ latest' = [latest EXCEPT ![p] = None]
          /\ pc' = [pc EXCEPT ![p] = "txn"]
          /\ UNCHANGED <<call, result, db, commits, environment, history>>
       \/ ~CanInitialize(custody[e], latest[p]) /\ Fail(p)

\* Both transactions verify the chain against the trusted checkpoint and the
\* event/record pairs before anything else.
Trusted(p) ==
    /\ VerifiedFrom(db, Eng(p), expected[p], Now(p))
    /\ PairsMatch(db, Eng(p))

\* append_authoritative: neither the event nor its record exists, and the
\* deadline has not passed.
IsNew(p) ==
    /\ ~KeyTaken(db, call[p].req.key)
    /\ call[p].req.key \notin RecordKeys(db, Eng(p))
    /\ ~call[p].late

\* Mutant: the payload of the stored event is not compared.
IsReplayOfKey(p, c) ==
    /\ \E i \in 1..Len(db.rows[Eng(p)]) : db.rows[Eng(p)][i].content = c
    /\ call[p].req.key = c.key

\* append_authoritative: the pair exists and the request agrees with it.
\* _assert_idempotent compares the event, append_in_transaction the bindings.
IsReplayOf(p, c) ==
    /\ \E i \in 1..Len(db.rows[Eng(p)]) : db.rows[Eng(p)][i].content = c
    /\ \E i \in 1..Len(db.events[Eng(p)]) : db.events[Eng(p)][i] = EventOf(c)
    /\ call[p].req = [eng |-> Eng(p), key |-> c.key, body |-> c.body, bind |-> c.bind]

StoredContents(e) == {db.rows[e][i].content : i \in 1..Len(db.rows[e])}

AppendNew(p) ==
    LET r == call[p].req
        c == [key |-> r.key, body |-> r.body, bind |-> r.bind, id |-> commits]
    IN
    /\ IsNew(p)
    /\ commits < MaxCommits
    /\ db' = Committed(db, r.eng, c)
    /\ commits' = commits + 1
    /\ result' = [result EXCEPT ![p] = <<EventOf(c)>>]

AppendReplay(p) ==
    /\ \E c \in StoredContents(Eng(p)) :
          IsReplayOf(p, c) /\ result' = [result EXCEPT ![p] = <<EventOf(c)>>]
    /\ UNCHANGED <<db, commits>>

\* append_authoritative: one BEGIN IMMEDIATE transaction, rolled back on error.
\* The bound on commits shows as a failed write.
AppendTxn(p) ==
    /\ pc[p] = "txn" /\ call[p].kind = "append"
    /\ \/ /\ Trusted(p)
          /\ AppendNew(p) \/ AppendReplay(p)
          /\ pc' = [pc EXCEPT ![p] = "seal"]
          /\ UNCHANGED <<call, expected, latest, custody, environment, history>>
       \/ /\ ~ /\ Trusted(p)
               /\ \/ IsNew(p) /\ commits < MaxCommits
                  \/ \E c \in StoredContents(Eng(p)) : IsReplayOf(p, c)
          /\ Fail(p)

\* list_authoritative_for_engagement: one read transaction.
ListTxn(p) ==
    /\ pc[p] = "txn" /\ call[p].kind = "list"
    /\ \/ /\ Trusted(p)
          /\ result' = [result EXCEPT ![p] = db.events[Eng(p)]]
          /\ pc' = [pc EXCEPT ![p] = "seal"]
          /\ UNCHANGED <<call, expected, latest>>
          /\ UNCHANGED <<db, custody, commits, environment, history>>
       \/ ~Trusted(p) /\ Fail(p)

IssueLatest(p) == Issue(p, "seal", "advance")

\* advance(), and the return of the operation to its caller.
Advance(p) ==
    /\ pc[p] = "advance"
    /\ LET e == Eng(p) IN
       \/ /\ CanAdvance(custody[e], expected[p], latest[p])
          /\ custody' = [custody EXCEPT ![e] = Advanced(@, latest[p])]
          /\ acked' = [acked EXCEPT ![e] =
                         @ \cup {result[p][i] : i \in 1..Len(result[p])}]
          /\ served' = IF call[p].kind = "list" /\ Len(result[p]) >= Len(served[e])
                       THEN [served EXCEPT ![e] = result[p]] ELSE served
          /\ Leave(p)
          /\ UNCHANGED <<db, commits, environment>>
       \/ ~CanAdvance(custody[e], expected[p], latest[p]) /\ Fail(p)

\* The process dies.  SQLite rolls back an open transaction and the lock of
\* the checkpoint file goes with its descriptor.
Crash(p) ==
    /\ pc[p] # "idle"
    /\ crashes < MaxCrashes
    /\ crashes' = crashes + 1
    /\ Leave(p)
    /\ UNCHANGED <<db, custody, commits, clock, backups, faults, history>>

Step(p) ==
    \/ Load(p) \/ CheckEmpty(p) \/ IssueGenesis(p) \/ Initialize(p)
    \/ AppendTxn(p) \/ ListTxn(p) \/ IssueLatest(p) \/ Advance(p)

-----------------------------------------------------------------------------
(* The environment: time, and what happens to the database file while no     *)
(* operation runs.  The documented recovery stops writes and queries before  *)
(* it restores a complete copy (docs/ARCHITECTURE.md, S1.4).                 *)

Tick ==
    /\ clock < MaxClock
    /\ clock' = clock + 1
    /\ UNCHANGED <<db, custody, local, commits, backups, faults, crashes, history>>

Backup ==
    /\ Cardinality(backups) < MaxBackups
    /\ backups' = backups \cup {db}
    /\ UNCHANGED <<db, custody, local, commits, clock, faults, crashes, history>>

\* Everything but the database stays as it is.
Disturb(d) ==
    /\ Quiet
    /\ faults < MaxFaults
    /\ faults' = faults + 1
    /\ db' = d
    /\ UNCHANGED <<custody, local, commits, clock, backups, crashes, history>>

Restore == \E b \in backups : b # db /\ Disturb(b)

Without(s, i) == [j \in 1..(Len(s) - 1) |-> s[IF j < i THEN j ELSE j + 1]]

LoseEvent(e) ==
    \E i \in 1..Len(db.events[e]) :
        Disturb([db EXCEPT !.events[e] = Without(@, i)])

LoseRecord(e) ==
    \E i \in 1..Len(db.rows[e]) :
        Disturb([db EXCEPT !.rows[e] = Without(@, i)])

LoseHead(e) ==
    db.head[e] # None /\ Disturb([db EXCEPT !.head[e] = None])

-----------------------------------------------------------------------------
EmptyDatabase ==
    [events |-> [e \in Engagements |-> <<>>],
     rows   |-> [e \in Engagements |-> <<>>],
     head   |-> [e \in Engagements |-> None]]

Init ==
    /\ db = EmptyDatabase
    /\ custody = [e \in Engagements |-> None]
    /\ pc = [p \in Procs |-> "idle"]
    /\ call = [p \in Procs |-> None]
    /\ expected = [p \in Procs |-> None]
    /\ latest = [p \in Procs |-> None]
    /\ result = [p \in Procs |-> <<>>]
    /\ clock = 0
    /\ commits = 0
    /\ backups = {}
    /\ faults = 0
    /\ crashes = 0
    /\ acked = [e \in Engagements |-> {}]
    /\ served = [e \in Engagements |-> <<>>]

Next ==
    \/ \E p \in Procs :
          \/ \E r \in Requests, late \in BOOLEAN : BeginAppend(p, r, late)
          \/ \E e \in Engagements : BeginList(p, e)
          \/ Step(p)
          \/ Crash(p)
    \/ Tick \/ Backup \/ Restore
    \/ \E e \in Engagements : LoseEvent(e) \/ LoseRecord(e) \/ LoseHead(e)

Spec == Init /\ [][Next]_vars

\* A running process takes its next step, and a caller that got an error
\* keeps retrying its append.
Fairness ==
    /\ \A p \in Procs : WF_vars(Step(p))
    /\ \A r \in Requests :
          SF_vars(\E p \in Procs, late \in BOOLEAN : BeginAppend(p, r, late))

LiveSpec == Spec /\ Fairness

-----------------------------------------------------------------------------
(* Properties *)

\* Every variable keeps its kind of value: rows, checkpoints, calls and the
\* histories of what CheckpointedEventStore has returned.
TypeOK ==
    /\ db \in Database
    /\ custody \in [Engagements -> AuditCheckpoint \cup {None}]
    /\ pc \in [Procs -> PCs]
    /\ call \in [Procs -> Call \cup {None}]
    /\ expected \in [Procs -> AuditCheckpoint \cup {None}]
    /\ latest \in [Procs -> AuditCheckpoint \cup {None}]
    /\ result \in [Procs -> Seq(Event)]
    /\ clock \in 0..MaxClock
    /\ commits \in 0..MaxCommits
    /\ backups \subseteq Database
    /\ faults \in 0..MaxFaults
    /\ crashes \in 0..MaxCrashes
    /\ acked \in [Engagements -> SUBSET Event]
    /\ served \in [Engagements -> Seq(Event)]

\* What a process has at hand at each point of its operation: its arguments,
\* the checkpoint it trusts and the checkpoint it has issued.
LocalOK ==
    \A p \in Procs :
        /\ pc[p] # "idle" =>
              /\ call[p] \in Call
              /\ call[p].kind = "append" =>
                    call[p].req \in Requests /\ call[p].req.eng = call[p].eng
        /\ pc[p] \in {"txn", "seal", "advance"} => expected[p] \in AuditCheckpoint
        /\ pc[p] \in {"initialize", "advance"} => latest[p] \in AuditCheckpoint

ListsFloor(p) ==
    (pc[p] \in {"seal", "advance"} /\ call[p].kind = "list") =>
        \A ev \in call[p].floor : \E i \in 1..Len(result[p]) : result[p][i] = ev

\* An event list about to be returned holds every event that any caller knew
\* of when the query began, whatever copy of the database was restored and
\* whatever rows were lost: list_for_engagement fails instead of forgetting.
KnownEventsListed == \A p \in Procs : ListsFloor(p)

\* The trusted checkpoint covers every event callers know of: append returns
\* only after `advance`, so a crash leaves at most unacknowledged events
\* outside the anchored chain.
KnownEventsAnchored ==
    \A e \in Engagements : acked[e] # {} =>
        /\ custody[e] # None
        /\ \A ev \in acked[e] : \E i \in 1..Len(custody[e].digest) :
              EventOf(custody[e].digest[i]) = ev

\* An idempotency key names one event for all callers: after crashes, retries
\* and restored copies, no two acknowledged events of an engagement share it.
OneEventPerKey ==
    \A e \in Engagements : \A x, y \in acked[e] : x.key = y.key => x = y

\* An append returns the event of its own request, whatever the key was used
\* for before: reuse with another payload or engagement is refused.
ReplyMatchesRequest ==
    \A p \in Procs :
        (pc[p] \in {"seal", "advance"} /\ call[p].kind = "append") =>
            /\ Len(result[p]) = 1
            /\ result[p][1].key = call[p].req.key
            /\ result[p][1].body = call[p].req.body
            /\ \E c \in StoredContents(Eng(p)) :
                  EventOf(c) = result[p][1] /\ c.bind = call[p].req.bind

Extends(s, t) == Len(t) <= Len(s) /\ \A i \in 1..Len(t) : s[i] = t[i]

\* The checkpoint file never goes back and never moves to another history,
\* although `advance` compares only predecessor identity and length.
CustodyOnlyExtends ==
    [][\A e \in Engagements : custody[e] # None =>
          custody'[e] # None /\ Extends(custody'[e].digest, custody[e].digest)]_vars

\* Two event lists given to callers never disagree: a list at least as long
\* as an earlier one continues it.
ListsAgree ==
    [][\A e \in Engagements : Extends(served'[e], served[e])]_vars

\* r was committed and no caller has been told.
Unacknowledged(r) ==
    \E c \in StoredContents(r.eng) :
        /\ c.key = r.key /\ c.body = r.body /\ c.bind = r.bind
        /\ EventOf(c) \notin acked[r.eng]

\* A committed event whose checkpoint was not advanced (crash or lost race
\* for the file) is acknowledged when its caller retries it.
ReplayAdvancesCheckpoint ==
    \A r \in Requests : Unacknowledged(r) ~> ~Unacknowledged(r)

\* The log as its callers see it: the events that the trusted checkpoint
\* seals, and the arguments of the calls under way.
Events(digest) == [i \in 1..Len(digest) |-> EventOf(digest[i])]

SealedEvents ==
    [e \in Engagements |-> IF custody[e] = None THEN <<>> ELSE Events(custody[e].digest)]

Asked(p) ==
    [by |-> p, kind |-> call[p].kind, eng |-> call[p].eng, req |-> call[p].req,
     known |-> call[p].floor]

Waiting == {Asked(p) : p \in {q \in Procs : pc[q] # "idle"}}

Log == INSTANCE EventHistory WITH
    history <- SealedEvents, told <- acked, waiting <- Waiting

\* Database, chain and checkpoint file together implement one history per
\* engagement, whichever operations overlap or die between the commit and the
\* checkpoint: each answer is taken from it, and only an answer continues it.
OneHistory == Log!Spec

-----------------------------------------------------------------------------
(* The inductive invariant behind KnownEventsListed, KnownEventsAnchored,    *)
(* OneEventPerKey and CustodyOnlyExtends.                                    *)

\* The rows of a stream come from one chain, possibly with gaps, and no two
\* of them have the same idempotency key.
Lineage(d) ==
    \A e \in Engagements : \A j \in 1..Len(d.rows[e]) : \A i \in 1..(j - 1) :
        /\ Extends(d.rows[e][j].prev, RecordDigest(d.rows[e][i]))
        /\ d.rows[e][i].content.key # d.rows[e][j].content.key

\* A checkpoint numbers the contents it seals, which have different keys.
SealedOnce(c) ==
    /\ Len(c.digest) = c.seq
    /\ \A i, j \in 1..Len(c.digest) : c.digest[i].key = c.digest[j].key => i = j

Covers(digest, evs) ==
    \A ev \in evs : \E i \in 1..Len(digest) : EventOf(digest[i]) = ev

\* The database extends a checkpoint.
ExtendsCheckpoint(d, e, c) ==
    /\ c.seq <= Len(d.rows[e])
    /\ c.digest = IF c.seq = 0 THEN Genesis ELSE RecordDigest(d.rows[e][c.seq])

CustodyInv ==
    \A e \in Engagements : custody[e] # None => SealedOnce(custody[e])

\* What each process relies on between two steps.
ProcessInv(p) ==
    /\ pc[p] # "idle" => call[p].floor \subseteq acked[Eng(p)]
    /\ pc[p] \in {"txn", "seal", "advance"} =>
          SealedOnce(expected[p]) /\ Covers(expected[p].digest, call[p].floor)
    /\ pc[p] \in {"initialize", "advance"} => SealedOnce(latest[p])
    /\ pc[p] = "seal" =>
          /\ LocalChainIntact(db, Eng(p))
          /\ ExtendsCheckpoint(db, Eng(p), expected[p])
          /\ \A i \in 1..Len(result[p]) : \E j \in 1..Len(db.rows[Eng(p)]) :
                EventOf(db.rows[Eng(p)][j].content) = result[p][i]
    /\ pc[p] = "advance" =>
          /\ Extends(latest[p].digest, expected[p].digest)
          /\ \A i \in 1..Len(result[p]) : \E j \in 1..Len(latest[p].digest) :
                EventOf(latest[p].digest[j]) = result[p][i]

LogInv ==
    /\ Lineage(db)
    /\ \A b \in backups : Lineage(b)
    /\ CustodyInv
    /\ KnownEventsAnchored
    /\ KnownEventsListed
    /\ \A p \in Procs : ProcessInv(p)
=============================================================================
