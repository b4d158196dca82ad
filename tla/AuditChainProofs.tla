-------------------------- MODULE AuditChainProofs --------------------------
(***************************************************************************)
(* Proofs about AuditChain, for any processes, engagements, requests and   *)
(* bounds.                                                                 *)
(***************************************************************************)
EXTENDS AuditChain, TLAPS, SequenceTheorems, FiniteSetTheorems, WellFoundedInduction

TypeInv == TypeOK /\ LocalOK

\* EventOf drops the bindings of a content.
LEMMA EventOfType == ASSUME NEW c \in Content PROVE EventOf(c) \in Event
  BY DEF EventOf, Content, Event

\* The chain digest of a stored stream is a digest.
LEMMA LastDigestType ==
  ASSUME NEW rows \in Seq(AuditRecord) PROVE LastDigest(rows) \in Digest
<1>1. CASE rows = <<>> BY <1>1 DEF LastDigest, Digest, Genesis
<1>2. CASE rows # <<>>
  <2>1. rows[Len(rows)] \in AuditRecord BY <1>2
  <2>2. RecordDigest(rows[Len(rows)]) \in Digest
    BY <2>1 DEF AuditRecord, RecordDigest, Digest
  <2> QED BY <1>2, <2>2 DEF LastDigest
<1> QED BY <1>1, <1>2

\* A checkpoint issued from a well-typed database is a checkpoint.
LEMMA CheckpointType ==
  ASSUME NEW d \in Database, NEW e \in Engagements, NEW n \in Nat
  PROVE  CheckpointOf(d, e, n) \in AuditCheckpoint
<1>1. d.rows[e] \in Seq(AuditRecord) BY DEF Database
<1> QED BY <1>1, LastDigestType DEF CheckpointOf, AuditCheckpoint

\* A committed append leaves a well-typed database.
LEMMA CommittedType ==
  ASSUME NEW d \in Database, NEW e \in Engagements, NEW c \in Content
  PROVE  Committed(d, e, c) \in Database
<1> DEFINE row == [prev |-> LastDigest(d.rows[e]), content |-> c]
<1>1. d.rows[e] \in Seq(AuditRecord) /\ d.events[e] \in Seq(Event) BY DEF Database
<1>2. row \in AuditRecord BY <1>1, LastDigestType DEF AuditRecord
<1>3. RecordDigest(row) \in Digest BY <1>2 DEF RecordDigest, AuditRecord, Digest
<1>4. [seq |-> Len(d.rows[e]) + 1, digest |-> RecordDigest(row)] \in HeadRow
  BY <1>1, <1>3 DEF HeadRow
<1>5. Append(d.rows[e], row) \in Seq(AuditRecord) BY <1>1, <1>2
<1>6. Append(d.events[e], EventOf(c)) \in Seq(Event) BY <1>1, EventOfType
<1> QED BY <1>4, <1>5, <1>6 DEF Committed, Database

\* Dropping an element leaves a sequence over the same set.
LEMMA WithoutType ==
  ASSUME NEW S, NEW s \in Seq(S), NEW i \in 1..Len(s)
  PROVE  /\ Without(s, i) \in Seq(S)
         /\ Len(Without(s, i)) = Len(s) - 1
         /\ \A j \in 1..(Len(s) - 1) : Without(s, i)[j] = s[IF j < i THEN j ELSE j + 1]
<1>1. Len(s) - 1 \in Nat OBVIOUS
<1>2. \A j \in 1..(Len(s) - 1) : s[IF j < i THEN j ELSE j + 1] \in S OBVIOUS
<1>3. Without(s, i) \in [1..(Len(s) - 1) -> S] BY <1>2 DEF Without
<1>4. Without(s, i) \in Seq(S) BY <1>1, <1>3, SeqDef
<1> QED BY <1>1, <1>3, <1>4, LenProperties DEF Without

-----------------------------------------------------------------------------
(* Type correctness *)

\* Leaving an operation resets the local state of one process only.
LEMMA LeaveType ==
  ASSUME TypeInv, NEW p \in Procs, Leave(p)
  PROVE  /\ pc' \in [Procs -> PCs]
         /\ call' \in [Procs -> Call \cup {None}]
         /\ expected' \in [Procs -> AuditCheckpoint \cup {None}]
         /\ latest' \in [Procs -> AuditCheckpoint \cup {None}]
         /\ result' \in [Procs -> Seq(Event)]
         /\ LocalOK'
  BY DEF TypeInv, TypeOK, LocalOK, Leave, PCs

\* An operation that raises keeps the types.
LEMMA FailType ==
  ASSUME TypeInv, NEW p \in Procs, Fail(p) PROVE TypeInv'
<1>1. /\ pc' \in [Procs -> PCs]
      /\ call' \in [Procs -> Call \cup {None}]
      /\ expected' \in [Procs -> AuditCheckpoint \cup {None}]
      /\ latest' \in [Procs -> AuditCheckpoint \cup {None}]
      /\ result' \in [Procs -> Seq(Event)]
      /\ LocalOK'
  BY LeaveType DEF Fail
<1> QED BY <1>1 DEF TypeInv, TypeOK, Fail, environment, history

\* The empty database and idle processes are well typed.
LEMMA TypeInit == Init => TypeInv
  BY AuditConstants
     DEF Init, TypeInv, TypeOK, LocalOK, EmptyDatabase, Database, PCs

\* Every step of a store operation or of the environment keeps the types.
LEMMA TypeNext == TypeInv /\ [Next]_vars => TypeInv'
<1> SUFFICES ASSUME TypeInv, [Next]_vars PROVE TypeInv'
  OBVIOUS
<1> USE DEF TypeInv
<1>1. ASSUME NEW p \in Procs, NEW r \in Requests, NEW late \in BOOLEAN,
             BeginAppend(p, r, late)
      PROVE  TypeInv'
  <2>1. r.eng \in Engagements BY AuditConstants
  <2>2. [kind |-> "append", eng |-> r.eng, req |-> r, late |-> late,
         now |-> clock, floor |-> acked[r.eng]] \in Call
    BY <2>1 DEF Call, TypeOK
  <2> QED BY <1>1, <2>2
    DEF BeginAppend, Begin, TypeOK, LocalOK, PCs, environment, history
<1>2. ASSUME NEW p \in Procs, NEW e \in Engagements, BeginList(p, e)
      PROVE  TypeInv'
  <2>1. [kind |-> "list", eng |-> e, req |-> None, late |-> FALSE,
         now |-> clock, floor |-> acked[e]] \in Call
    BY DEF Call, TypeOK
  <2> QED BY <1>2, <2>1
    DEF BeginList, Begin, TypeOK, LocalOK, PCs, environment, history
<1>3. ASSUME NEW p \in Procs, Load(p) PROVE TypeInv'
  <2>1. Eng(p) \in Engagements BY <1>3 DEF Load, LocalOK, Call, Eng
  <2> QED BY <1>3, <2>1 DEF Load, TypeOK, LocalOK, PCs, environment, history
<1>4. ASSUME NEW p \in Procs, CheckEmpty(p) PROVE TypeInv'
  <2>1. CASE Fail(p) BY <2>1, FailType
  <2>2. CASE ~Fail(p)
    BY <1>4, <2>2 DEF CheckEmpty, TypeOK, LocalOK, PCs, environment, history
  <2> QED BY <2>1, <2>2
<1>5. ASSUME NEW p \in Procs, IssueGenesis(p) \/ IssueLatest(p) PROVE TypeInv'
  <2>1. CASE Fail(p) BY <2>1, FailType
  <2>2. CASE ~Fail(p)
    <3>1. pc[p] # "idle" BY <1>5 DEF IssueGenesis, IssueLatest, Issue
    <3>2. Eng(p) \in Engagements /\ Now(p) \in Nat
      BY <3>1 DEF LocalOK, Call, Eng, Now
    <3>3. CheckpointOf(db, Eng(p), Now(p)) \in AuditCheckpoint
      BY <3>2, CheckpointType DEF TypeOK
    <3> QED BY <1>5, <2>2, <3>3 DEF IssueGenesis, IssueLatest, Issue, TypeOK,
             LocalOK, PCs, environment, history
  <2> QED BY <2>1, <2>2
<1>6. ASSUME NEW p \in Procs, Initialize(p) PROVE TypeInv'
  <2>1. CASE Fail(p) BY <2>1, FailType
  <2>2. CASE ~Fail(p)
    <3>1. Eng(p) \in Engagements BY <1>6 DEF Initialize, LocalOK, Call, Eng
    <3>2. latest[p] \in AuditCheckpoint BY <1>6 DEF Initialize, LocalOK
    <3>3. Initialized(custody[Eng(p)], latest[p]) \in AuditCheckpoint
      BY <3>1, <3>2 DEF Initialized, TypeOK
    <3>4. custody' = [custody EXCEPT ![Eng(p)] = Initialized(@, latest[p])]
      BY <1>6, <2>2 DEF Initialize
    <3>5. custody' \in [Engagements -> AuditCheckpoint \cup {None}]
      BY <3>3, <3>4 DEF TypeOK
    <3>6. custody'[Eng(p)] \in AuditCheckpoint BY <3>1, <3>3, <3>4 DEF TypeOK
    <3> QED BY <1>6, <2>2, <3>5, <3>6
      DEF Initialize, TypeOK, LocalOK, PCs, environment, history
  <2> QED BY <2>1, <2>2
<1>7. ASSUME NEW p \in Procs, AppendTxn(p) PROVE TypeInv'
  <2>1. CASE Fail(p) BY <2>1, FailType
  <2>2. CASE ~Fail(p)
    <3>1. /\ Eng(p) \in Engagements
          /\ call[p].req \in Requests /\ call[p].req.eng = Eng(p)
      BY <1>7 DEF AppendTxn, LocalOK, Call, Eng
    <3>2. call[p].req \in [eng : Engagements, key : Keys, body : Bodies, bind : Binds]
      BY <3>1, AuditConstants
    <3>3. CASE AppendNew(p)
      <4> DEFINE c == [key |-> call[p].req.key, body |-> call[p].req.body,
                       bind |-> call[p].req.bind, id |-> commits]
      <4>1. c \in Content BY <3>2 DEF Content, TypeOK
      <4>2. db' = Committed(db, call[p].req.eng, c) BY <3>3 DEF AppendNew
      <4>3. db' \in Database BY <3>1, <4>1, <4>2, CommittedType DEF TypeOK
      <4>4. result' = [result EXCEPT ![p] = <<EventOf(c)>>] BY <3>3 DEF AppendNew
      <4>5. EventOf(c) \in Event BY <4>1, EventOfType
      <4>6. result' \in [Procs -> Seq(Event)] BY <4>4, <4>5 DEF TypeOK
      <4>7. commits' \in 0..MaxCommits BY <3>3, AuditConstants DEF AppendNew, TypeOK
      <4> QED BY <1>7, <2>2, <4>3, <4>6, <4>7
        DEF AppendTxn, TypeOK, LocalOK, PCs, environment, history
    <3>4. CASE AppendReplay(p)
      <4>1. PICK c \in StoredContents(Eng(p)) :
               result' = [result EXCEPT ![p] = <<EventOf(c)>>]
        BY <3>4 DEF AppendReplay
      <4>2. c \in Content
        <5>1. db.rows[Eng(p)] \in Seq(AuditRecord) BY <3>1 DEF TypeOK, Database
        <5>2. PICK i \in 1..Len(db.rows[Eng(p)]) : c = db.rows[Eng(p)][i].content
          BY DEF StoredContents
        <5>3. db.rows[Eng(p)][i] \in AuditRecord BY <5>1
        <5> QED BY <5>2, <5>3 DEF AuditRecord
      <4>3. EventOf(c) \in Event BY <4>2, EventOfType
      <4>4. result' \in [Procs -> Seq(Event)] BY <4>1, <4>3 DEF TypeOK
      <4> QED BY <1>7, <2>2, <3>4, <4>4
        DEF AppendTxn, AppendReplay, TypeOK, LocalOK, PCs, environment, history
    <3> QED BY <1>7, <2>2, <3>3, <3>4 DEF AppendTxn
  <2> QED BY <2>1, <2>2
<1>8. ASSUME NEW p \in Procs, ListTxn(p) PROVE TypeInv'
  <2>1. CASE Fail(p) BY <2>1, FailType
  <2>2. CASE ~Fail(p)
    <3>1. Eng(p) \in Engagements BY <1>8 DEF ListTxn, LocalOK, Call, Eng
    <3>2. db.events[Eng(p)] \in Seq(Event) BY <3>1 DEF TypeOK, Database
    <3> QED BY <1>8, <2>2, <3>2
      DEF ListTxn, TypeOK, LocalOK, PCs, environment, history
  <2> QED BY <2>1, <2>2
<1>9. ASSUME NEW p \in Procs, Advance(p) PROVE TypeInv'
  <2>1. CASE Fail(p) BY <2>1, FailType
  <2>2. CASE ~Fail(p)
    <3>1. Eng(p) \in Engagements BY <1>9 DEF Advance, LocalOK, Call, Eng
    <3>2. Leave(p) BY <1>9, <2>2 DEF Advance
    <3>3. /\ pc' \in [Procs -> PCs]
          /\ call' \in [Procs -> Call \cup {None}]
          /\ expected' \in [Procs -> AuditCheckpoint \cup {None}]
          /\ latest' \in [Procs -> AuditCheckpoint \cup {None}]
          /\ result' \in [Procs -> Seq(Event)]
          /\ LocalOK'
      BY <3>2, LeaveType
    <3>4. custody' \in [Engagements -> AuditCheckpoint \cup {None}]
      BY <1>9, <2>2, <3>1 DEF Advance, CanAdvance, Advanced, TypeOK, LocalOK
    <3>5. acked' \in [Engagements -> SUBSET Event]
      <4>1. acked' = [acked EXCEPT ![Eng(p)] =
                         @ \cup {result[p][i] : i \in 1..Len(result[p])}]
        BY <1>9, <2>2 DEF Advance
      <4>2. result[p] \in Seq(Event) BY DEF TypeOK
      <4>3. {result[p][i] : i \in 1..Len(result[p])} \subseteq Event BY <4>2
      <4> QED BY <3>1, <4>1, <4>3 DEF TypeOK
    <3>6. served' \in [Engagements -> Seq(Event)]
      <4>1. served' = served \/ served' = [served EXCEPT ![Eng(p)] = result[p]]
        BY <1>9, <2>2 DEF Advance
      <4>2. result[p] \in Seq(Event) BY DEF TypeOK
      <4> QED BY <3>1, <4>1, <4>2 DEF TypeOK
    <3> QED BY <1>9, <2>2, <3>3, <3>4, <3>5, <3>6
      DEF Advance, TypeOK, environment, history
  <2> QED BY <2>1, <2>2
<1>10. ASSUME NEW p \in Procs, Crash(p) PROVE TypeInv'
  <2>1. /\ pc' \in [Procs -> PCs]
        /\ call' \in [Procs -> Call \cup {None}]
        /\ expected' \in [Procs -> AuditCheckpoint \cup {None}]
        /\ latest' \in [Procs -> AuditCheckpoint \cup {None}]
        /\ result' \in [Procs -> Seq(Event)]
        /\ LocalOK'
    BY <1>10, LeaveType DEF Crash
  <2> QED BY <1>10, <2>1, AuditConstants DEF Crash, TypeOK, history
<1>11. CASE Tick
  BY <1>11, AuditConstants DEF Tick, TypeOK, LocalOK, local, history
<1>12. CASE Backup
  BY <1>12 DEF Backup, TypeOK, LocalOK, local, history
<1>13. ASSUME NEW d \in Database, Disturb(d) PROVE TypeInv'
  BY <1>13, AuditConstants DEF Disturb, TypeOK, LocalOK, local, history
<1>14. CASE Restore
  BY <1>13, <1>14 DEF Restore, TypeOK
<1>15. ASSUME NEW e \in Engagements, LoseEvent(e) \/ LoseRecord(e) \/ LoseHead(e)
       PROVE  TypeInv'
  <2>1. ASSUME NEW i \in 1..Len(db.events[e])
        PROVE  [db EXCEPT !.events[e] = Without(@, i)] \in Database
    <3>1. Without(db.events[e], i) \in Seq(Event)
      BY WithoutType DEF TypeOK, Database
    <3> QED BY <3>1 DEF TypeOK, Database
  <2>2. ASSUME NEW i \in 1..Len(db.rows[e])
        PROVE  [db EXCEPT !.rows[e] = Without(@, i)] \in Database
    <3>1. Without(db.rows[e], i) \in Seq(AuditRecord)
      BY WithoutType DEF TypeOK, Database
    <3> QED BY <3>1 DEF TypeOK, Database
  <2>3. [db EXCEPT !.head[e] = None] \in Database BY DEF TypeOK, Database
  <2> QED BY <1>13, <1>15, <2>1, <2>2, <2>3 DEF LoseEvent, LoseRecord, LoseHead
<1>16. CASE UNCHANGED vars
  BY <1>16 DEF vars, local, environment, history, TypeOK, LocalOK
<1> QED BY <1>1, <1>2, <1>3, <1>4, <1>5, <1>6, <1>7, <1>8, <1>9, <1>10, <1>11,
           <1>12, <1>14, <1>15, <1>16 DEF Next, Step

\* Every variable of the event log keeps its type, and a process always has
\* the arguments and checkpoints that its next step reads.
THEOREM TypeCorrect == Spec => [](TypeOK /\ LocalOK)
<1>1. Spec => []TypeInv BY TypeInit, TypeNext, PTL DEF Spec
<1> QED BY <1>1, PTL DEF TypeInv

-----------------------------------------------------------------------------
(* Lemmas about stored chains *)

\* The digest of an intact chain spells out the contents of its records.
LEMMA IntactDigest ==
  ASSUME NEW d \in Database, NEW e \in Engagements,
         Lineage(d), LocalChainIntact(d, e), NEW n \in 1..Len(d.rows[e])
  PROVE  /\ RecordDigest(d.rows[e][n]) \in Seq(Content)
         /\ Len(RecordDigest(d.rows[e][n])) = n
         /\ \A j \in 1..n : RecordDigest(d.rows[e][n])[j] = d.rows[e][j].content
<1> DEFINE rows == d.rows[e]
<1>1. rows \in Seq(AuditRecord) BY DEF Database
<1>2. \A i \in 1..Len(rows) :
         rows[i].prev \in Seq(Content) /\ rows[i].content \in Content
  <2>1. \A i \in 1..Len(rows) : rows[i] \in AuditRecord BY <1>1
  <2> QED BY <2>1 DEF AuditRecord, Digest
<1>3. \A i \in 1..Len(rows) : Len(rows[i].prev) = i - 1
  BY <1>2 DEF LocalChainIntact, RecordSequence
<1>4. \A i \in 1..Len(rows) :
         /\ RecordDigest(rows[i]) \in Seq(Content)
         /\ Len(RecordDigest(rows[i])) = i
         /\ RecordDigest(rows[i])[i] = rows[i].content
         /\ \A j \in 1..(i - 1) : RecordDigest(rows[i])[j] = rows[i].prev[j]
  <2> TAKE i \in 1..Len(rows)
  <2>1. /\ rows[i].prev \in Seq(Content) /\ rows[i].content \in Content
        /\ Len(rows[i].prev) = i - 1
    BY <1>2, <1>3
  <2> HIDE DEF rows
  <2> QED BY <2>1 DEF RecordDigest
<1>5. ASSUME NEW j \in 1..n PROVE RecordDigest(rows[n])[j] = rows[j].content
  <2>1. CASE j = n BY <1>4, <2>1
  <2>2. CASE j # n
    <3>1. j \in 1..(n - 1) /\ j \in 1..Len(rows) BY <1>1, <2>2
    <3>2. Extends(rows[n].prev, RecordDigest(rows[j])) BY <3>1 DEF Lineage
    <3>3. rows[n].prev[j] = RecordDigest(rows[j])[j] BY <1>4, <3>1, <3>2 DEF Extends
    <3> QED BY <1>4, <3>1, <3>3
  <2> QED BY <2>1, <2>2
<1> QED BY <1>4, <1>5

\* The same for the digest a checkpoint is issued with.
LEMMA IntactLast ==
  ASSUME NEW d \in Database, NEW e \in Engagements,
         Lineage(d), LocalChainIntact(d, e)
  PROVE  /\ LastDigest(d.rows[e]) \in Seq(Content)
         /\ Len(LastDigest(d.rows[e])) = Len(d.rows[e])
         /\ \A j \in 1..Len(d.rows[e]) :
               LastDigest(d.rows[e])[j] = d.rows[e][j].content
<1>1. d.rows[e] \in Seq(AuditRecord) BY DEF Database
<1>2. CASE d.rows[e] = <<>> BY <1>2 DEF LastDigest, Genesis
<1>3. CASE d.rows[e] # <<>>
  <2>1. Len(d.rows[e]) \in 1..Len(d.rows[e]) BY <1>1, <1>3
  <2>2. LastDigest(d.rows[e]) = RecordDigest(d.rows[e][Len(d.rows[e])])
    BY <1>3 DEF LastDigest
  <2> QED BY <2>1, <2>2, IntactDigest
<1> QED BY <1>2, <1>3

\* A checkpoint issued from an intact chain seals its contents once each and
\* is extended by that chain.
LEMMA IssuedCheckpoint ==
  ASSUME NEW d \in Database, NEW e \in Engagements, NEW now \in Nat,
         Lineage(d), LocalChainIntact(d, e)
  PROVE  SealedOnce(CheckpointOf(d, e, now))
<1>1. d.rows[e] \in Seq(AuditRecord) BY DEF Database
<1> DEFINE c == CheckpointOf(d, e, now)
<1>2. /\ c.digest = LastDigest(d.rows[e])
      /\ c.seq = Len(d.rows[e])
  BY DEF CheckpointOf
<1>3. Len(c.digest) = c.seq BY <1>2, IntactLast
<1>4. ASSUME NEW i \in 1..Len(c.digest), NEW j \in 1..Len(c.digest),
             c.digest[i].key = c.digest[j].key
      PROVE  i = j
  <2>1. i \in 1..Len(d.rows[e]) /\ j \in 1..Len(d.rows[e])
    BY <1>2, IntactLast
  <2>2. d.rows[e][i].content.key = d.rows[e][j].content.key
    BY <1>2, <1>4, <2>1, IntactLast
  <2>3. ~(i < j)
    <3>1. SUFFICES ASSUME i < j PROVE FALSE OBVIOUS
    <3>2. i \in 1..(j - 1) BY <2>1, <3>1, <1>1
    <3> QED BY <2>1, <2>2, <3>2 DEF Lineage
  <2>4. ~(j < i)
    <3>1. SUFFICES ASSUME j < i PROVE FALSE OBVIOUS
    <3>2. j \in 1..(i - 1) BY <2>1, <3>1, <1>1
    <3> QED BY <2>1, <2>2, <3>2 DEF Lineage
  <2> QED BY <2>1, <2>3, <2>4, <1>1
<1> QED BY <1>3, <1>4 DEF SealedOnce

\* What a chain that extends a checkpoint holds: the sealed contents, in order.
LEMMA ExtendsContents ==
  ASSUME NEW d \in Database, NEW e \in Engagements, NEW c \in AuditCheckpoint,
         Lineage(d), LocalChainIntact(d, e), ExtendsCheckpoint(d, e, c), SealedOnce(c)
  PROVE  /\ Len(c.digest) <= Len(d.rows[e])
         /\ \A j \in 1..Len(c.digest) : c.digest[j] = d.rows[e][j].content
<1>1. d.rows[e] \in Seq(AuditRecord) BY DEF Database
<1>2. c.seq \in Nat /\ c.seq <= Len(d.rows[e]) /\ Len(c.digest) = c.seq
  BY DEF ExtendsCheckpoint, SealedOnce, AuditCheckpoint
<1>3. CASE c.seq = 0 BY <1>1, <1>2, <1>3
<1>4. CASE c.seq # 0
  <2>1. c.seq \in 1..Len(d.rows[e]) BY <1>1, <1>2, <1>4
  <2>2. c.digest = RecordDigest(d.rows[e][c.seq]) BY <1>4 DEF ExtendsCheckpoint
  <2> QED BY <1>2, <2>1, <2>2, IntactDigest
<1> QED BY <1>3, <1>4

\* Losing a record leaves a chain with a gap.
LEMMA LineageWithout ==
  ASSUME NEW d \in Database, NEW e \in Engagements, Lineage(d),
         NEW i \in 1..Len(d.rows[e])
  PROVE  Lineage([d EXCEPT !.rows[e] = Without(@, i)])
<1> DEFINE d2 == [d EXCEPT !.rows[e] = Without(@, i)]
<1>1. d.rows[e] \in Seq(AuditRecord) BY DEF Database
<1>2. d2.rows[e] = Without(d.rows[e], i) BY DEF Database
<1>3. /\ Len(d2.rows[e]) = Len(d.rows[e]) - 1
      /\ \A j \in 1..Len(d2.rows[e]) :
            d2.rows[e][j] = d.rows[e][IF j < i THEN j ELSE j + 1]
  BY <1>1, <1>2, WithoutType
<1>4. SUFFICES ASSUME NEW f \in Engagements, NEW j \in 1..Len(d2.rows[f]),
                      NEW k \in 1..(j - 1)
               PROVE  /\ Extends(d2.rows[f][j].prev, RecordDigest(d2.rows[f][k]))
                      /\ d2.rows[f][k].content.key # d2.rows[f][j].content.key
  BY DEF Lineage
<1>5. CASE f # e
  <2>1. d2.rows[f] = d.rows[f] BY <1>5 DEF Database
  <2> QED BY <2>1 DEF Lineage
<1>6. CASE f = e
  <2> DEFINE J == IF j < i THEN j ELSE j + 1
             K == IF k < i THEN k ELSE k + 1
  <2>1. j \in 1..(Len(d.rows[e]) - 1) /\ k \in 1..Len(d2.rows[e]) /\ k < j
    BY <1>1, <1>3, <1>6
  <2>2. J \in 1..Len(d.rows[e]) /\ K \in 1..(J - 1) BY <1>1, <2>1
  <2>3. d2.rows[f][j] = d.rows[e][J] /\ d2.rows[f][k] = d.rows[e][K]
    BY <1>3, <1>6, <2>1
  <2>4. /\ Extends(d.rows[e][J].prev, RecordDigest(d.rows[e][K]))
        /\ d.rows[e][K].content.key # d.rows[e][J].content.key
    BY <2>2 DEF Lineage
  <2> QED BY <2>3, <2>4
<1> QED BY <1>5, <1>6

\* A committed append keeps every stream's lineage and chain, appends the
\* content to its own stream and leaves checkpoints extended.
LEMMA CommittedChain ==
  ASSUME NEW d \in Database, NEW e \in Engagements, NEW c \in Content,
         Lineage(d), LocalChainIntact(d, e), c.key \notin RecordKeys(d, e)
  PROVE  /\ Lineage(Committed(d, e, c))
         /\ LocalChainIntact(Committed(d, e, c), e)
         /\ \A f \in Engagements \ {e} :
               /\ Committed(d, e, c).rows[f] = d.rows[f]
               /\ Committed(d, e, c).head[f] = d.head[f]
         /\ Len(Committed(d, e, c).rows[e]) = Len(d.rows[e]) + 1
         /\ Committed(d, e, c).rows[e][Len(d.rows[e]) + 1].content = c
         /\ \A i \in 1..Len(d.rows[e]) :
               Committed(d, e, c).rows[e][i] = d.rows[e][i]
<1> DEFINE d2 == Committed(d, e, c)
           rows == d.rows[e]
           n == Len(rows)
           row == [prev |-> LastDigest(rows), content |-> c]
<1>1. rows \in Seq(AuditRecord) /\ n \in Nat BY DEF Database
<1>2. row \in AuditRecord BY <1>1, LastDigestType DEF AuditRecord
<1>3. /\ d2.rows = [d.rows EXCEPT ![e] = Append(@, row)]
      /\ d2.head = [d.head EXCEPT ![e] =
                      [seq |-> n + 1, digest |-> RecordDigest(row)]]
  BY DEF Committed
<1>4. d2.rows[e] = Append(rows, row) BY <1>3 DEF Database
<1>5. /\ Len(d2.rows[e]) = n + 1
      /\ d2.rows[e][n + 1] = row
      /\ \A i \in 1..n : d2.rows[e][i] = rows[i]
  BY <1>1, <1>2, <1>4
<1>6. \A f \in Engagements \ {e} : d2.rows[f] = d.rows[f] /\ d2.head[f] = d.head[f]
  BY <1>3 DEF Database
<1>7. LocalChainIntact(d2, e)
  <2>1. Len(LastDigest(rows)) = n BY IntactLast
  <2>2. ASSUME NEW i \in 1..(n + 1)
        PROVE  /\ RecordSequence(d2.rows[e][i]) = i
               /\ d2.rows[e][i].prev =
                     IF i = 1 THEN Genesis ELSE RecordDigest(d2.rows[e][i - 1])
    <3>1. CASE i = n + 1
      <4>1. d2.rows[e][i].prev = LastDigest(rows) BY <1>5, <3>1
      <4>2. RecordSequence(d2.rows[e][i]) = i BY <2>1, <3>1, <4>1 DEF RecordSequence
      <4>3. CASE n = 0
        BY <1>1, <3>1, <4>1, <4>2, <4>3 DEF LastDigest
      <4>4. CASE n # 0
        <5>1. rows # <<>> /\ n \in 1..n BY <1>1, <4>4
        <5>2. LastDigest(rows) = RecordDigest(rows[n]) BY <5>1 DEF LastDigest
        <5> QED BY <1>1, <1>5, <3>1, <4>1, <4>2, <4>4, <5>1, <5>2
      <4> QED BY <4>3, <4>4
    <3>2. CASE i # n + 1
      <4>1. i \in 1..n /\ (i # 1 => i - 1 \in 1..n) BY <1>1, <3>2
      <4> QED BY <1>5, <4>1 DEF LocalChainIntact
    <3> QED BY <3>1, <3>2
  <2>3. d2.head[e] = [seq |-> n + 1, digest |-> RecordDigest(row)]
    BY <1>3 DEF Database
  <2>4. d2.rows[e] # <<>> BY <1>1, <1>5
  <2>5. LastDigest(d2.rows[e]) = RecordDigest(row) BY <1>5, <2>4 DEF LastDigest
  <2> QED BY <1>5, <2>2, <2>3, <2>4, <2>5 DEF LocalChainIntact
<1>8. Lineage(d2)
  <2>1. SUFFICES ASSUME NEW f \in Engagements, NEW j \in 1..Len(d2.rows[f]),
                        NEW i \in 1..(j - 1)
                 PROVE  /\ Extends(d2.rows[f][j].prev, RecordDigest(d2.rows[f][i]))
                        /\ d2.rows[f][i].content.key # d2.rows[f][j].content.key
    BY DEF Lineage
  <2>2. CASE f # e BY <1>6, <2>2 DEF Lineage
  <2>3. CASE f = e /\ j # n + 1
    <3>1. j \in 1..n /\ i \in 1..n BY <1>1, <1>5, <2>3
    <3> QED BY <1>5, <2>3, <3>1 DEF Lineage
  <2>4. CASE f = e /\ j = n + 1
    <3>1. i \in 1..n BY <1>1, <2>4
    <3>2. d2.rows[f][j] = row /\ d2.rows[f][i] = rows[i] BY <1>5, <2>4, <3>1
    <3>3. rows[i].content.key # c.key BY <3>1 DEF RecordKeys
    <3>4. Extends(LastDigest(rows), RecordDigest(rows[i]))
      BY <3>1, <1>1, IntactLast, IntactDigest DEF Extends
    <3> QED BY <3>2, <3>3, <3>4
  <2> QED BY <2>2, <2>3, <2>4
<1> QED BY <1>5, <1>6, <1>7, <1>8

\* The keys of a stream's records form a finite set.
LEMMA RecordKeysFinite ==
  ASSUME NEW d \in Database, NEW e \in Engagements PROVE IsFiniteSet(RecordKeys(d, e))
<1> DEFINE n == Len(d.rows[e])
           f == [i \in 1..n |-> d.rows[e][i].content.key]
<1>1. n \in Nat BY DEF Database
<1>2. IsFiniteSet(1..n) BY <1>1, FS_Interval
<1>3. f \in Surjection(1..n, RecordKeys(d, e)) BY DEF Surjection, RecordKeys
<1> QED BY <1>2, <1>3, FS_Surjection

\* When the pair check passes, every record has its event.
LEMMA PairsCover ==
  ASSUME NEW d \in Database, NEW e \in Engagements, Lineage(d), PairsMatch(d, e),
         NEW j \in 1..Len(d.rows[e])
  PROVE  \E i \in 1..Len(d.events[e]) : d.events[e][i] = EventOf(d.rows[e][j].content)
<1>1. d.rows[e] \in Seq(AuditRecord) BY DEF Database
<1>2. EventKeys(d, e) \subseteq RecordKeys(d, e)
  <2>1. SUFFICES ASSUME NEW i \in 1..Len(d.events[e])
                 PROVE  d.events[e][i].key \in RecordKeys(d, e)
    BY DEF EventKeys
  <2>2. PICK k \in 1..Len(d.rows[e]) : EventOf(d.rows[e][k].content) = d.events[e][i]
    BY DEF PairsMatch
  <2>3. d.rows[e][k].content.key = d.events[e][i].key BY <2>2 DEF EventOf
  <2> QED BY <2>3 DEF RecordKeys
<1>3. EventKeys(d, e) = RecordKeys(d, e)
  BY <1>2, RecordKeysFinite, FS_Subset DEF PairsMatch
<1>4. d.rows[e][j].content.key \in EventKeys(d, e) BY <1>3 DEF RecordKeys
<1>5. PICK i \in 1..Len(d.events[e]) : d.events[e][i].key = d.rows[e][j].content.key
  BY <1>4 DEF EventKeys
<1>6. PICK k \in 1..Len(d.rows[e]) : EventOf(d.rows[e][k].content) = d.events[e][i]
  BY DEF PairsMatch
<1>7. d.rows[e][k].content.key = d.rows[e][j].content.key BY <1>5, <1>6 DEF EventOf
<1>8. ~(k < j)
  <2>1. SUFFICES ASSUME k < j PROVE FALSE OBVIOUS
  <2>2. k \in 1..(j - 1) BY <1>1, <2>1
  <2> QED BY <1>7, <2>2 DEF Lineage
<1>9. ~(j < k)
  <2>1. SUFFICES ASSUME j < k PROVE FALSE OBVIOUS
  <2>2. j \in 1..(k - 1) BY <1>1, <2>1
  <2> QED BY <1>7, <2>2 DEF Lineage
<1>10. k = j BY <1>1, <1>8, <1>9
<1> QED BY <1>6, <1>10

-----------------------------------------------------------------------------
(* The invariant of the event log *)

LocalInv(p) == ProcessInv(p) /\ ListsFloor(p)

\* A process keeps what it relies on while the others leave the database and
\* its local state alone and callers learn of more events.
LEMMA OtherProcess ==
  ASSUME NEW p \in Procs, LocalInv(p), db' = db, acked \in [Engagements -> SUBSET Event],
         \A e \in Engagements : acked[e] \subseteq acked'[e],
         pc[p] # "idle" => call[p] \in Call,
         pc'[p] = pc[p], call'[p] = call[p], expected'[p] = expected[p],
         latest'[p] = latest[p], result'[p] = result[p]
  PROVE  LocalInv(p)'
<1>1. pc[p] # "idle" => Eng(p) \in Engagements BY DEF Eng, Call
<1> QED BY <1>1 DEF LocalInv, ProcessInv, ListsFloor, Eng, Covers

\* An idle process relies on nothing.
LEMMA IdleProcess ==
  ASSUME NEW p \in Procs, pc'[p] = "idle" PROVE LocalInv(p)'
  BY DEF LocalInv, ProcessInv, ListsFloor

\* An empty log satisfies the invariant of the event log.
LEMMA LogInit == Init => LogInv
  BY DEF Init, LogInv, Lineage, EmptyDatabase, CustodyInv, KnownEventsAnchored,
         KnownEventsListed, ListsFloor, ProcessInv

\* LogInv from its parts, for steps that leave the databases, the checkpoint
\* files and the known events alone and only move process p.
LEMMA MoveOne ==
  ASSUME TypeInv, LogInv, NEW p \in Procs, LocalInv(p)',
         UNCHANGED <<db, custody, backups, acked>>,
         \A q \in Procs \ {p} :
            /\ pc'[q] = pc[q] /\ call'[q] = call[q] /\ expected'[q] = expected[q]
            /\ latest'[q] = latest[q] /\ result'[q] = result[q]
  PROVE  LogInv'
<1>1. \A q \in Procs \ {p} : LocalInv(q)'
  BY OtherProcess DEF TypeInv, TypeOK, LocalOK, LogInv, KnownEventsListed, LocalInv
<1>2. \A q \in Procs : LocalInv(q)' BY <1>1
<1>3. KnownEventsListed' /\ (\A q \in Procs : ProcessInv(q))'
  BY <1>2 DEF LocalInv, KnownEventsListed
<1> QED BY <1>3 DEF LogInv, CustodyInv, KnownEventsAnchored, Lineage

\* An operation that raises keeps the invariant of the event log.
LEMMA FailLog ==
  ASSUME TypeInv, LogInv, NEW p \in Procs, Leave(p),
         UNCHANGED <<db, custody, backups, acked>>
  PROVE  LogInv'
<1>1. pc'[p] = "idle" BY DEF Leave, TypeInv, TypeOK
<1>2. LocalInv(p)' BY <1>1, IdleProcess
<1> QED BY <1>2, MoveOne DEF Leave, TypeInv, TypeOK

\* Callers know no event of a stream whose trusted chain is empty, and every
\* known event is under the checkpoint file.
LEMMA KnownCovered ==
  ASSUME KnownEventsAnchored, NEW e \in Engagements, NEW S \in SUBSET acked[e],
         custody[e] # None
  PROVE  Covers(custody[e].digest, S)
  BY DEF KnownEventsAnchored, Covers

\* Loading the trusted checkpoint.
LEMMA LoadLog ==
  ASSUME TypeInv, LogInv, NEW p \in Procs, Load(p) PROVE LogInv'
<1> USE DEF TypeInv, TypeOK
<1>1. /\ call[p] \in Call /\ Eng(p) \in Engagements
      /\ call[p].floor \subseteq acked[Eng(p)]
  BY DEF Load, LocalOK, Call, Eng, LogInv, ProcessInv
<1>2. LocalInv(p)'
  <2>1. CASE custody[Eng(p)] # None
    <3>1. expected'[p] = custody[Eng(p)] /\ pc'[p] = "txn" /\ call'[p] = call[p]
      BY <2>1 DEF Load
    <3>2. SealedOnce(custody[Eng(p)]) BY <1>1, <2>1 DEF LogInv, CustodyInv
    <3>3. Covers(custody[Eng(p)].digest, call[p].floor)
      BY <1>1, <2>1, KnownCovered DEF LogInv
    <3> QED BY <1>1, <3>1, <3>2, <3>3
      DEF Load, LocalInv, ProcessInv, ListsFloor, Eng, history
  <2>2. CASE custody[Eng(p)] = None
    BY <1>1, <2>2 DEF Load, LocalInv, ProcessInv, ListsFloor, Eng, history
  <2> QED BY <2>1, <2>2
<1> QED BY <1>2, MoveOne DEF Load, environment, history

\* Issuing a checkpoint, at the start of a stream or after the transaction.
LEMMA IssueLog ==
  ASSUME TypeInv, LogInv, NEW p \in Procs, IssueGenesis(p) \/ IssueLatest(p)
  PROVE  LogInv'
<1> USE DEF TypeInv, TypeOK
<1>1. CASE Fail(p) BY <1>1, FailLog DEF Fail, environment, history
<1>2. CASE ~Fail(p)
  <2> DEFINE e == Eng(p)
             c == CheckpointOf(db, e, Now(p))
  <2>1. /\ pc[p] \in {"genesis", "seal"}
        /\ Verified(db, e)
        /\ latest' = [latest EXCEPT ![p] = c]
        /\ pc' = [pc EXCEPT ![p] = IF pc[p] = "seal" THEN "advance" ELSE "initialize"]
        /\ UNCHANGED <<call, expected, result, db, custody, backups, acked>>
    BY <1>2 DEF IssueGenesis, IssueLatest, Issue, environment, history
  <2>2. call[p] \in Call /\ e \in Engagements /\ Now(p) \in Nat
    BY <2>1 DEF LocalOK, Call, Eng, Now
  <2>3. LocalChainIntact(db, e) /\ Lineage(db) BY <2>1 DEF Verified, LogInv
  <2>4. SealedOnce(c) BY <2>2, <2>3, IssuedCheckpoint
  <2>5. c.digest = LastDigest(db.rows[e]) BY DEF CheckpointOf
  <2>6. ASSUME pc[p] = "seal"
        PROVE  /\ Extends(c.digest, expected[p].digest)
               /\ \A i \in 1..Len(result[p]) : \E j \in 1..Len(c.digest) :
                     EventOf(c.digest[j]) = result[p][i]
    <3>1. /\ ProcessInv(p)
          /\ expected[p] \in AuditCheckpoint
      BY <2>6 DEF LogInv, LocalOK
    <3>2. /\ Len(expected[p].digest) <= Len(db.rows[e])
          /\ \A j \in 1..Len(expected[p].digest) :
                expected[p].digest[j] = db.rows[e][j].content
      BY <2>2, <2>3, <2>6, <3>1, ExtendsContents DEF ProcessInv
    <3>3. /\ Len(c.digest) = Len(db.rows[e])
          /\ \A j \in 1..Len(db.rows[e]) : c.digest[j] = db.rows[e][j].content
      BY <2>2, <2>3, <2>5, IntactLast
    <3>4. expected[p].digest \in Seq(Content) /\ db.rows[e] \in Seq(AuditRecord)
      BY <2>2, <3>1 DEF AuditCheckpoint, Digest, Database
    <3>5. Extends(c.digest, expected[p].digest)
      BY <3>2, <3>3, <3>4 DEF Extends
    <3>6. \A i \in 1..Len(result[p]) : \E j \in 1..Len(db.rows[e]) :
             EventOf(db.rows[e][j].content) = result[p][i]
      BY <2>6, <3>1 DEF ProcessInv
    <3> QED BY <3>3, <3>5, <3>6
  <2>7. LocalInv(p)'
    <3>1. ProcessInv(p) /\ ListsFloor(p) BY DEF LogInv, KnownEventsListed
    <3> QED BY <2>1, <2>4, <2>6, <3>1 DEF LocalInv, ProcessInv, ListsFloor, Eng
  <2> QED BY <2>1, <2>7, MoveOne
<1> QED BY <1>1, <1>2

\* The query transaction.
LEMMA ListLog ==
  ASSUME TypeInv, LogInv, NEW p \in Procs, ListTxn(p) PROVE LogInv'
<1> USE DEF TypeInv, TypeOK
<1>1. CASE Fail(p) BY <1>1, FailLog DEF Fail, environment, history
<1>2. CASE ~Fail(p)
  <2> DEFINE e == Eng(p)
  <2>1. /\ pc[p] = "txn"
        /\ Trusted(p)
        /\ result' = [result EXCEPT ![p] = db.events[e]]
        /\ pc' = [pc EXCEPT ![p] = "seal"]
        /\ UNCHANGED <<call, expected, latest, db, custody, backups, acked>>
    BY <1>2 DEF ListTxn, environment, history
  <2>2. /\ call[p] \in Call /\ e \in Engagements
        /\ expected[p] \in AuditCheckpoint
    BY <2>1 DEF LocalOK, Call, Eng
  <2>3. /\ LocalChainIntact(db, e) /\ PairsMatch(db, e) /\ Lineage(db)
        /\ ExtendsCheckpoint(db, e, expected[p])
    BY <2>1 DEF Trusted, VerifiedFrom, Verified, Anchored, ExtendsCheckpoint, LogInv
  <2>4. ProcessInv(p) BY DEF LogInv
  <2>5. SealedOnce(expected[p]) /\ Covers(expected[p].digest, call[p].floor)
    BY <2>1, <2>4 DEF ProcessInv
  <2>6. /\ Len(expected[p].digest) <= Len(db.rows[e])
        /\ \A j \in 1..Len(expected[p].digest) :
              expected[p].digest[j] = db.rows[e][j].content
    BY <2>2, <2>3, <2>5, ExtendsContents
  <2>7. ASSUME NEW ev \in call[p].floor
        PROVE  \E i \in 1..Len(db.events[e]) : db.events[e][i] = ev
    <3>1. PICK j \in 1..Len(expected[p].digest) : EventOf(expected[p].digest[j]) = ev
      BY <2>5 DEF Covers
    <3>2. j \in 1..Len(db.rows[e])
      <4>1. expected[p].digest \in Seq(Content) /\ db.rows[e] \in Seq(AuditRecord)
        BY <2>2 DEF AuditCheckpoint, Digest, Database
      <4> QED BY <2>6, <4>1
    <3>3. EventOf(db.rows[e][j].content) = ev BY <2>6, <3>1
    <3> QED BY <2>2, <2>3, <3>2, <3>3, PairsCover
  <2>8. \A i \in 1..Len(db.events[e]) : \E j \in 1..Len(db.rows[e]) :
           EventOf(db.rows[e][j].content) = db.events[e][i]
    BY <2>3 DEF PairsMatch
  <2>9. result'[p] = db.events[e] /\ pc'[p] = "seal" BY <2>1
  <2>10. LocalInv(p)'
    BY <2>1, <2>3, <2>4, <2>5, <2>7, <2>8, <2>9 DEF LocalInv, ProcessInv, ListsFloor, Eng
  <2> QED BY <2>1, <2>10, MoveOne
<1> QED BY <1>1, <1>2

\* Starting the custody of an empty stream.
LEMMA InitializeLog ==
  ASSUME TypeInv, LogInv, NEW p \in Procs, Initialize(p) PROVE LogInv'
<1> USE DEF TypeInv, TypeOK
<1>1. CASE Fail(p) BY <1>1, FailLog DEF Fail, environment, history
<1>2. CASE ~Fail(p)
  <2> DEFINE e == Eng(p)
  <2>1. /\ pc[p] = "initialize"
        /\ CanInitialize(custody[e], latest[p])
        /\ custody' = [custody EXCEPT ![e] = Initialized(@, latest[p])]
        /\ expected' = [expected EXCEPT ![p] = custody'[e]]
        /\ latest' = [latest EXCEPT ![p] = None]
        /\ pc' = [pc EXCEPT ![p] = "txn"]
        /\ UNCHANGED <<call, result, db, backups, acked>>
    BY <1>2 DEF Initialize, environment, history
  <2>2. /\ call[p] \in Call /\ e \in Engagements
        /\ latest[p] \in AuditCheckpoint
    BY <2>1 DEF LocalOK, Call, Eng
  <2>3. latest[p] # None BY <2>2, NoneIsFresh
  <2>4. ProcessInv(p) BY DEF LogInv
  <2>5. SealedOnce(latest[p]) /\ call[p].floor \subseteq acked[e]
    BY <2>1, <2>4 DEF ProcessInv
  <2>6. custody'[e] = IF custody[e] = None THEN latest[p] ELSE custody[e]
    BY <2>1, <2>2 DEF Initialized
  <2>7. custody'[e] # None /\ SealedOnce(custody'[e])
    BY <2>2, <2>3, <2>5, <2>6 DEF LogInv, CustodyInv
  <2>8. KnownEventsAnchored'
    <3>1. SUFFICES ASSUME NEW f \in Engagements, acked[f] # {}
                   PROVE  /\ custody'[f] # None
                          /\ \A ev \in acked[f] : \E i \in 1..Len(custody'[f].digest) :
                                EventOf(custody'[f].digest[i]) = ev
      BY <2>1 DEF KnownEventsAnchored
    <3>2. custody[f] # None BY <3>1 DEF LogInv, KnownEventsAnchored
    <3>3. custody'[f] = custody[f] BY <2>1, <2>2, <2>6, <3>2
    <3> QED BY <3>1, <3>2, <3>3 DEF LogInv, KnownEventsAnchored
  <2>9. CustodyInv' BY <2>1, <2>2, <2>7 DEF LogInv, CustodyInv
  <2>10. Covers(custody'[e].digest, call[p].floor)
    BY <2>1, <2>2, <2>5, <2>7, <2>8 DEF KnownEventsAnchored, Covers
  <2>11. LocalInv(p)'
    <3>1. expected'[p] = custody'[e] /\ pc'[p] = "txn" /\ Eng(p)' = e
      BY <2>1 DEF Eng
    <3> QED BY <2>1, <2>5, <2>7, <2>10, <3>1 DEF LocalInv, ProcessInv, ListsFloor
  <2>12. \A q \in Procs \ {p} : LocalInv(q)'
    BY <2>1, OtherProcess DEF LocalOK, LogInv, KnownEventsListed, LocalInv
  <2>13. KnownEventsListed' /\ (\A q \in Procs : ProcessInv(q))'
    BY <2>11, <2>12 DEF LocalInv, KnownEventsListed
  <2> QED BY <2>1, <2>8, <2>9, <2>13 DEF LogInv, Lineage
<1> QED BY <1>1, <1>2

\* A longer stream with the same records still extends a checkpoint.
LEMMA ExtendsGrown ==
  ASSUME NEW d \in Database, NEW d2, NEW e \in Engagements, NEW c \in AuditCheckpoint,
         ExtendsCheckpoint(d, e, c),
         Len(d2.rows[e]) = Len(d.rows[e]) + 1,
         \A i \in 1..Len(d.rows[e]) : d2.rows[e][i] = d.rows[e][i]
  PROVE  ExtendsCheckpoint(d2, e, c)
<1>1. c.seq \in Nat /\ Len(d.rows[e]) \in Nat BY DEF AuditCheckpoint, Database
<1>2. c.seq <= Len(d2.rows[e]) BY <1>1 DEF ExtendsCheckpoint
<1>3. CASE c.seq = 0 BY <1>2, <1>3 DEF ExtendsCheckpoint
<1>4. CASE c.seq # 0
  <2>1. c.seq \in 1..Len(d.rows[e]) BY <1>1, <1>4 DEF ExtendsCheckpoint
  <2> QED BY <1>2, <1>4, <2>1 DEF ExtendsCheckpoint
<1> QED BY <1>3, <1>4

\* A process in another operation keeps what it relies on across a commit.
LEMMA CommitOther ==
  ASSUME TypeInv, NEW q \in Procs, LocalInv(q), NEW e \in Engagements, NEW c \in Content,
         Lineage(db), LocalChainIntact(db, e), c.key \notin RecordKeys(db, e),
         db' = Committed(db, e, c), acked' = acked,
         pc'[q] = pc[q], call'[q] = call[q], expected'[q] = expected[q],
         latest'[q] = latest[q], result'[q] = result[q]
  PROVE  LocalInv(q)'
<1> USE DEF TypeInv, TypeOK
<1> DEFINE f == Eng(q)
<1>1. CASE pc[q] # "seal"
  BY <1>1 DEF LocalInv, ProcessInv, ListsFloor, Eng
<1>2. CASE pc[q] = "seal"
  <2>1. /\ f \in Engagements /\ expected[q] \in AuditCheckpoint /\ f' = f
    BY <1>2 DEF LocalOK, Call, Eng
  <2>2. /\ LocalChainIntact(db, f) /\ ExtendsCheckpoint(db, f, expected[q])
        /\ \A i \in 1..Len(result[q]) : \E j \in 1..Len(db.rows[f]) :
              EventOf(db.rows[f][j].content) = result[q][i]
    BY <1>2 DEF LocalInv, ProcessInv
  <2>3. CASE f # e
    <3>1. db'.rows[f] = db.rows[f] /\ db'.head[f] = db.head[f]
      BY <2>1, <2>3, CommittedChain
    <3>2. LocalChainIntact(db', f) BY <2>2, <3>1 DEF LocalChainIntact
    <3>3. ExtendsCheckpoint(db', f, expected[q]) BY <2>2, <3>1 DEF ExtendsCheckpoint
    <3> QED BY <1>2, <2>1, <2>2, <3>1, <3>2, <3>3
      DEF LocalInv, ProcessInv, ListsFloor, Eng
  <2>4. CASE f = e
    <3>1. db.rows[e] \in Seq(AuditRecord) BY DEF Database
    <3>2. /\ Len(db'.rows[e]) = Len(db.rows[e]) + 1
          /\ \A i \in 1..Len(db.rows[e]) : db'.rows[e][i] = db.rows[e][i]
          /\ LocalChainIntact(db', e)
      BY CommittedChain
    <3>4. ExtendsCheckpoint(db', f, expected[q])
      BY <2>1, <2>2, <2>4, <3>2, ExtendsGrown
    <3>5. \A i \in 1..Len(result[q]) : \E j \in 1..Len(db'.rows[f]) :
             EventOf(db'.rows[f][j].content) = result[q][i]
      <4> TAKE i \in 1..Len(result[q])
      <4>1. PICK j \in 1..Len(db.rows[f]) :
               EventOf(db.rows[f][j].content) = result[q][i]
        BY <2>2
      <4>2. j \in 1..Len(db'.rows[f]) BY <2>4, <3>1, <3>2
      <4> QED BY <2>4, <3>2, <4>1, <4>2
    <3> QED BY <1>2, <2>1, <2>4, <3>2, <3>4, <3>5
      DEF LocalInv, ProcessInv, ListsFloor, Eng
  <2> QED BY <2>3, <2>4
<1> QED BY <1>1, <1>2

\* The append transaction.
LEMMA AppendLog ==
  ASSUME TypeInv, LogInv, NEW p \in Procs, AppendTxn(p) PROVE LogInv'
<1> USE DEF TypeInv, TypeOK
<1>1. CASE Fail(p) BY <1>1, FailLog DEF Fail, environment, history
<1>2. CASE ~Fail(p)
  <2> DEFINE e == Eng(p)
  <2>1. /\ pc[p] = "txn" /\ call[p].kind = "append"
        /\ Trusted(p)
        /\ AppendNew(p) \/ AppendReplay(p)
        /\ pc' = [pc EXCEPT ![p] = "seal"]
        /\ UNCHANGED <<call, expected, latest, custody, backups, acked>>
    BY <1>2 DEF AppendTxn, environment, history
  <2>2. /\ call[p] \in Call /\ e \in Engagements
        /\ expected[p] \in AuditCheckpoint
        /\ call[p].req \in Requests /\ call[p].req.eng = e
    BY <2>1 DEF LocalOK, Call, Eng
  <2>3. /\ LocalChainIntact(db, e) /\ PairsMatch(db, e) /\ Lineage(db)
        /\ ExtendsCheckpoint(db, e, expected[p])
    BY <2>1 DEF Trusted, VerifiedFrom, Verified, Anchored, ExtendsCheckpoint, LogInv
  <2>4. ProcessInv(p) BY DEF LogInv
  <2>5. /\ SealedOnce(expected[p]) /\ Covers(expected[p].digest, call[p].floor)
        /\ call[p].floor \subseteq acked[e]
    BY <2>1, <2>4 DEF ProcessInv
  <2>6. db.rows[e] \in Seq(AuditRecord) BY <2>2 DEF Database
  <2>7. CASE AppendReplay(p)
    <3>1. PICK c \in StoredContents(e) :
             result' = [result EXCEPT ![p] = <<EventOf(c)>>]
      BY <2>7 DEF AppendReplay
    <3>2. PICK j \in 1..Len(db.rows[e]) : c = db.rows[e][j].content
      BY DEF StoredContents
    <3>3. result'[p] = <<EventOf(db.rows[e][j].content)>> /\ db' = db
      BY <2>7, <3>1, <3>2 DEF AppendReplay
    <3>4. \A i \in 1..Len(result'[p]) : \E k \in 1..Len(db.rows[e]) :
             EventOf(db.rows[e][k].content) = result'[p][i]
      BY <3>3
    <3>5. LocalInv(p)'
      BY <2>1, <2>3, <2>5, <3>3, <3>4 DEF LocalInv, ProcessInv, ListsFloor, Eng
    <3> QED BY <2>1, <3>1, <3>3, <3>5, MoveOne
  <2>8. CASE AppendNew(p)
    <3>1. PICK c \in Content :
             c = [key |-> call[p].req.key, body |-> call[p].req.body,
                  bind |-> call[p].req.bind, id |-> commits]
      <4>1. [key |-> call[p].req.key, body |-> call[p].req.body,
             bind |-> call[p].req.bind, id |-> commits] \in Content
        BY <2>2, AuditConstants DEF Content
      <4> QED BY <4>1
    <3>2. /\ c.key \notin RecordKeys(db, e)
          /\ db' = Committed(db, e, c)
          /\ result' = [result EXCEPT ![p] = <<EventOf(c)>>]
      BY <2>2, <2>8, <3>1 DEF AppendNew, IsNew
    <3>20. db \in Database OBVIOUS
    <3>3. /\ Lineage(db')
          /\ LocalChainIntact(db', e)
          /\ Len(db'.rows[e]) = Len(db.rows[e]) + 1
          /\ db'.rows[e][Len(db.rows[e]) + 1].content = c
          /\ \A i \in 1..Len(db.rows[e]) : db'.rows[e][i] = db.rows[e][i]
      <4> HIDE DEF TypeInv, TypeOK, e
      <4>1. /\ Lineage(Committed(db, e, c))
            /\ LocalChainIntact(Committed(db, e, c), e)
            /\ Len(Committed(db, e, c).rows[e]) = Len(db.rows[e]) + 1
            /\ Committed(db, e, c).rows[e][Len(db.rows[e]) + 1].content = c
            /\ \A i \in 1..Len(db.rows[e]) :
                  Committed(db, e, c).rows[e][i] = db.rows[e][i]
        BY <2>2, <2>3, <3>1, <3>2, <3>20, CommittedChain
      <4> QED BY <3>2, <4>1
    <3>5. ExtendsCheckpoint(db', e, expected[p])
      BY <2>2, <2>3, <3>3, <3>20, ExtendsGrown
    <3>6. \A i \in 1..Len(result'[p]) : \E k \in 1..Len(db'.rows[e]) :
             EventOf(db'.rows[e][k].content) = result'[p][i]
      <4>1. result'[p] = <<EventOf(c)>> BY <3>2
      <4>2. Len(db.rows[e]) + 1 \in 1..Len(db'.rows[e]) BY <2>6, <3>3
      <4>3. EventOf(db'.rows[e][Len(db.rows[e]) + 1].content) = EventOf(c) BY <3>3
      <4>4. \A i \in 1..Len(result'[p]) : result'[p][i] = EventOf(c) BY <4>1
      <4> QED BY <4>2, <4>3, <4>4
    <3>7. LocalInv(p)'
      BY <2>1, <2>3, <2>5, <3>3, <3>5, <3>6 DEF LocalInv, ProcessInv, ListsFloor, Eng
    <3>8. \A q \in Procs \ {p} : LocalInv(q)'
      <4> TAKE q \in Procs \ {p}
      <4>1. LocalInv(q) BY DEF LogInv, KnownEventsListed, LocalInv
      <4>2. /\ pc'[q] = pc[q] /\ call'[q] = call[q] /\ expected'[q] = expected[q]
            /\ latest'[q] = latest[q] /\ result'[q] = result[q]
        BY <2>1, <3>2
      <4> QED BY <2>1, <2>2, <2>3, <3>1, <3>2, <4>1, <4>2, CommitOther
    <3>9. KnownEventsListed' /\ (\A q \in Procs : ProcessInv(q))'
      BY <3>7, <3>8 DEF LocalInv, KnownEventsListed
    <3> QED BY <2>1, <3>3, <3>9 DEF LogInv, CustodyInv, KnownEventsAnchored
  <2> QED BY <2>1, <2>7, <2>8
<1> QED BY <1>1, <1>2

\* Storing the new checkpoint and returning.
LEMMA AdvanceLog ==
  ASSUME TypeInv, LogInv, NEW p \in Procs, Advance(p) PROVE LogInv'
<1> USE DEF TypeInv, TypeOK
<1>1. CASE Fail(p) BY <1>1, FailLog DEF Fail, environment, history
<1>2. CASE ~Fail(p)
  <2> DEFINE e == Eng(p)
             new == {result[p][i] : i \in 1..Len(result[p])}
  <2>1. /\ pc[p] = "advance"
        /\ CanAdvance(custody[e], expected[p], latest[p])
        /\ custody' = [custody EXCEPT ![e] = Advanced(@, latest[p])]
        /\ acked' = [acked EXCEPT ![e] = @ \cup new]
        /\ Leave(p)
        /\ UNCHANGED <<db, backups>>
    BY <1>2 DEF Advance, environment
  <2>2. /\ e \in Engagements /\ latest[p] \in AuditCheckpoint
        /\ expected[p] \in AuditCheckpoint
    BY <2>1 DEF LocalOK, Call, Eng
  <2>3. ProcessInv(p) BY DEF LogInv
  <2>4. /\ SealedOnce(latest[p])
        /\ Extends(latest[p].digest, expected[p].digest)
        /\ \A i \in 1..Len(result[p]) : \E j \in 1..Len(latest[p].digest) :
              EventOf(latest[p].digest[j]) = result[p][i]
    BY <2>1, <2>3 DEF ProcessInv
  <2>5. custody[e] # None BY <2>1 DEF CanAdvance
  <2>6. /\ custody'[e] # None
        /\ custody'[e].digest = latest[p].digest
        /\ SealedOnce(custody'[e])
    <3>1. custody'[e] = Advanced(custody[e], latest[p]) BY <2>1, <2>2
    <3>2. latest[p] # None BY <2>2, NoneIsFresh
    <3> QED BY <2>2, <2>4, <2>5, <3>1, <3>2
      DEF Advanced, SameTrust, LogInv, CustodyInv
  <2>7. custody[e].digest = latest[p].digest \/ custody[e] = expected[p]
    BY <2>1 DEF CanAdvance, SameTrust
  <2>8. ASSUME NEW ev \in acked'[e]
        PROVE  \E i \in 1..Len(latest[p].digest) : EventOf(latest[p].digest[i]) = ev
    <3>1. CASE ev \in new BY <2>4, <3>1
    <3>2. CASE ev \in acked[e]
      <4>1. PICK i \in 1..Len(custody[e].digest) : EventOf(custody[e].digest[i]) = ev
        BY <2>2, <3>2 DEF LogInv, KnownEventsAnchored
      <4>2. CASE custody[e].digest = latest[p].digest BY <4>1, <4>2
      <4>3. CASE custody[e] = expected[p]
        <5>1. expected[p].digest \in Seq(Content) /\ latest[p].digest \in Seq(Content)
          BY <2>2 DEF AuditCheckpoint, Digest
        <5>2. i \in 1..Len(latest[p].digest) /\ latest[p].digest[i] = expected[p].digest[i]
          BY <2>4, <4>1, <4>3, <5>1 DEF Extends
        <5> QED BY <4>1, <4>3, <5>2
      <4> QED BY <2>7, <4>2, <4>3
    <3> QED BY <2>1, <2>2, <2>8, <3>1, <3>2
  <2>9. KnownEventsAnchored'
    <3>1. SUFFICES ASSUME NEW f \in Engagements, acked'[f] # {}
                   PROVE  /\ custody'[f] # None
                          /\ \A ev \in acked'[f] : \E i \in 1..Len(custody'[f].digest) :
                                EventOf(custody'[f].digest[i]) = ev
      BY DEF KnownEventsAnchored
    <3>2. CASE f = e BY <2>6, <2>8, <3>2
    <3>3. CASE f # e
      <4>1. custody'[f] = custody[f] /\ acked'[f] = acked[f] BY <2>1, <3>3
      <4> QED BY <3>1, <4>1 DEF LogInv, KnownEventsAnchored
    <3> QED BY <3>2, <3>3
  <2>10. CustodyInv'
    BY <2>1, <2>2, <2>6 DEF LogInv, CustodyInv
  <2>11. \A f \in Engagements : acked[f] \subseteq acked'[f] BY <2>1
  <2>12. pc'[p] = "idle" BY <2>1 DEF Leave
  <2>13. \A q \in Procs \ {p} : LocalInv(q)'
    <3> TAKE q \in Procs \ {p}
    <3>1. LocalInv(q) BY DEF LogInv, KnownEventsListed, LocalInv
    <3>2. /\ pc'[q] = pc[q] /\ call'[q] = call[q] /\ expected'[q] = expected[q]
          /\ latest'[q] = latest[q] /\ result'[q] = result[q]
      BY <2>1 DEF Leave
    <3> QED BY <2>1, <2>11, <3>1, <3>2, OtherProcess DEF LocalOK
  <2>14. KnownEventsListed' /\ (\A q \in Procs : ProcessInv(q))'
    BY <2>12, <2>13, IdleProcess DEF LocalInv, KnownEventsListed
  <2> QED BY <2>1, <2>9, <2>10, <2>14 DEF LogInv, Lineage
<1> QED BY <1>1, <1>2

\* While no operation runs the database may become any copy with lineage.
LEMMA DisturbLog ==
  ASSUME TypeInv, LogInv, NEW d \in Database, Lineage(d), Disturb(d) PROVE LogInv'
<1>1. \A q \in Procs : pc'[q] = "idle"
  BY DEF Disturb, Quiet, local
<1>2. KnownEventsListed' /\ (\A q \in Procs : ProcessInv(q))'
  BY <1>1, IdleProcess DEF LocalInv, KnownEventsListed
<1> QED BY <1>2 DEF Disturb, history, LogInv, CustodyInv, KnownEventsAnchored

\* Every append, query, crash, lost row and restored copy keeps the invariant
\* of the event log.
LEMMA LogNext == TypeInv /\ LogInv /\ [Next]_vars => LogInv'
<1> SUFFICES ASSUME TypeInv, LogInv, [Next]_vars PROVE LogInv'
  OBVIOUS
<1>1. ASSUME NEW p \in Procs, NEW kind, NEW e \in Engagements, NEW r, NEW late,
             Begin(p, kind, e, r, late)
      PROVE  LogInv'
  <2>1. pc'[p] = "load" /\ call'[p].floor = acked[e] /\ call'[p].eng = e
    BY <1>1 DEF Begin, TypeInv, TypeOK
  <2>2. acked' = acked BY <1>1 DEF Begin, history
  <2>3. LocalInv(p)' BY <2>1, <2>2 DEF LocalInv, ProcessInv, ListsFloor, Eng
  <2> QED BY <1>1, <2>3, MoveOne DEF Begin, TypeInv, TypeOK, environment, history
<1>2. ASSUME NEW p \in Procs, NEW r \in Requests, NEW late \in BOOLEAN,
             BeginAppend(p, r, late)
      PROVE  LogInv'
  <2>1. r.eng \in Engagements BY AuditConstants
  <2> QED BY <1>1, <1>2, <2>1 DEF BeginAppend
<1>3. ASSUME NEW p \in Procs, NEW e \in Engagements, BeginList(p, e) PROVE LogInv'
  BY <1>1, <1>3 DEF BeginList
<1>4. ASSUME NEW p \in Procs, CheckEmpty(p) PROVE LogInv'
  <2>1. CASE Fail(p) BY <2>1, FailLog DEF Fail, environment, history
  <2>2. CASE ~Fail(p)
    <3>1. /\ pc[p] = "empty" /\ pc' = [pc EXCEPT ![p] = "genesis"]
          /\ UNCHANGED <<call, expected, latest, result, db, custody, backups, acked>>
      BY <1>4, <2>2 DEF CheckEmpty, environment, history
    <3>2. ProcessInv(p) BY DEF LogInv
    <3>3. LocalInv(p)'
      BY <3>1, <3>2 DEF LocalInv, ProcessInv, ListsFloor, Eng, TypeInv, TypeOK
    <3> QED BY <3>1, <3>3, MoveOne DEF TypeInv, TypeOK
  <2> QED BY <2>1, <2>2
<1>5. ASSUME NEW p \in Procs, Crash(p) PROVE LogInv'
  BY <1>5, FailLog DEF Crash, history
<1>6. CASE Tick \/ Backup \/ UNCHANGED vars
  <2>1. UNCHANGED <<db, custody, local, acked>>
    BY <1>6 DEF Tick, Backup, vars, history
  <2>2. \A q \in Procs : LocalInv(q)'
    BY <2>1, OtherProcess
       DEF local, TypeInv, TypeOK, LocalOK, LogInv, KnownEventsListed, LocalInv
  <2>3. \A b \in backups' : Lineage(b)
    BY <1>6 DEF Tick, Backup, vars, environment, LogInv
  <2>4. KnownEventsListed' /\ (\A q \in Procs : ProcessInv(q))'
    BY <2>2 DEF LocalInv, KnownEventsListed
  <2> QED BY <2>1, <2>3, <2>4 DEF LogInv, CustodyInv, KnownEventsAnchored
<1>7. CASE Restore
  BY <1>7, DisturbLog DEF Restore, LogInv, TypeInv, TypeOK
<1>8. ASSUME NEW e \in Engagements, LoseEvent(e) \/ LoseHead(e) PROVE LogInv'
  <2>1. PICK d : /\ d = [db EXCEPT !.head[e] = None]
                    \/ \E i \in 1..Len(db.events[e]) : d = [db EXCEPT !.events[e] = Without(@, i)]
                 /\ Disturb(d)
    BY <1>8 DEF LoseEvent, LoseHead
  <2>2. d \in Database
    <3>1. ASSUME NEW i \in 1..Len(db.events[e])
          PROVE  [db EXCEPT !.events[e] = Without(@, i)] \in Database
      <4>1. Without(db.events[e], i) \in Seq(Event)
        BY WithoutType DEF TypeInv, TypeOK, Database
      <4> QED BY <4>1 DEF TypeInv, TypeOK, Database
    <3>2. [db EXCEPT !.head[e] = None] \in Database BY DEF TypeInv, TypeOK, Database
    <3> QED BY <2>1, <3>1, <3>2
  <2>3. d.rows = db.rows BY <2>1 DEF TypeInv, TypeOK, Database
  <2>4. Lineage(d) BY <2>3 DEF LogInv, Lineage
  <2> QED BY <2>1, <2>2, <2>4, DisturbLog
<1>9. ASSUME NEW e \in Engagements, LoseRecord(e) PROVE LogInv'
  <2>1. PICK i \in 1..Len(db.rows[e]) : Disturb([db EXCEPT !.rows[e] = Without(@, i)])
    BY <1>9 DEF LoseRecord
  <2>2. Without(db.rows[e], i) \in Seq(AuditRecord)
    BY WithoutType DEF TypeInv, TypeOK, Database
  <2>3. [db EXCEPT !.rows[e] = Without(@, i)] \in Database
    BY <2>2 DEF TypeInv, TypeOK, Database
  <2>4. Lineage([db EXCEPT !.rows[e] = Without(@, i)])
    BY LineageWithout DEF LogInv, TypeInv, TypeOK
  <2> QED BY <2>1, <2>3, <2>4, DisturbLog
<1> QED BY <1>2, <1>3, <1>4, <1>5, <1>6, <1>7, <1>8, <1>9, LoadLog, IssueLog,
           InitializeLog, AppendLog, ListLog, AdvanceLog DEF Next, Step

\* LogInv is an invariant of the event log.
LEMMA LogInvariant == Spec => [](TypeInv /\ LogInv)
<1>1. Spec => []TypeInv BY TypeInit, TypeNext, PTL DEF Spec
<1> QED BY <1>1, LogInit, LogNext, PTL DEF Spec

\* Whatever rows are lost and whichever copy is restored between operations,
\* list_for_engagement returns every event known to a caller when it began,
\* or fails.
THEOREM KnownEventsAreListed == Spec => []KnownEventsListed
<1>1. LogInv => KnownEventsListed BY DEF LogInv
<1> QED BY <1>1, LogInvariant, PTL

\* Every event an append or a query has returned is sealed under the trusted
\* checkpoint file.
THEOREM KnownEventsAreAnchored == Spec => []KnownEventsAnchored
<1>1. LogInv => KnownEventsAnchored BY DEF LogInv
<1> QED BY <1>1, LogInvariant, PTL

\* Callers never see two events with one idempotency key.
THEOREM KeysNameOneEvent == Spec => []OneEventPerKey
<1>1. LogInv => OneEventPerKey
  <2>1. SUFFICES ASSUME LogInv, NEW e \in Engagements,
                        NEW x \in acked[e], NEW y \in acked[e], x.key = y.key
                 PROVE  x = y
    BY DEF OneEventPerKey
  <2>2. /\ SealedOnce(custody[e])
        /\ \A ev \in acked[e] : \E i \in 1..Len(custody[e].digest) :
              EventOf(custody[e].digest[i]) = ev
    BY <2>1 DEF LogInv, CustodyInv, KnownEventsAnchored
  <2>3. PICK i \in 1..Len(custody[e].digest) : EventOf(custody[e].digest[i]) = x BY <2>2
  <2>4. PICK j \in 1..Len(custody[e].digest) : EventOf(custody[e].digest[j]) = y BY <2>2
  <2>5. custody[e].digest[i].key = x.key /\ custody[e].digest[j].key = y.key
    BY <2>3, <2>4 DEF EventOf
  <2>6. i = j BY <2>1, <2>2, <2>5 DEF SealedOnce
  <2> QED BY <2>3, <2>4, <2>6
<1> QED BY <1>1, LogInvariant, PTL

\* A digest extends itself.
LEMMA ExtendsReflexive == ASSUME NEW s \in Seq(Content) PROVE Extends(s, s)
  BY DEF Extends

\* No step takes the trusted checkpoint back or to another history.
LEMMA CustodyStep ==
  ASSUME TypeInv, LogInv, [Next]_vars, NEW e \in Engagements, custody[e] # None
  PROVE  custody'[e] # None /\ Extends(custody'[e].digest, custody[e].digest)
<1> USE DEF TypeInv, TypeOK
<1>1. custody[e] \in AuditCheckpoint /\ custody[e].digest \in Seq(Content)
  BY DEF AuditCheckpoint, Digest
<1>2. CASE custody'[e] = custody[e] BY <1>1, <1>2, ExtendsReflexive
<1>3. ASSUME NEW p \in Procs, Initialize(p), custody' # custody PROVE custody'[e] = custody[e]
  <2>1. custody' = [custody EXCEPT ![Eng(p)] = Initialized(@, latest[p])]
    BY <1>3 DEF Initialize, Fail
  <2> QED BY <2>1 DEF Initialized
<1>4. ASSUME NEW p \in Procs, Advance(p), custody' # custody
      PROVE  custody'[e] # None /\ Extends(custody'[e].digest, custody[e].digest)
  <2>1. /\ pc[p] = "advance"
        /\ CanAdvance(custody[Eng(p)], expected[p], latest[p])
        /\ custody' = [custody EXCEPT ![Eng(p)] = Advanced(@, latest[p])]
    BY <1>4 DEF Advance, Fail
  <2>2. CASE e # Eng(p) BY <1>1, <2>1, <2>2, ExtendsReflexive
  <2>3. CASE e = Eng(p)
    <3>1. latest[p] \in AuditCheckpoint /\ latest[p] # None
      BY <2>1, NoneIsFresh DEF LocalOK
    <3>2. Extends(latest[p].digest, expected[p].digest)
      BY <2>1 DEF LogInv, ProcessInv
    <3>3. CASE SameTrust(custody[e], latest[p])
      BY <1>1, <2>1, <2>3, <3>3, ExtendsReflexive DEF Advanced
    <3>4. CASE ~SameTrust(custody[e], latest[p])
      BY <2>1, <2>3, <3>1, <3>2, <3>4 DEF Advanced, CanAdvance
    <3> QED BY <3>3, <3>4
  <2> QED BY <2>2, <2>3
<1>5. ASSUME \A p \in Procs : ~Initialize(p) /\ ~Advance(p) PROVE custody' = custody
  BY <1>5 DEF Next, Step, Begin, BeginAppend, BeginList, Load, CheckEmpty, IssueGenesis,
     IssueLatest, Issue, AppendTxn, ListTxn, Fail, Crash, Tick, Backup, Restore, LoseEvent,
     LoseRecord, LoseHead, Disturb, vars
<1> QED BY <1>1, <1>2, <1>3, <1>4, <1>5

\* The trusted checkpoint file of a stream only ever moves to an extension of
\* the history it anchors, although advance() compares no contents.
THEOREM CustodyAlwaysExtends == Spec => CustodyOnlyExtends
<1>1. TypeInv /\ LogInv /\ [Next]_vars =>
        [\A e \in Engagements : custody[e] # None =>
            custody'[e] # None /\ Extends(custody'[e].digest, custody[e].digest)]_vars
  BY CustodyStep
<1> QED BY <1>1, LogInvariant, PTL DEF Spec, CustodyOnlyExtends

-----------------------------------------------------------------------------
(* What operations return *)

\* The order of a stream: events and records are numbered upwards as they were
\* committed, in the database and in every copy of it, below the next number.
Numbered(d, n) ==
    \A e \in Engagements :
        /\ \A j \in 1..Len(d.events[e]) :
              /\ d.events[e][j].id < n
              /\ \A i \in 1..(j - 1) : d.events[e][i].id < d.events[e][j].id
        /\ \A j \in 1..Len(d.rows[e]) :
              /\ d.rows[e][j].content.id < n
              /\ \A i \in 1..(j - 1) : d.rows[e][i].content.id < d.rows[e][j].content.id

OrderInv == Numbered(db, commits) /\ \A b \in backups : Numbered(b, commits)

\* The events of a list are those of the first contents of a digest.
Lists(digest, evs) ==
    /\ Len(evs) <= Len(digest)
    /\ \A i \in 1..Len(evs) : EventOf(digest[i]) = evs[i]

\* What process p is about to return: the stored event of its own request, or
\* the events of the first records of its stream.
ReturnInv(p) ==
    /\ (pc[p] \in {"seal", "advance"} /\ call[p].kind = "append") =>
          /\ Len(result[p]) = 1
          /\ result[p][1].key = call[p].req.key
          /\ result[p][1].body = call[p].req.body
          /\ \E c \in StoredContents(Eng(p)) :
                EventOf(c) = result[p][1] /\ c.bind = call[p].req.bind
    /\ (pc[p] = "seal" /\ call[p].kind = "list") =>
          /\ Len(result[p]) <= Len(db.rows[Eng(p)])
          /\ \A i \in 1..Len(result[p]) :
                EventOf(db.rows[Eng(p)][i].content) = result[p][i]
    /\ (pc[p] = "advance" /\ call[p].kind = "list") => Lists(latest[p].digest, result[p])

\* The longest list given to a caller follows the trusted checkpoint.
ServedInv ==
    \A e \in Engagements : served[e] # <<>> =>
        custody[e] # None /\ Lists(custody[e].digest, served[e])

ReplyInv ==
    /\ OrderInv
    /\ \A p \in Procs : ReturnInv(p)
    /\ ServedInv

\* Every non-empty set of numbers has a least element: what the proof about
\* lists uses in the place of induction.
LEMMA LeastNumber ==
  ASSUME NEW T, T \subseteq Nat, T # {}
  PROVE  \E x \in T : \A y \in T : x <= y
<1> DEFINE R == {ss \in Nat \X Nat : ss[1] < ss[2]}
<1>1. IsWellFoundedOn(R, Nat) BY NatLessThanWellFounded DEF OpToRel
<1>2. ASSUME NEW x \in Nat, NEW y \in Nat, <<y, x>> \notin R PROVE x <= y
  BY <1>2
<1> HIDE DEF R
<1>3. PICK x \in T : \A y \in T : ~ (<<y, x>> \in R) BY <1>1, WFMin
<1> QED BY <1>2, <1>3

\* When the pair check passes, events and records are in the same order: the
\* i-th event is that of the i-th record.
LEMMA PairsInOrder ==
  ASSUME NEW d \in Database, NEW e \in Engagements, NEW n \in Nat,
         Lineage(d), PairsMatch(d, e), Numbered(d, n)
  PROVE  /\ Len(d.events[e]) <= Len(d.rows[e])
         /\ \A i \in 1..Len(d.events[e]) :
               EventOf(d.rows[e][i].content) = d.events[e][i]
<1> DEFINE evs == d.events[e]
           rows == d.rows[e]
           Same(i) == i <= Len(rows) /\ EventOf(rows[i].content) = evs[i]
           Bad == {i \in 1..Len(evs) : ~Same(i)}
<1>1. /\ Len(evs) \in Nat /\ Len(rows) \in Nat
      /\ \A i \in 1..Len(evs) : evs[i].id \in Nat
      /\ \A i \in 1..Len(rows) : rows[i].content.id \in Nat
  <2>1. evs \in Seq(Event) /\ rows \in Seq(AuditRecord) BY DEF Database
  <2>2. \A i \in 1..Len(evs) : evs[i] \in Event BY <2>1
  <2>3. \A i \in 1..Len(rows) : rows[i] \in AuditRecord BY <2>1
  <2>4. \A i \in 1..Len(evs) : evs[i].id \in Nat BY <2>2 DEF Event
  <2>5. \A i \in 1..Len(rows) : rows[i].content.id \in Nat
    BY <2>3 DEF AuditRecord, Content
  <2>6. Len(evs) \in Nat /\ Len(rows) \in Nat BY <2>1
  <2> QED BY <2>4, <2>5, <2>6
<1>2. \A i \in 1..Len(evs) : \E j \in 1..Len(rows) : EventOf(rows[j].content) = evs[i]
  BY DEF PairsMatch
<1>3. \A j \in 1..Len(rows) : \E i \in 1..Len(evs) : evs[i] = EventOf(rows[j].content)
  BY PairsCover
<1>4. \A i \in 1..Len(rows), j \in 1..Len(evs) :
         EventOf(rows[i].content) = evs[j] => rows[i].content.id = evs[j].id
  BY DEF EventOf
<1>5. \A i, j \in 1..Len(evs) : i < j => evs[i].id < evs[j].id
  <2> TAKE i, j \in 1..Len(evs)
  <2>1. i < j => i \in 1..(j - 1) BY <1>1
  <2> QED BY <2>1 DEF Numbered
<1>6. \A i, j \in 1..Len(rows) : i < j => rows[i].content.id < rows[j].content.id
  <2> TAKE i, j \in 1..Len(rows)
  <2>1. i < j => i \in 1..(j - 1) BY <1>1
  <2> QED BY <2>1 DEF Numbered
<1> HIDE DEF evs, rows
<1>7. Bad = {}
  <2>1. SUFFICES ASSUME Bad # {} PROVE FALSE OBVIOUS
  <2>2. Bad \subseteq Nat BY <1>1
  <2>3. PICK b \in Bad : \A y \in Bad : b <= y BY <2>1, <2>2, LeastNumber
  <2>4. b \in 1..Len(evs) /\ ~Same(b) OBVIOUS
  <2>5. \A i \in 1..Len(evs) : i < b => Same(i)
    <3> TAKE i \in 1..Len(evs)
    <3>1. i \in Bad => b <= i BY <2>3
    <3> QED BY <1>1, <2>4, <3>1
  <2>6. PICK j \in 1..Len(rows) : EventOf(rows[j].content) = evs[b] BY <1>2, <2>4
  <2>7. rows[j].content.id = evs[b].id BY <1>4, <2>4, <2>6
  <2>8. j # b BY <1>1, <2>4, <2>6
  <2>9. ~(j < b)
    <3>1. SUFFICES ASSUME j < b PROVE FALSE OBVIOUS
    <3>2. j \in 1..Len(evs) BY <1>1, <2>4, <3>1
    <3>3. EventOf(rows[j].content) = evs[j] BY <2>5, <3>1, <3>2
    <3>4. evs[j].id < evs[b].id BY <1>5, <2>4, <3>1, <3>2
    <3>5. rows[j].content.id = evs[j].id BY <1>4, <3>2, <3>3
    <3> QED BY <1>1, <2>4, <2>7, <3>2, <3>4, <3>5
  <2>10. b < j /\ b \in 1..Len(rows) BY <1>1, <2>4, <2>8, <2>9
  <2>11. PICK i \in 1..Len(evs) : evs[i] = EventOf(rows[b].content) BY <1>3, <2>10
  <2>12. rows[b].content.id = evs[i].id BY <1>4, <2>10, <2>11
  <2>13. rows[b].content.id < rows[j].content.id BY <1>6, <2>10
  <2>14. i # b BY <1>1, <2>4, <2>10, <2>11
  <2>15. CASE i < b
    <3>1. i \in 1..Len(rows) BY <1>1, <2>4, <2>10, <2>15
    <3>2. rows[i].content.id = evs[i].id BY <1>4, <2>5, <2>15, <3>1
    <3>3. rows[i].content.id < rows[b].content.id BY <1>6, <2>10, <2>15, <3>1
    <3> QED BY <1>1, <2>12, <3>2, <3>3
  <2>16. CASE b < i
    <3>1. evs[b].id < evs[i].id BY <1>5, <2>4, <2>16
    <3> QED BY <1>1, <2>4, <2>7, <2>10, <2>12, <2>13, <3>1
  <2> QED BY <1>1, <2>4, <2>14, <2>15, <2>16
<1>8. \A i \in 1..Len(evs) : Same(i) BY <1>7
<1>9. Len(evs) <= Len(rows)
  <2>1. CASE Len(evs) = 0 BY <1>1, <2>1
  <2>2. CASE Len(evs) # 0
    <3>1. Len(evs) \in 1..Len(evs) BY <1>1, <2>2
    <3> QED BY <1>8, <3>1
  <2> QED BY <2>1, <2>2
<1> QED BY <1>8, <1>9 DEF evs, rows

\* Losing an event, a record or the head keeps the order.
LEMMA NumberedWithout ==
  ASSUME NEW d \in Database, NEW n \in Nat, Numbered(d, n), NEW e \in Engagements
  PROVE  /\ \A i \in 1..Len(d.events[e]) : Numbered([d EXCEPT !.events[e] = Without(@, i)], n)
         /\ \A i \in 1..Len(d.rows[e]) : Numbered([d EXCEPT !.rows[e] = Without(@, i)], n)
         /\ Numbered([d EXCEPT !.head[e] = None], n)
<1>1. d.events[e] \in Seq(Event) /\ d.rows[e] \in Seq(AuditRecord) BY DEF Database
<1>2. ASSUME NEW i \in 1..Len(d.events[e])
      PROVE  Numbered([d EXCEPT !.events[e] = Without(@, i)], n)
  <2> DEFINE d2 == [d EXCEPT !.events[e] = Without(@, i)]
  <2>1. /\ d2.events[e] = Without(d.events[e], i)
        /\ \A f \in Engagements \ {e} : d2.events[f] = d.events[f]
        /\ d2.rows = d.rows
    BY DEF Database
  <2>2. /\ Len(d2.events[e]) = Len(d.events[e]) - 1
        /\ \A j \in 1..Len(d2.events[e]) :
              d2.events[e][j] = d.events[e][IF j < i THEN j ELSE j + 1]
    <3> HIDE DEF d2
    <3>1. /\ Len(Without(d.events[e], i)) = Len(d.events[e]) - 1
          /\ \A j \in 1..(Len(d.events[e]) - 1) :
                Without(d.events[e], i)[j] = d.events[e][IF j < i THEN j ELSE j + 1]
      BY <1>1, WithoutType
    <3> QED BY <2>1, <3>1
  <2> HIDE DEF d2
  <2>3. ASSUME NEW j \in 1..Len(d2.events[e])
        PROVE  /\ d2.events[e][j].id < n
               /\ \A k \in 1..(j - 1) : d2.events[e][k].id < d2.events[e][j].id
    <3> DEFINE J == IF j < i THEN j ELSE j + 1
    <3>1. J \in 1..Len(d.events[e]) BY <1>1, <2>2
    <3>2. d2.events[e][j] = d.events[e][J] BY <2>2
    <3>3. ASSUME NEW k \in 1..(j - 1) PROVE d2.events[e][k].id < d2.events[e][j].id
      <4> DEFINE K == IF k < i THEN k ELSE k + 1
      <4>1. k \in 1..Len(d2.events[e]) /\ K \in 1..(J - 1) BY <1>1, <2>2
      <4>2. d2.events[e][k] = d.events[e][K] BY <2>2, <4>1
      <4>3. d.events[e][K].id < d.events[e][J].id BY <3>1, <4>1 DEF Numbered
      <4> QED BY <3>2, <4>2, <4>3
    <3>4. d.events[e][J].id < n BY <3>1 DEF Numbered
    <3> QED BY <3>2, <3>3, <3>4
  <2> QED BY <2>1, <2>3 DEF Numbered, d2
<1>3. ASSUME NEW i \in 1..Len(d.rows[e])
      PROVE  Numbered([d EXCEPT !.rows[e] = Without(@, i)], n)
  <2> DEFINE d2 == [d EXCEPT !.rows[e] = Without(@, i)]
  <2>1. /\ d2.rows[e] = Without(d.rows[e], i)
        /\ \A f \in Engagements \ {e} : d2.rows[f] = d.rows[f]
        /\ d2.events = d.events
    BY DEF Database
  <2>2. /\ Len(d2.rows[e]) = Len(d.rows[e]) - 1
        /\ \A j \in 1..Len(d2.rows[e]) :
              d2.rows[e][j] = d.rows[e][IF j < i THEN j ELSE j + 1]
    <3> HIDE DEF d2
    <3>1. /\ Len(Without(d.rows[e], i)) = Len(d.rows[e]) - 1
          /\ \A j \in 1..(Len(d.rows[e]) - 1) :
                Without(d.rows[e], i)[j] = d.rows[e][IF j < i THEN j ELSE j + 1]
      BY <1>1, WithoutType
    <3> QED BY <2>1, <3>1
  <2> HIDE DEF d2
  <2>3. ASSUME NEW j \in 1..Len(d2.rows[e])
        PROVE  /\ d2.rows[e][j].content.id < n
               /\ \A k \in 1..(j - 1) : d2.rows[e][k].content.id < d2.rows[e][j].content.id
    <3> DEFINE J == IF j < i THEN j ELSE j + 1
    <3>1. J \in 1..Len(d.rows[e]) BY <1>1, <2>2
    <3>2. d2.rows[e][j] = d.rows[e][J] BY <2>2
    <3>3. ASSUME NEW k \in 1..(j - 1)
          PROVE  d2.rows[e][k].content.id < d2.rows[e][j].content.id
      <4> DEFINE K == IF k < i THEN k ELSE k + 1
      <4>1. k \in 1..Len(d2.rows[e]) /\ K \in 1..(J - 1) BY <1>1, <2>2
      <4>2. d2.rows[e][k] = d.rows[e][K] BY <2>2, <4>1
      <4>3. d.rows[e][K].content.id < d.rows[e][J].content.id BY <3>1, <4>1 DEF Numbered
      <4> QED BY <3>2, <4>2, <4>3
    <3>4. d.rows[e][J].content.id < n BY <3>1 DEF Numbered
    <3> QED BY <3>2, <3>3, <3>4
  <2> QED BY <2>1, <2>3 DEF Numbered, d2
<1>4. Numbered([d EXCEPT !.head[e] = None], n)
  <2>1. /\ [d EXCEPT !.head[e] = None].events = d.events
        /\ [d EXCEPT !.head[e] = None].rows = d.rows
    BY DEF Database
  <2> QED BY <2>1 DEF Numbered
<1> QED BY <1>2, <1>3, <1>4

\* Order below one number is order below the next.
LEMMA NumberedNext ==
  ASSUME NEW d \in Database, NEW n \in Nat, Numbered(d, n) PROVE Numbered(d, n + 1)
<1> SUFFICES ASSUME NEW e \in Engagements
             PROVE  /\ \A j \in 1..Len(d.events[e]) : d.events[e][j].id < n + 1
                    /\ \A j \in 1..Len(d.rows[e]) : d.rows[e][j].content.id < n + 1
  BY DEF Numbered
<1>1. d.events[e] \in Seq(Event) /\ d.rows[e] \in Seq(AuditRecord) BY DEF Database
<1>2. ASSUME NEW j \in 1..Len(d.events[e]) PROVE d.events[e][j].id < n + 1
  <2>1. d.events[e][j] \in Event BY <1>1
  <2>2. d.events[e][j].id \in Nat BY <2>1 DEF Event
  <2>3. d.events[e][j].id < n BY DEF Numbered
  <2> QED BY <2>2, <2>3
<1>3. ASSUME NEW j \in 1..Len(d.rows[e]) PROVE d.rows[e][j].content.id < n + 1
  <2>1. d.rows[e][j] \in AuditRecord BY <1>1
  <2>2. d.rows[e][j].content.id \in Nat BY <2>1 DEF AuditRecord, Content
  <2>3. d.rows[e][j].content.id < n BY DEF Numbered
  <2> QED BY <2>2, <2>3
<1> QED BY <1>2, <1>3

\* A committed append takes the next number.
LEMMA CommittedNumbered ==
  ASSUME NEW d \in Database, NEW n \in Nat, Numbered(d, n), NEW e \in Engagements,
         NEW c \in Content, c.id = n
  PROVE  Numbered(Committed(d, e, c), n + 1)
<1> DEFINE row == [prev |-> LastDigest(d.rows[e]), content |-> c]
           d2 == Committed(d, e, c)
<1>1. d.events[e] \in Seq(Event) /\ d.rows[e] \in Seq(AuditRecord) BY DEF Database
<1>2. row \in AuditRecord BY <1>1, LastDigestType DEF AuditRecord
<1>3. EventOf(c) \in Event /\ EventOf(c).id = n BY EventOfType DEF EventOf
<1>4. /\ d2.events[e] = Append(d.events[e], EventOf(c))
      /\ d2.rows[e] = Append(d.rows[e], row)
      /\ \A f \in Engagements \ {e} :
            d2.events[f] = d.events[f] /\ d2.rows[f] = d.rows[f]
  BY DEF Committed, Database
<1>5. row.content = c OBVIOUS
<1> HIDE DEF d2, row
<1>6. Numbered(d, n + 1) BY NumberedNext
<1>7. ASSUME NEW j \in 1..Len(d2.events[e])
      PROVE  /\ d2.events[e][j].id < n + 1
             /\ \A i \in 1..(j - 1) : d2.events[e][i].id < d2.events[e][j].id
  <2>1. Len(d2.events[e]) = Len(d.events[e]) + 1 /\ Len(d.events[e]) \in Nat
    BY <1>1, <1>3, <1>4
  <2>2. \A i \in 1..Len(d.events[e]) : d2.events[e][i] = d.events[e][i]
    BY <1>1, <1>3, <1>4
  <2>3. CASE j = Len(d.events[e]) + 1
    <3>1. d2.events[e][j] = EventOf(c) BY <1>1, <1>3, <1>4, <2>3
    <3>2. \A i \in 1..(j - 1) : d2.events[e][i].id < n
      BY <2>1, <2>2, <2>3 DEF Numbered
    <3> QED BY <1>3, <3>1, <3>2
  <2>4. CASE j # Len(d.events[e]) + 1
    <3>1. j \in 1..Len(d.events[e]) /\ \A i \in 1..(j - 1) : i \in 1..Len(d.events[e])
      BY <2>1, <2>4
    <3> QED BY <1>6, <2>2, <3>1 DEF Numbered
  <2> QED BY <2>3, <2>4
<1>8. ASSUME NEW j \in 1..Len(d2.rows[e])
      PROVE  /\ d2.rows[e][j].content.id < n + 1
             /\ \A i \in 1..(j - 1) : d2.rows[e][i].content.id < d2.rows[e][j].content.id
  <2>1. Len(d2.rows[e]) = Len(d.rows[e]) + 1 /\ Len(d.rows[e]) \in Nat
    BY <1>1, <1>2, <1>4
  <2>2. \A i \in 1..Len(d.rows[e]) : d2.rows[e][i] = d.rows[e][i]
    BY <1>1, <1>2, <1>4
  <2>3. CASE j = Len(d.rows[e]) + 1
    <3>1. d2.rows[e][j] = row BY <1>1, <1>2, <1>4, <2>3
    <3>2. \A i \in 1..(j - 1) : d2.rows[e][i].content.id < n
      BY <2>1, <2>2, <2>3 DEF Numbered
    <3> QED BY <1>5, <3>1, <3>2
  <2>4. CASE j # Len(d.rows[e]) + 1
    <3>1. j \in 1..Len(d.rows[e]) /\ \A i \in 1..(j - 1) : i \in 1..Len(d.rows[e])
      BY <2>1, <2>4
    <3> QED BY <1>6, <2>2, <3>1 DEF Numbered
  <2> QED BY <2>3, <2>4
<1> QED BY <1>4, <1>6, <1>7, <1>8 DEF Numbered, d2

\* A step that changes the database is a committed append or, while no
\* operation runs, one of the environment.
LEMMA DatabaseMoves ==
  ASSUME TypeInv, [Next]_vars
  PROVE  \/ /\ UNCHANGED <<db, commits>>
            /\ backups' = backups \/ backups' = backups \cup {db}
         \/ \E p \in Procs :
               /\ pc[p] = "txn" /\ call[p].kind = "append" /\ Trusted(p)
               /\ AppendNew(p) /\ backups' = backups
         \/ /\ Quiet /\ UNCHANGED <<commits, backups>>
            /\ \/ db' \in backups
               \/ \E e \in Engagements :
                     \/ \E i \in 1..Len(db.events[e]) :
                           db' = [db EXCEPT !.events[e] = Without(@, i)]
                     \/ \E i \in 1..Len(db.rows[e]) :
                           db' = [db EXCEPT !.rows[e] = Without(@, i)]
                     \/ db' = [db EXCEPT !.head[e] = None]
<1>1. ASSUME NEW p \in Procs, Fail(p)
      PROVE  UNCHANGED <<db, commits>> /\ backups' = backups
  BY <1>1 DEF Fail, environment
<1>2. ASSUME NEW p \in Procs, AppendTxn(p), ~Fail(p)
      PROVE  /\ backups' = backups
             /\ \/ UNCHANGED <<db, commits>>
                \/ /\ pc[p] = "txn" /\ call[p].kind = "append" /\ Trusted(p)
                   /\ AppendNew(p)
  BY <1>2 DEF AppendTxn, AppendReplay, environment
<1>3. ASSUME NEW p \in Procs,
             \/ Load(p) \/ CheckEmpty(p) \/ IssueGenesis(p) \/ Initialize(p)
             \/ ListTxn(p) \/ IssueLatest(p) \/ Advance(p) \/ Crash(p)
      PROVE  UNCHANGED <<db, commits>> /\ backups' = backups
  BY <1>1, <1>3 DEF Load, CheckEmpty, IssueGenesis, Initialize, ListTxn, IssueLatest,
     Issue, Advance, Crash, environment
<1>4. ASSUME NEW p \in Procs, NEW kind, NEW e, NEW r, NEW late, Begin(p, kind, e, r, late)
      PROVE  UNCHANGED <<db, commits>> /\ backups' = backups
  BY <1>4 DEF Begin, environment
<1>5. CASE Tick \/ Backup \/ UNCHANGED vars
  BY <1>5 DEF Tick, Backup, vars, environment
<1>6. CASE Restore BY <1>6 DEF Restore, Disturb
<1>7. ASSUME NEW e \in Engagements, LoseEvent(e) \/ LoseRecord(e) \/ LoseHead(e)
      PROVE  /\ Quiet /\ UNCHANGED <<commits, backups>>
             /\ \/ \E i \in 1..Len(db.events[e]) :
                      db' = [db EXCEPT !.events[e] = Without(@, i)]
                \/ \E i \in 1..Len(db.rows[e]) :
                      db' = [db EXCEPT !.rows[e] = Without(@, i)]
                \/ db' = [db EXCEPT !.head[e] = None]
  BY <1>7 DEF LoseEvent, LoseRecord, LoseHead, Disturb
<1> QED BY <1>1, <1>2, <1>3, <1>4, <1>5, <1>6, <1>7
        DEF Next, Step, BeginAppend, BeginList

\* The new content of a committed append.
LEMMA NewContent ==
  ASSUME TypeInv, NEW p \in Procs, pc[p] = "txn", call[p].kind = "append",
         Trusted(p), AppendNew(p)
  PROVE  \E c \in Content :
            /\ c.key = call[p].req.key /\ c.body = call[p].req.body
            /\ c.bind = call[p].req.bind /\ c.id = commits
            /\ c.key \notin RecordKeys(db, Eng(p))
            /\ db' = Committed(db, Eng(p), c)
            /\ commits' = commits + 1
            /\ result' = [result EXCEPT ![p] = <<EventOf(c)>>]
<1>1. /\ Eng(p) \in Engagements
      /\ call[p].req \in Requests /\ call[p].req.eng = Eng(p)
  BY DEF TypeInv, LocalOK, Call, Eng
<1>2. call[p].req \in [eng : Engagements, key : Keys, body : Bodies, bind : Binds]
  BY <1>1, AuditConstants
<1> DEFINE c == [key |-> call[p].req.key, body |-> call[p].req.body,
                 bind |-> call[p].req.bind, id |-> commits]
<1>3. c \in Content BY <1>2 DEF Content, TypeInv, TypeOK
<1>4. /\ c.key = call[p].req.key /\ c.body = call[p].req.body
      /\ c.bind = call[p].req.bind /\ c.id = commits
  OBVIOUS
<1>5. /\ c.key \notin RecordKeys(db, Eng(p))
      /\ db' = Committed(db, Eng(p), c)
      /\ commits' = commits + 1
      /\ result' = [result EXCEPT ![p] = <<EventOf(c)>>]
  BY <1>1 DEF AppendNew, IsNew
<1> QED BY <1>3, <1>4, <1>5

\* Commits number events and records upwards, and neither a lost row nor a
\* restored copy undoes it.
LEMMA OrderNext ==
  ASSUME TypeInv, OrderInv, [Next]_vars PROVE OrderInv'
<1>1. db \in Database /\ commits \in Nat /\ backups \subseteq Database
  BY DEF TypeInv, TypeOK
<1>2. CASE /\ UNCHANGED <<db, commits>>
           /\ backups' = backups \/ backups' = backups \cup {db}
  BY <1>2 DEF OrderInv, Numbered
<1>3. ASSUME NEW p \in Procs, pc[p] = "txn", call[p].kind = "append", Trusted(p),
             AppendNew(p), backups' = backups
      PROVE  OrderInv'
  <2>1. PICK c \in Content : /\ c.id = commits /\ commits' = commits + 1
                             /\ db' = Committed(db, Eng(p), c)
    BY <1>3, NewContent
  <2>2. Eng(p) \in Engagements BY <1>3 DEF TypeInv, LocalOK, Call, Eng
  <2>3. Numbered(db, commits) /\ \A b \in backups : Numbered(b, commits) BY DEF OrderInv
  <2>4. Numbered(Committed(db, Eng(p), c), commits + 1)
    BY <1>1, <2>1, <2>2, <2>3, CommittedNumbered
  <2>5. \A b \in backups : Numbered(b, commits + 1) BY <1>1, <2>3, NumberedNext
  <2> HIDE DEF Numbered
  <2>6. Numbered(db', commits') BY <2>1, <2>4
  <2>7. \A b \in backups' : Numbered(b, commits') BY <1>3, <2>1, <2>5
  <2> QED BY <2>6, <2>7 DEF OrderInv, Numbered
<1>4. CASE /\ UNCHANGED <<commits, backups>>
           /\ db' \in backups
  BY <1>4 DEF OrderInv, Numbered
<1>5. ASSUME UNCHANGED <<commits, backups>>, NEW e \in Engagements,
             \/ \E i \in 1..Len(db.events[e]) :
                   db' = [db EXCEPT !.events[e] = Without(@, i)]
             \/ \E i \in 1..Len(db.rows[e]) :
                   db' = [db EXCEPT !.rows[e] = Without(@, i)]
             \/ db' = [db EXCEPT !.head[e] = None]
      PROVE  OrderInv'
  <2>1. PICK d : d = db' OBVIOUS
  <2>2. Numbered(db, commits) BY DEF OrderInv
  <2>3. /\ \A i \in 1..Len(db.events[e]) :
              Numbered([db EXCEPT !.events[e] = Without(@, i)], commits)
        /\ \A i \in 1..Len(db.rows[e]) :
              Numbered([db EXCEPT !.rows[e] = Without(@, i)], commits)
        /\ Numbered([db EXCEPT !.head[e] = None], commits)
    BY <1>1, <2>2, NumberedWithout
  <2>4. Numbered(d, commits)
    <3> HIDE DEF Numbered, Without
    <3> QED BY <1>5, <2>1, <2>3
  <2> QED BY <1>5, <2>1, <2>4 DEF OrderInv, Numbered
<1> QED BY <1>2, <1>3, <1>4, <1>5, DatabaseMoves

\* While an operation runs, the records of every stream only grow.
LEMMA RowsGrow ==
  ASSUME TypeInv, LogInv, [Next]_vars, ~Quiet, NEW e \in Engagements
  PROVE  /\ Len(db.rows[e]) <= Len(db'.rows[e])
         /\ \A i \in 1..Len(db.rows[e]) : db'.rows[e][i] = db.rows[e][i]
<1>1. db \in Database BY DEF TypeInv, TypeOK
<1>2. db.rows[e] \in Seq(AuditRecord) BY <1>1 DEF Database
<1>3. CASE db' = db BY <1>2, <1>3
<1>4. ASSUME NEW p \in Procs, pc[p] = "txn", call[p].kind = "append", Trusted(p), AppendNew(p)
      PROVE  /\ Len(db.rows[e]) <= Len(db'.rows[e])
             /\ \A i \in 1..Len(db.rows[e]) : db'.rows[e][i] = db.rows[e][i]
  <2>1. PICK c \in Content : /\ c.key \notin RecordKeys(db, Eng(p))
                             /\ db' = Committed(db, Eng(p), c)
    BY <1>4, NewContent
  <2>2. /\ Eng(p) \in Engagements
        /\ Lineage(db) /\ LocalChainIntact(db, Eng(p))
    BY <1>4 DEF TypeInv, LocalOK, Call, Eng, LogInv, Trusted, VerifiedFrom, Verified
  <2>3. /\ \A f \in Engagements \ {Eng(p)} :
              Committed(db, Eng(p), c).rows[f] = db.rows[f]
        /\ Len(Committed(db, Eng(p), c).rows[Eng(p)]) = Len(db.rows[Eng(p)]) + 1
        /\ \A i \in 1..Len(db.rows[Eng(p)]) :
              Committed(db, Eng(p), c).rows[Eng(p)][i] = db.rows[Eng(p)][i]
    BY <1>1, <2>1, <2>2, CommittedChain
  <2>4. CASE e = Eng(p) BY <1>2, <2>1, <2>3, <2>4
  <2>5. CASE e # Eng(p)
    <3>1. db'.rows[e] = db.rows[e] BY <2>1, <2>3, <2>5
    <3> QED BY <1>2, <3>1
  <2> QED BY <2>4, <2>5
<1> QED BY <1>3, <1>4, DatabaseMoves

\* A process that is about to return got there by its transaction or by
\* issuing its checkpoint, or was there already.
LEMMA ReturnMoves ==
  ASSUME TypeInv, [Next]_vars, NEW p \in Procs, pc'[p] \in {"seal", "advance"}
  PROVE  \/ /\ pc'[p] = pc[p] /\ call'[p] = call[p]
            /\ latest'[p] = latest[p] /\ result'[p] = result[p]
         \/ AppendTxn(p) /\ ~Fail(p)
         \/ ListTxn(p) /\ ~Fail(p)
         \/ IssueLatest(p) /\ ~Fail(p)
<1> USE DEF TypeInv, TypeOK
<1>1. ASSUME NEW q \in Procs, Leave(q)
      PROVE  /\ pc'[p] = pc[p] /\ call'[p] = call[p]
             /\ latest'[p] = latest[p] /\ result'[p] = result[p]
  BY <1>1 DEF Leave
<1>2. ASSUME NEW q \in Procs, Fail(q)
      PROVE  /\ pc'[p] = pc[p] /\ call'[p] = call[p]
             /\ latest'[p] = latest[p] /\ result'[p] = result[p]
  BY <1>1, <1>2 DEF Fail
<1>3. ASSUME NEW q \in Procs, ~Fail(q),
             \/ p # q /\ (AppendTxn(q) \/ ListTxn(q) \/ IssueLatest(q))
             \/ Load(q) \/ CheckEmpty(q) \/ IssueGenesis(q) \/ Initialize(q)
      PROVE  /\ pc'[p] = pc[p] /\ call'[p] = call[p]
             /\ latest'[p] = latest[p] /\ result'[p] = result[p]
  BY <1>3 DEF AppendTxn, AppendNew, AppendReplay, ListTxn, IssueLatest, Issue, Load,
     CheckEmpty, IssueGenesis, Initialize
<1>4. ASSUME NEW q \in Procs, Advance(q) \/ Crash(q)
      PROVE  /\ pc'[p] = pc[p] /\ call'[p] = call[p]
             /\ latest'[p] = latest[p] /\ result'[p] = result[p]
  BY <1>1, <1>2, <1>4 DEF Advance, Crash
<1>5. ASSUME NEW q \in Procs, NEW kind, NEW e, NEW r, NEW late, Begin(q, kind, e, r, late)
      PROVE  /\ pc'[p] = pc[p] /\ call'[p] = call[p]
             /\ latest'[p] = latest[p] /\ result'[p] = result[p]
  BY <1>5 DEF Begin
<1>6. ASSUME \/ Tick \/ Backup \/ Restore \/ UNCHANGED vars
             \/ \E e \in Engagements : LoseEvent(e) \/ LoseRecord(e) \/ LoseHead(e)
      PROVE  /\ pc'[p] = pc[p] /\ call'[p] = call[p]
             /\ latest'[p] = latest[p] /\ result'[p] = result[p]
  BY <1>6 DEF Tick, Backup, Restore, LoseEvent, LoseRecord, LoseHead, Disturb, vars, local
<1> QED BY <1>2, <1>3, <1>4, <1>5, <1>6 DEF Next, Step, BeginAppend, BeginList

\* A process keeps what it is about to return while other processes commit:
\* nothing but an append touches the records of its stream until it is done.
LEMMA ReturnKept ==
  ASSUME TypeInv, LogInv, [Next]_vars, NEW p \in Procs, ReturnInv(p),
         pc[p] \in {"seal", "advance"},
         pc'[p] = pc[p], call'[p] = call[p], latest'[p] = latest[p], result'[p] = result[p]
  PROVE  ReturnInv(p)'
<1> DEFINE e == Eng(p)
<1>1. e \in Engagements /\ e' = e BY DEF TypeInv, LocalOK, Call, Eng
<1>2. ~Quiet BY DEF Quiet
<1>3. /\ Len(db.rows[e]) <= Len(db'.rows[e])
      /\ \A i \in 1..Len(db.rows[e]) : db'.rows[e][i] = db.rows[e][i]
  BY <1>1, <1>2, RowsGrow
<1>4. Len(db.rows[e]) \in Nat /\ Len(db'.rows[e]) \in Nat /\ Len(result[p]) \in Nat
  <2>1. db.rows[e] \in Seq(AuditRecord) /\ result[p] \in Seq(Event)
    BY <1>1 DEF TypeInv, TypeOK, Database
  <2>2. db' \in Database BY TypeNext DEF TypeInv, TypeOK
  <2>3. db'.rows[e] \in Seq(AuditRecord) BY <1>1, <2>2 DEF Database
  <2> QED BY <2>1, <2>3
<1> HIDE DEF e
<1>5. \A i \in 1..Len(db.rows[e]) : i \in 1..Len(db'.rows[e]) BY <1>3, <1>4
<1>6. ASSUME call[p].kind = "append"
      PROVE  /\ Len(result'[p]) = 1
             /\ result'[p][1].key = call'[p].req.key
             /\ result'[p][1].body = call'[p].req.body
             /\ \E c \in StoredContents(e)' :
                   EventOf(c) = result'[p][1] /\ c.bind = call'[p].req.bind
  <2>1. /\ Len(result[p]) = 1
        /\ result[p][1].key = call[p].req.key
        /\ result[p][1].body = call[p].req.body
    BY <1>6 DEF ReturnInv
  <2>2. PICK c \in StoredContents(e) : EventOf(c) = result[p][1] /\ c.bind = call[p].req.bind
    BY <1>6 DEF ReturnInv, e
  <2>3. c \in StoredContents(e)'
    <3>1. PICK i \in 1..Len(db.rows[e]) : c = db.rows[e][i].content BY DEF StoredContents
    <3>2. i \in 1..Len(db'.rows[e]) /\ c = db'.rows[e][i].content BY <1>3, <1>5, <3>1
    <3>3. StoredContents(e)' = {db'.rows[e][k].content : k \in 1..Len(db'.rows[e])}
      BY <1>1 DEF StoredContents
    <3> QED BY <3>2, <3>3
  <2> QED BY <2>1, <2>2, <2>3
<1>7. ASSUME pc[p] = "seal", call[p].kind = "list"
      PROVE  /\ Len(result'[p]) <= Len(db'.rows[e])
             /\ \A i \in 1..Len(result'[p]) :
                   EventOf(db'.rows[e][i].content) = result'[p][i]
  <2>1. /\ Len(result[p]) <= Len(db.rows[e])
        /\ \A i \in 1..Len(result[p]) : EventOf(db.rows[e][i].content) = result[p][i]
    BY <1>7 DEF ReturnInv, e
  <2>2. \A i \in 1..Len(result[p]) : i \in 1..Len(db.rows[e]) BY <1>4, <2>1
  <2>3. Len(result[p]) <= Len(db'.rows[e]) BY <1>3, <1>4, <2>1
  <2>4. \A i \in 1..Len(result[p]) : EventOf(db'.rows[e][i].content) = result[p][i]
    BY <1>3, <2>1, <2>2
  <2> QED BY <2>3, <2>4
<1>8. ASSUME pc[p] = "advance", call[p].kind = "list"
      PROVE  Lists(latest'[p].digest, result'[p])
  BY <1>8 DEF ReturnInv
<1>9. Eng(p)' = e /\ StoredContents(Eng(p))' = StoredContents(e)'
  BY <1>1 DEF e, StoredContents
<1> QED BY <1>6, <1>7, <1>8, <1>9 DEF ReturnInv

\* What a committed or replayed append returns answers its request.
LEMMA AppendReturn ==
  ASSUME TypeInv, LogInv, NEW p \in Procs, AppendTxn(p), ~Fail(p) PROVE ReturnInv(p)'
<1> DEFINE e == Eng(p)
<1>1. /\ pc[p] = "txn" /\ call[p].kind = "append" /\ Trusted(p)
      /\ AppendNew(p) \/ AppendReplay(p)
      /\ pc'[p] = "seal" /\ call' = call
  BY DEF AppendTxn, TypeInv, TypeOK
<1>2. /\ e \in Engagements /\ e' = e
      /\ call[p].req \in Requests /\ call[p].req.eng = e
  BY <1>1 DEF TypeInv, LocalOK, Call, Eng
<1>3. SUFFICES ASSUME NEW c, c \in StoredContents(e)', result'[p] = <<EventOf(c)>>,
                      c.key = call[p].req.key, c.body = call[p].req.body,
                      c.bind = call[p].req.bind
               PROVE  ReturnInv(p)'
  <2>1. CASE AppendReplay(p)
    <3>1. PICK c \in StoredContents(e) :
             IsReplayOf(p, c) /\ result' = [result EXCEPT ![p] = <<EventOf(c)>>]
      BY <2>1 DEF AppendReplay
    <3>2. result'[p] = <<EventOf(c)>> BY <3>1 DEF TypeInv, TypeOK
    <3>3. c.key = call[p].req.key /\ c.body = call[p].req.body /\ c.bind = call[p].req.bind
      BY <3>1 DEF IsReplayOf
    <3>4. StoredContents(e)' = StoredContents(e)
      BY <1>2, <2>1 DEF AppendReplay, StoredContents
    <3> QED BY <1>3, <3>2, <3>3, <3>4
  <2>2. CASE AppendNew(p)
    <3>1. PICK c \in Content :
             /\ c.key = call[p].req.key /\ c.body = call[p].req.body
             /\ c.bind = call[p].req.bind
             /\ c.key \notin RecordKeys(db, e)
             /\ db' = Committed(db, e, c)
             /\ result' = [result EXCEPT ![p] = <<EventOf(c)>>]
      BY <1>1, <2>2, NewContent
    <3>2. result'[p] = <<EventOf(c)>> BY <3>1 DEF TypeInv, TypeOK
    <3>3. /\ db \in Database /\ Lineage(db) /\ LocalChainIntact(db, e)
      BY <1>1 DEF TypeInv, TypeOK, LogInv, Trusted, VerifiedFrom, Verified
    <3>4. /\ Len(db'.rows[e]) = Len(db.rows[e]) + 1
          /\ db'.rows[e][Len(db.rows[e]) + 1].content = c
      <4> HIDE DEF e
      <4>1. /\ Len(Committed(db, e, c).rows[e]) = Len(db.rows[e]) + 1
            /\ Committed(db, e, c).rows[e][Len(db.rows[e]) + 1].content = c
        BY <1>2, <3>1, <3>3, CommittedChain
      <4> QED BY <3>1, <4>1
    <3>5. Len(db.rows[e]) \in Nat BY <1>2, <3>3 DEF Database
    <3>6. c \in StoredContents(e)'
      <4>1. Len(db.rows[e]) + 1 \in 1..Len(db'.rows[e]) BY <3>4, <3>5
      <4>2. StoredContents(e)' = {db'.rows[e][k].content : k \in 1..Len(db'.rows[e])}
        BY <1>2 DEF StoredContents
      <4> QED BY <3>4, <4>1, <4>2
    <3> QED BY <1>3, <3>1, <3>2, <3>6
  <2> QED BY <1>1, <2>1, <2>2
<1>4. EventOf(c).key = c.key /\ EventOf(c).body = c.body BY DEF EventOf
<1>5. StoredContents(Eng(p))' = StoredContents(e)' BY <1>2 DEF StoredContents
<1> QED BY <1>1, <1>3, <1>4, <1>5 DEF ReturnInv

\* A query returns the events of the first records, in order.
LEMMA ListReturn ==
  ASSUME TypeInv, LogInv, OrderInv, NEW p \in Procs, ListTxn(p), ~Fail(p)
  PROVE  ReturnInv(p)'
<1> DEFINE e == Eng(p)
<1>1. /\ pc[p] = "txn" /\ call[p].kind = "list" /\ Trusted(p)
      /\ result'[p] = db.events[e] /\ pc'[p] = "seal" /\ call' = call /\ db' = db
  BY DEF ListTxn, TypeInv, TypeOK
<1>2. e \in Engagements /\ e' = e BY <1>1 DEF TypeInv, LocalOK, Call, Eng
<1>3. /\ db \in Database /\ commits \in Nat
      /\ Lineage(db) /\ PairsMatch(db, e) /\ Numbered(db, commits)
  BY <1>1 DEF TypeInv, TypeOK, LogInv, OrderInv, Trusted
<1>4. /\ Len(db.events[e]) <= Len(db.rows[e])
      /\ \A i \in 1..Len(db.events[e]) : EventOf(db.rows[e][i].content) = db.events[e][i]
  BY <1>2, <1>3, PairsInOrder
<1> QED BY <1>1, <1>2, <1>4 DEF ReturnInv

\* The checkpoint issued after a query seals what the query returns.
LEMMA IssueReturn ==
  ASSUME TypeInv, LogInv, NEW p \in Procs, ReturnInv(p), IssueLatest(p), ~Fail(p)
  PROVE  ReturnInv(p)'
<1> DEFINE e == Eng(p)
<1>1. /\ pc[p] = "seal" /\ pc'[p] = "advance" /\ Verified(db, e)
      /\ latest'[p].digest = LastDigest(db.rows[e])
      /\ UNCHANGED <<call, result, db>>
  BY DEF IssueLatest, Issue, CheckpointOf, TypeInv, TypeOK
<1>2. e \in Engagements /\ e' = e BY <1>1 DEF TypeInv, LocalOK, Call, Eng
<1>3. /\ db \in Database /\ Lineage(db) /\ LocalChainIntact(db, e)
      /\ result[p] \in Seq(Event) /\ db.rows[e] \in Seq(AuditRecord)
  BY <1>1, <1>2 DEF TypeInv, TypeOK, LogInv, Verified, Database
<1>4. /\ Len(LastDigest(db.rows[e])) = Len(db.rows[e])
      /\ \A j \in 1..Len(db.rows[e]) :
            LastDigest(db.rows[e])[j] = db.rows[e][j].content
  BY <1>2, <1>3, IntactLast
<1>5. ASSUME call[p].kind = "list" PROVE Lists(latest'[p].digest, result'[p])
  <2>1. /\ Len(result[p]) <= Len(db.rows[e])
        /\ \A i \in 1..Len(result[p]) : EventOf(db.rows[e][i].content) = result[p][i]
    BY <1>1, <1>5 DEF ReturnInv
  <2>2. \A i \in 1..Len(result[p]) : i \in 1..Len(db.rows[e]) BY <1>3, <2>1
  <2> QED BY <1>1, <1>4, <2>1, <2>2 DEF Lists
<1>6. StoredContents(Eng(p))' = StoredContents(e) BY <1>1, <1>2 DEF StoredContents
<1> QED BY <1>1, <1>5, <1>6 DEF ReturnInv

\* Every step keeps what each process is about to return.
LEMMA ReturnNext ==
  ASSUME TypeInv, LogInv, OrderInv, [Next]_vars, NEW p \in Procs, ReturnInv(p)
  PROVE  ReturnInv(p)'
<1>1. CASE pc'[p] \notin {"seal", "advance"} BY <1>1 DEF ReturnInv
<1>2. CASE pc'[p] \in {"seal", "advance"}
  BY <1>2, ReturnMoves, ReturnKept, AppendReturn, ListReturn, IssueReturn
<1> QED BY <1>1, <1>2

\* A list is given out under the checkpoint that advance() stores with it.
LEMMA Advancing ==
  ASSUME TypeInv, LogInv, ReplyInv, [Next]_vars, NEW e \in Engagements, served'[e] # served[e]
  PROVE  \E p \in Procs :
            /\ served'[e] = result[p] /\ Len(served[e]) <= Len(result[p])
            /\ custody[e] # None
            /\ custody'[e].digest = latest[p].digest
            /\ Lists(latest[p].digest, result[p])
<1>1. ASSUME \A p \in Procs : ~Advance(p) PROVE served' = served
  BY <1>1 DEF Next, Step, Begin, BeginAppend, BeginList, Load, CheckEmpty, IssueGenesis,
     IssueLatest, Issue, Initialize, AppendTxn, ListTxn, Fail, Crash, Tick, Backup, Restore,
     LoseEvent, LoseRecord, LoseHead, Disturb, vars, history
<1>2. PICK p \in Procs : Advance(p) BY <1>1
<1>3. ~Fail(p) BY DEF Fail, history
<1>4. /\ pc[p] = "advance"
      /\ CanAdvance(custody[Eng(p)], expected[p], latest[p])
      /\ custody' = [custody EXCEPT ![Eng(p)] = Advanced(@, latest[p])]
      /\ served' = IF call[p].kind = "list" /\ Len(result[p]) >= Len(served[Eng(p)])
                   THEN [served EXCEPT ![Eng(p)] = result[p]] ELSE served
  BY <1>2, <1>3 DEF Advance
<1>5. /\ e = Eng(p) /\ call[p].kind = "list" /\ Len(result[p]) >= Len(served[e])
      /\ served'[e] = result[p]
  BY <1>4 DEF TypeInv, TypeOK
<1>6. result[p] \in Seq(Event) /\ served[e] \in Seq(Event) BY DEF TypeInv, TypeOK
<1>7. custody[e] # None BY <1>4, <1>5 DEF CanAdvance
<1>8. custody'[e].digest = latest[p].digest
  BY <1>4, <1>5 DEF Advanced, SameTrust, TypeInv, TypeOK
<1>9. Lists(latest[p].digest, result[p]) BY <1>4, <1>5 DEF ReplyInv, ReturnInv
<1> QED BY <1>5, <1>6, <1>7, <1>8, <1>9

\* The longest list given out continues to follow the trusted checkpoint,
\* which only ever extends.
LEMMA ServedNext ==
  ASSUME TypeInv, LogInv, ReplyInv, [Next]_vars PROVE ServedInv'
<1>1. SUFFICES ASSUME NEW e \in Engagements, served'[e] # <<>>
               PROVE  custody'[e] # None /\ Lists(custody'[e].digest, served'[e])
  BY DEF ServedInv
<1>2. CASE served'[e] # served[e]
  BY <1>2, Advancing, CustodyStep
<1>3. CASE served'[e] = served[e]
  <2>1. custody[e] # None /\ Lists(custody[e].digest, served[e])
    BY <1>1, <1>3 DEF ReplyInv, ServedInv
  <2>2. custody'[e] # None /\ Extends(custody'[e].digest, custody[e].digest)
    BY <2>1, CustodyStep
  <2>3. custody[e].digest \in Seq(Content) /\ served[e] \in Seq(Event)
    BY <2>1 DEF TypeInv, TypeOK, AuditCheckpoint, Digest
  <2>4. custody'[e].digest \in Seq(Content)
    <3>1. TypeInv' BY TypeNext
    <3> QED BY <2>2, <3>1 DEF TypeInv, TypeOK, AuditCheckpoint, Digest
  <2>5. Lists(custody'[e].digest, served[e])
    BY <2>1, <2>2, <2>3, <2>4 DEF Lists, Extends
  <2> QED BY <1>3, <2>2, <2>5
<1> QED BY <1>2, <1>3

\* Nothing is numbered, returned or listed in the beginning.
LEMMA ReplyInit == Init => ReplyInv
<1> SUFFICES ASSUME Init PROVE ReplyInv OBVIOUS
<1>1. OrderInv BY DEF Init, OrderInv, Numbered, EmptyDatabase
<1>2. \A p \in Procs : ReturnInv(p) BY DEF Init, ReturnInv
<1>3. ServedInv BY DEF Init, ServedInv
<1> QED BY <1>1, <1>2, <1>3 DEF ReplyInv

\* Every step keeps the order of the log and what operations return.
LEMMA ReplyNext == TypeInv /\ LogInv /\ ReplyInv /\ [Next]_vars => ReplyInv'
<1> SUFFICES ASSUME TypeInv, LogInv, ReplyInv, [Next]_vars PROVE ReplyInv'
  OBVIOUS
<1>1. OrderInv' BY OrderNext DEF ReplyInv
<1>2. \A p \in Procs : ReturnInv(p)' BY ReturnNext DEF ReplyInv
<1>3. ServedInv' BY ServedNext
<1> QED BY <1>1, <1>2, <1>3 DEF ReplyInv

\* ReplyInv is an invariant of the event log.
LEMMA ReplyInvariant == Spec => [](TypeInv /\ LogInv /\ ReplyInv)
<1>1. Spec => []TypeInv BY TypeInit, TypeNext, PTL DEF Spec
<1> QED BY <1>1, LogInvariant, ReplyInit, ReplyNext, PTL DEF Spec

\* append returns the stored event of its own request with its own bindings,
\* however often the key is reused and whatever other processes commit before
\* the operation ends.
THEOREM RepliesMatchRequests == Spec => []ReplyMatchesRequest
<1>1. ReplyInv => ReplyMatchesRequest BY DEF ReplyInv, ReturnInv, ReplyMatchesRequest
<1> QED BY <1>1, ReplyInvariant, PTL

\* A list at least as long as an earlier one continues it.
LEMMA ServedExtends ==
  ASSUME TypeInv, LogInv, ReplyInv, [Next]_vars, NEW e \in Engagements
  PROVE  Extends(served'[e], served[e])
<1>1. served[e] \in Seq(Event) BY DEF TypeInv, TypeOK
<1>2. CASE served'[e] = served[e] BY <1>1, <1>2 DEF Extends
<1>3. CASE served[e] = <<>>
  <2>1. TypeInv' BY TypeNext
  <2>2. served'[e] \in Seq(Event) BY <2>1 DEF TypeInv, TypeOK
  <2> QED BY <1>3, <2>2 DEF Extends
<1>4. CASE served'[e] # served[e] /\ served[e] # <<>>
  <2>1. PICK p \in Procs :
           /\ served'[e] = result[p] /\ Len(served[e]) <= Len(result[p])
           /\ custody'[e].digest = latest[p].digest
           /\ Lists(latest[p].digest, result[p])
    BY <1>4, Advancing
  <2>2. custody[e] # None /\ Lists(custody[e].digest, served[e])
    BY <1>4 DEF ReplyInv, ServedInv
  <2>3. Extends(latest[p].digest, custody[e].digest) BY <2>1, <2>2, CustodyStep
  <2>4. result[p] \in Seq(Event) /\ custody[e].digest \in Seq(Content)
    BY <2>2 DEF TypeInv, TypeOK, AuditCheckpoint, Digest
  <2>5. ASSUME NEW i \in 1..Len(served[e]) PROVE result[p][i] = served[e][i]
    <3>1. i \in 1..Len(custody[e].digest) /\ i \in 1..Len(result[p])
      BY <1>1, <2>1, <2>2, <2>4 DEF Lists
    <3>2. EventOf(custody[e].digest[i]) = served[e][i] BY <2>2 DEF Lists
    <3>3. EventOf(latest[p].digest[i]) = result[p][i] BY <2>1, <3>1 DEF Lists
    <3>4. latest[p].digest[i] = custody[e].digest[i] BY <2>3, <3>1 DEF Extends
    <3> QED BY <3>2, <3>3, <3>4
  <2> QED BY <2>1, <2>5 DEF Extends
<1> QED BY <1>2, <1>3, <1>4

\* Two lists of the events of an engagement given to callers never disagree
\* on what comes first, across crashes, lost rows and restored copies.
THEOREM ListsNeverDisagree == Spec => ListsAgree
<1>1. TypeInv /\ LogInv /\ ReplyInv /\ [Next]_vars =>
        [\A e \in Engagements : Extends(served'[e], served[e])]_vars
  BY ServedExtends
<1> QED BY <1>1, ReplyInvariant, PTL DEF Spec, ListsAgree

-----------------------------------------------------------------------------
(* The log implements EventHistory *)

\* The events of a digest, in order.
LEMMA EventsOfDigest ==
  ASSUME NEW d \in Seq(Content)
  PROVE  /\ Events(d) \in Seq(Event)
         /\ Len(Events(d)) = Len(d)
         /\ \A i \in 1..Len(d) : Events(d)[i] = EventOf(d[i])
<1>1. Len(d) \in Nat OBVIOUS
<1>2. \A i \in 1..Len(d) : EventOf(d[i]) \in Event BY EventOfType
<1>3. Events(d) \in [1..Len(d) -> Event] BY <1>2 DEF Events
<1>4. Events(d) \in Seq(Event) BY <1>1, <1>3, SeqDef
<1> QED BY <1>1, <1>3, <1>4, LenProperties DEF Events

\* A call that ends is not waiting any more, and the others still are.
LEMMA WaitingLeaves ==
  ASSUME TypeInv, NEW p \in Procs, pc[p] # "idle", Leave(p)
  PROVE  Asked(p) \in Waiting /\ Waiting' = Waiting \ {Asked(p)}
<1>1. \A q \in Procs : q # p => pc'[q] = pc[q] /\ call'[q] = call[q]
  BY DEF Leave, TypeInv, TypeOK
<1>2. pc'[p] = "idle" BY DEF Leave, TypeInv, TypeOK
<1>3. \A q \in Procs : q # p => Asked(q)' = Asked(q) BY <1>1 DEF Asked
<1>4. \A q \in Procs : q # p => Asked(q) # Asked(p)
  <2> TAKE q \in Procs
  <2>1. Asked(q).by = q /\ Asked(p).by = p BY DEF Asked
  <2> QED BY <2>1
<1> HIDE DEF Asked
<1>5. Asked(p) \in Waiting BY DEF Waiting
<1>6. ASSUME NEW a PROVE a \in Waiting' <=> a \in Waiting \ {Asked(p)}
  <2>1. a \in Waiting' <=> \E q \in Procs : pc'[q] # "idle" /\ a = Asked(q)'
    BY DEF Waiting
  <2>2. a \in Waiting <=> \E q \in Procs : pc[q] # "idle" /\ a = Asked(q)
    BY DEF Waiting
  <2> QED BY <1>1, <1>2, <1>3, <1>4, <2>1, <2>2
<1> QED BY <1>5, <1>6

\* A step inside an operation changes nothing that callers wait for.
LEMMA WaitingStays ==
  ASSUME call' = call, \A q \in Procs : pc'[q] = "idle" <=> pc[q] = "idle"
  PROVE  Waiting' = Waiting
<1>1. \A q \in Procs : Asked(q)' = Asked(q) BY DEF Asked
<1>2. {q \in Procs : pc'[q] # "idle"} = {q \in Procs : pc[q] # "idle"} OBVIOUS
<1> QED BY <1>1, <1>2 DEF Waiting

\* A caller asks, with what is known at that moment.
LEMMA BeginAsks ==
  ASSUME TypeInv, NEW p \in Procs, NEW kind, NEW e \in Engagements, NEW r, NEW late,
         Begin(p, kind, e, r, late)
  PROVE  Log!Ask
<1>1. /\ pc[p] = "idle" /\ pc'[p] = "load"
      /\ call'[p].eng = e /\ call'[p].floor = acked[e]
      /\ \A q \in Procs : q # p => pc'[q] = pc[q] /\ call'[q] = call[q]
      /\ UNCHANGED <<custody, acked>>
  BY DEF Begin, TypeInv, TypeOK, history
<1> DEFINE a == Asked(p)'
<1>2. a.by = p /\ a.known = acked[a.eng] BY <1>1 DEF Asked
<1>3. \A q \in Procs : q # p => Asked(q)' = Asked(q) BY <1>1 DEF Asked
<1>4. \A q \in Procs : Asked(q).by = q BY DEF Asked
<1> HIDE DEF Asked
<1>5. \A d \in Waiting : d.by # p BY <1>1, <1>4 DEF Waiting
<1>6. a \in Waiting' BY <1>1 DEF Waiting
<1>7. ASSUME NEW x PROVE x \in Waiting' <=> x \in Waiting \cup {a}
  <2>1. x \in Waiting' <=> \E q \in Procs : pc'[q] # "idle" /\ x = Asked(q)'
    BY DEF Waiting
  <2>2. x \in Waiting <=> \E q \in Procs : pc[q] # "idle" /\ x = Asked(q)
    BY DEF Waiting
  <2> QED BY <1>1, <1>3, <2>1, <2>2
<1>8. Waiting' = Waiting \cup {a} BY <1>7
<1>9. SealedEvents' = SealedEvents BY <1>1 DEF SealedEvents
<1> HIDE DEF a
<1> QED BY <1>1, <1>2, <1>5, <1>6, <1>8, <1>9 DEF Log!Ask

\* Starting the custody of a stream starts it with no events.
LEMMA InitializeSeals ==
  ASSUME TypeInv, LogInv, NEW p \in Procs, Initialize(p) PROVE SealedEvents' = SealedEvents
<1>1. CASE Fail(p) BY <1>1 DEF Fail, SealedEvents
<1>2. CASE ~Fail(p)
  <2> DEFINE e == Eng(p)
  <2>1. /\ pc[p] = "initialize" /\ latest[p].seq = 0
        /\ custody' = [custody EXCEPT ![e] = Initialized(@, latest[p])]
    BY <1>2 DEF Initialize, CanInitialize
  <2>2. e \in Engagements /\ latest[p] \in AuditCheckpoint
    BY <2>1 DEF TypeInv, LocalOK, Call, Eng
  <2>3. SealedOnce(latest[p]) BY <2>1 DEF LogInv, ProcessInv
  <2>4. latest[p].digest \in Seq(Content) /\ Len(latest[p].digest) = 0
    BY <2>1, <2>2, <2>3 DEF SealedOnce, AuditCheckpoint, Digest
  <2>5. Events(latest[p].digest) = <<>> BY <2>4, EventsOfDigest, EmptySeq
  <2>6. latest[p] # None BY <2>2, NoneIsFresh
  <2>7. \A f \in Engagements :
           custody'[f] = IF f = e /\ custody[e] = None THEN latest[p] ELSE custody[f]
    BY <2>1, <2>2 DEF Initialized, TypeInv, TypeOK
  <2> HIDE DEF e
  <2>8. \A f \in Engagements :
           (IF custody'[f] = None THEN <<>> ELSE Events(custody'[f].digest))
             = IF custody[f] = None THEN <<>> ELSE Events(custody[f].digest)
    BY <2>5, <2>6, <2>7
  <2> QED BY <2>8 DEF SealedEvents
<1> QED BY <1>1, <1>2

\* Returning to a caller is an answer from the history, which goes on with
\* the checkpoint that is stored.
LEMMA AdvanceAnswers ==
  ASSUME TypeInv, LogInv, ReplyInv, [Next]_vars, NEW p \in Procs, Advance(p), ~Fail(p)
  PROVE  Log!Answer
<1> DEFINE e == Eng(p)
           a == Asked(p)
           new == {result[p][i] : i \in 1..Len(result[p])}
           D == latest[p].digest
<1>1. /\ pc[p] = "advance" /\ Leave(p)
      /\ CanAdvance(custody[e], expected[p], latest[p])
      /\ custody' = [custody EXCEPT ![e] = Advanced(@, latest[p])]
      /\ acked' = [acked EXCEPT ![e] = @ \cup new]
  BY DEF Advance
<1>2. /\ e \in Engagements /\ latest[p] \in AuditCheckpoint /\ D \in Seq(Content)
      /\ call[p].kind \in {"append", "list"} /\ result[p] \in Seq(Event)
  BY <1>1 DEF TypeInv, TypeOK, LocalOK, Call, Eng, AuditCheckpoint, Digest
<1>3. custody[e] # None BY <1>1 DEF CanAdvance
<1>4. custody'[e].digest = D
  BY <1>1, <1>2 DEF Advanced, SameTrust, TypeInv, TypeOK
<1>5. custody'[e] # None /\ Extends(D, custody[e].digest)
  BY <1>2, <1>3, <1>4, CustodyStep
<1>6. /\ SealedEvents'[e] = Events(D)
      /\ SealedEvents[e] = Events(custody[e].digest)
      /\ \A f \in Engagements \ {e} : SealedEvents'[f] = SealedEvents[f]
  <2>1. \A f \in Engagements \ {e} : custody'[f] = custody[f] BY <1>1 DEF TypeInv, TypeOK
  <2> QED BY <1>2, <1>3, <1>4, <1>5, <2>1 DEF SealedEvents
<1>7. SealedOnce(latest[p]) /\ ProcessInv(p) /\ ListsFloor(p) /\ ReturnInv(p)
  BY <1>1 DEF LogInv, ProcessInv, KnownEventsListed, ReplyInv
<1>8. /\ Len(Events(D)) = Len(D) /\ Len(D) \in Nat
      /\ \A i \in 1..Len(D) : Events(D)[i] = EventOf(D[i])
  BY <1>2, EventsOfDigest
<1>9. a \in Waiting /\ Waiting' = Waiting \ {a} BY <1>1, WaitingLeaves
<1>10. /\ a.eng = e /\ a.kind = call[p].kind /\ a.req = call[p].req
       /\ a.known = call[p].floor
  BY DEF Asked, Eng
<1> HIDE DEF a
<1>11. Log!Continues(e)
  <2>1. custody[e].digest \in Seq(Content)
    BY <1>2, <1>3 DEF TypeInv, TypeOK, AuditCheckpoint, Digest
  <2>2. /\ Len(Events(custody[e].digest)) = Len(custody[e].digest)
        /\ \A i \in 1..Len(custody[e].digest) :
              Events(custody[e].digest)[i] = EventOf(custody[e].digest[i])
    BY <2>1, EventsOfDigest
  <2>3. Len(custody[e].digest) <= Len(D)
        /\ \A i \in 1..Len(custody[e].digest) : i \in 1..Len(D) /\ D[i] = custody[e].digest[i]
    BY <1>2, <1>5, <2>1 DEF Extends
  <2>4. ASSUME NEW i \in 1..Len(D), NEW j \in 1..Len(D), Events(D)[i].key = Events(D)[j].key
        PROVE  i = j
    <3>1. \A c \in Content : EventOf(c).key = c.key BY DEF EventOf
    <3>2. D[i] \in Content /\ D[j] \in Content BY <1>2, <2>4
    <3>3. Events(D)[i] = EventOf(D[i]) /\ Events(D)[j] = EventOf(D[j]) BY <1>8, <2>4
    <3>4. D[i].key = D[j].key BY <2>4, <3>1, <3>2, <3>3
    <3> QED BY <1>7, <2>4, <3>4 DEF SealedOnce
  <2>5. Len(SealedEvents[e]) <= Len(SealedEvents'[e]) BY <1>6, <1>8, <2>2, <2>3
  <2>6. \A i \in 1..Len(SealedEvents[e]) : SealedEvents'[e][i] = SealedEvents[e][i]
    BY <1>6, <1>8, <2>2, <2>3
  <2>7. \A i, j \in 1..Len(SealedEvents'[e]) :
           SealedEvents'[e][i].key = SealedEvents'[e][j].key => i = j
    BY <1>6, <1>8, <2>4
  <2> HIDE DEF e
  <2> QED BY <1>6, <2>5, <2>6, <2>7 DEF Log!Continues
<1>12. CASE call[p].kind = "append"
  <2>1. /\ Len(result[p]) = 1
        /\ result[p][1].key = call[p].req.key /\ result[p][1].body = call[p].req.body
    BY <1>1, <1>7, <1>12 DEF ReturnInv
  <2>2. PICK i \in 1..Len(D) : EventOf(D[i]) = result[p][1]
    BY <1>1, <1>7, <2>1 DEF ProcessInv
  <2>3. new = {result[p][1]} BY <2>1
  <2>4. i \in 1..Len(SealedEvents'[e]) /\ SealedEvents'[e][i] = result[p][1]
    BY <1>6, <1>8, <2>2
  <2> HIDE DEF e, new
  <2>5. Log!AnswerAppend(a)
    BY <1>1, <1>10, <1>12, <2>1, <2>3, <2>4 DEF Log!AnswerAppend
  <2> QED BY <1>9, <1>10, <1>11, <2>5 DEF Log!Answer
<1>13. CASE call[p].kind = "list"
  <2>1. Lists(D, result[p]) BY <1>1, <1>7, <1>13 DEF ReturnInv
  <2>2. Len(result[p]) \in 0..Len(SealedEvents'[e])
    BY <1>2, <1>6, <1>8, <2>1 DEF Lists
  <2>3. \A i \in 1..Len(result[p]) : SealedEvents'[e][i] = result[p][i]
    <3> TAKE i \in 1..Len(result[p])
    <3>1. i \in 1..Len(D) BY <1>2, <1>8, <2>1 DEF Lists
    <3> QED BY <1>6, <1>8, <2>1, <3>1 DEF Lists
  <2>4. {SealedEvents'[e][i] : i \in 1..Len(result[p])} = new BY <2>3
  <2>5. call[p].floor \subseteq new BY <1>1, <1>7, <1>13 DEF ListsFloor
  <2> HIDE DEF e, new
  <2>6. acked' = [acked EXCEPT ![e] =
           @ \cup {SealedEvents'[e][i] : i \in 1..Len(result[p])}]
    BY <1>1, <2>4
  <2>7. a.known \subseteq {SealedEvents'[e][i] : i \in 1..Len(result[p])}
    BY <1>10, <2>4, <2>5
  <2>8. \E n \in 0..Len(SealedEvents'[e]) :
           /\ a.known \subseteq {SealedEvents'[e][i] : i \in 1..n}
           /\ acked' = [acked EXCEPT ![e] = @ \cup {SealedEvents'[e][i] : i \in 1..n}]
    BY <2>2, <2>6, <2>7
  <2>9. Log!AnswerList(a)
    <3> DEFINE Told(f) ==
             \E n \in 0..Len(SealedEvents'[f]) :
                /\ a.known \subseteq {SealedEvents'[f][i] : i \in 1..n}
                /\ acked' = [acked EXCEPT ![f] = @ \cup {SealedEvents'[f][i] : i \in 1..n}]
    <3>1. Told(a.eng)
      <4>1. Told(e) BY <2>8
      <4> HIDE DEF Told
      <4> QED BY <1>10, <4>1
    <3>2. a.kind = "list" BY <1>10, <1>13
    <3> QED BY <3>1, <3>2, Zenon DEF Log!AnswerList
  <2> QED BY <1>9, <1>10, <1>11, <2>9 DEF Log!Answer
<1> QED BY <1>2, <1>12, <1>13

\* Every step of the log is a step or a stutter of the history.
LEMMA HistoryStep ==
  ASSUME TypeInv, LogInv, ReplyInv, [Next]_vars PROVE [Log!Next]_(Log!vars)
<1> DEFINE Stutter == /\ SealedEvents' = SealedEvents /\ acked' = acked /\ Waiting' = Waiting
<1>1. ASSUME NEW p \in Procs, pc[p] # "idle", Leave(p), UNCHANGED <<custody, acked>>
      PROVE  Log!Forget
  <2>1. SealedEvents' = SealedEvents BY <1>1 DEF SealedEvents
  <2>2. Asked(p) \in Waiting /\ Waiting' = Waiting \ {Asked(p)} BY <1>1, WaitingLeaves
  <2> QED BY <1>1, <2>1, <2>2 DEF Log!Forget
<1>2. ASSUME NEW p \in Procs, pc[p] # "idle", Fail(p) PROVE Log!Forget
  BY <1>1, <1>2 DEF Fail, history
<1>3. ASSUME NEW p \in Procs, NEW q \in {"load", "empty", "genesis", "initialize", "txn", "seal"},
             NEW t \in {"empty", "genesis", "initialize", "txn", "seal", "advance"},
             pc[p] = q, pc' = [pc EXCEPT ![p] = t], call' = call, acked' = acked,
             SealedEvents' = SealedEvents
      PROVE  Stutter
  <2>1. \A r \in Procs : pc'[r] = "idle" <=> pc[r] = "idle" BY <1>3 DEF TypeInv, TypeOK
  <2> QED BY <1>3, <2>1, WaitingStays
<1>4. ASSUME NEW p \in Procs, ~Fail(p),
             \/ Load(p) \/ CheckEmpty(p) \/ IssueGenesis(p) \/ AppendTxn(p)
             \/ ListTxn(p) \/ IssueLatest(p)
      PROVE  Stutter
  <2>1. custody' = custody /\ acked' = acked /\ call' = call
    BY <1>4 DEF Load, CheckEmpty, IssueGenesis, Issue, AppendTxn, ListTxn, IssueLatest, history
  <2>2. SealedEvents' = SealedEvents BY <2>1 DEF SealedEvents
  <2>3. PICK q \in {"load", "empty", "genesis", "initialize", "txn", "seal"} :
           pc[p] = q
    BY <1>4 DEF Load, CheckEmpty, IssueGenesis, Issue, AppendTxn, ListTxn, IssueLatest
  <2>4. PICK t \in {"empty", "genesis", "initialize", "txn", "seal", "advance"} :
           pc' = [pc EXCEPT ![p] = t]
    BY <1>4 DEF Load, CheckEmpty, IssueGenesis, Issue, AppendTxn, ListTxn, IssueLatest
  <2> QED BY <1>3, <2>1, <2>2, <2>3, <2>4
<1>5. ASSUME NEW p \in Procs, Initialize(p), ~Fail(p) PROVE Stutter
  <2>1. SealedEvents' = SealedEvents BY <1>5, InitializeSeals
  <2> QED BY <1>3, <1>5, <2>1 DEF Initialize, history
<1>6. ASSUME NEW p \in Procs,
             \/ Load(p) \/ CheckEmpty(p) \/ IssueGenesis(p) \/ Initialize(p) \/ AppendTxn(p)
             \/ ListTxn(p) \/ IssueLatest(p) \/ Advance(p)
      PROVE  pc[p] # "idle"
  BY <1>6 DEF Load, CheckEmpty, IssueGenesis, Issue, Initialize, AppendTxn, ListTxn,
     IssueLatest, Advance
<1>7. ASSUME NEW p \in Procs, Crash(p) PROVE Log!Forget
  BY <1>1, <1>7 DEF Crash, history
<1>8. ASSUME NEW p \in Procs, Step(p) PROVE Stutter \/ Log!Forget \/ Log!Answer
  BY <1>2, <1>4, <1>5, <1>6, <1>8, AdvanceAnswers DEF Step
<1>9. ASSUME NEW p \in Procs, NEW r \in Requests, NEW late \in BOOLEAN, BeginAppend(p, r, late)
      PROVE  Log!Ask
  <2>1. r.eng \in Engagements BY AuditConstants
  <2> QED BY <1>9, <2>1, BeginAsks DEF BeginAppend
<1>10. ASSUME NEW p \in Procs, NEW e \in Engagements, BeginList(p, e) PROVE Log!Ask
  BY <1>10, BeginAsks DEF BeginList
<1>11. ASSUME \/ Tick \/ Backup \/ Restore \/ UNCHANGED vars
              \/ \E e \in Engagements : LoseEvent(e) \/ LoseRecord(e) \/ LoseHead(e)
       PROVE  Stutter
  <2>1. UNCHANGED <<custody, acked, pc, call>>
    BY <1>11 DEF Tick, Backup, Restore, LoseEvent, LoseRecord, LoseHead, Disturb, vars,
       local, history
  <2> QED BY <2>1, WaitingStays DEF SealedEvents
<1> HIDE DEF Stutter
<1>12. Stutter \/ Log!Next
  BY <1>7, <1>8, <1>9, <1>10, <1>11 DEF Next, Log!Next
<1> QED BY <1>12 DEF Stutter, Log!vars

\* The event log - database, chain and checkpoint file, with crashes, lost rows
\* and restored copies - implements one history per engagement.
THEOREM ImplementsHistory == Spec => OneHistory
<1>1. Init => Log!Init
  BY DEF Init, Log!Init, SealedEvents, Waiting
<1>2. TypeInv /\ LogInv /\ ReplyInv /\ [Next]_vars => [Log!Next]_(Log!vars)
  BY HistoryStep
<1> QED BY <1>1, <1>2, ReplyInvariant, PTL DEF Spec, OneHistory, Log!Spec
=============================================================================
