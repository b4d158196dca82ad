------------------------ MODULE ProviderCenterProofs ------------------------
(***************************************************************************)
(* Proofs about ProviderCenter, for any commands, providers, revisions,    *)
(* identities and finished probes.                                         *)
(***************************************************************************)
EXTENDS ProviderCenter, TLAPS

-----------------------------------------------------------------------------
(* The inductive invariant *)

\* What a command is about, whoever carries it out.
ContentOK ==
    \A i \in Ids :
        /\ content[i].kind = "register" => Revision(content[i].profile) = 1
        /\ content[i].kind = "update" => Revision(content[i].profile) < MaxRevision
        /\ content[i].kind = "route" => content[i].profile = content[i].primary

Proven == {"capabilities_probed", "role_admitted"}

HasManifest(f) == \E m \in manifests : m[1] = f

\* What a command saw of its profile when it was accepted.
Decided(p) ==
    LET kind == Its(p).kind
        state == Seen(p).state
    IN  /\ kind \in {"probe", "bind"} => state = "secret_bound"
        /\ kind = "sync" => state \in Syncable
        /\ kind = "enable" => state = "capabilities_probed"
        /\ kind = "disable" => state \notin {"none", "disabled"}
        /\ kind = "route" => state = "role_admitted"

\* A command under way has an identity and is about a profile that stays.
CallOK(p) ==
    call[p].pc # "idle" =>
        /\ call[p].id \in Ids /\ Its(p) \in Commands
        /\ Decided(p)
        /\ Its(p).kind # "register" => Seen(p) # Absent /\ stored[Its(p).profile] # Absent
        /\ Seen(p).state \in Proven => HasManifest(Its(p).profile)

\* The identity that proves a capability was used for that.
EvidenceKept ==
    \A m \in manifests :
        /\ m[2] \in Ids => ledger[m[2]] = "completed"
        /\ m[2] \in Sources => m[2] \in bound

\* An identity is claimed before its adapter is asked, by one command.
AdapterKept ==
    /\ \A i \in Ids : called[i] > 0 => ledger[i] # "none"
    /\ \A p \in Procs : call[p].pc = "adapter" =>
          ledger[call[p].id] # "none" /\ called[call[p].id] = 0
    /\ \A p, q \in Procs :
          p # q /\ call[p].pc = "adapter" /\ call[q].pc = "adapter" => call[p].id # call[q].id

Inv ==
    /\ RegistryKept /\ ProvenBeforeAdmitted
    /\ ContentOK /\ (\A p \in Procs : CallOK(p)) /\ EvidenceKept /\ AdapterKept

-----------------------------------------------------------------------------
(* Values *)

\* A profile is a provider and a revision.
LEMMA ProfilePairs ==
  /\ \A f \in Profiles : Provider(f) \in Providers /\ Revision(f) \in 1..MaxRevision
  /\ \A f, g \in Profiles : Provider(f) = Provider(g) /\ Revision(f) = Revision(g) => f = g
  /\ \A a \in Providers, n \in 1..MaxRevision :
        <<a, n>> \in Profiles /\ Provider(<<a, n>>) = a /\ Revision(<<a, n>>) = n
  BY DEF Profiles, Provider, Revision

\* The parts of a command.
LEMMA CommandParts ==
  ASSUME NEW c \in Commands
  PROVE  /\ c.profile \in Profiles
         /\ c.kind \in {"register", "update", "probe", "sync", "disable", "bind", "enable", "route"}
         /\ c.kind = "bind" => c.source \in Sources
         /\ c.kind \in {"enable", "route"} => c.primary \in Profiles /\ c.fallback \in SUBSET Profiles
  BY DEF Commands

\* A life cycle goes on in its type, never to one that is absent, and forward.
LEMMA MovedType ==
  ASSUME NEW r \in LifeCycles, NEW t \in DOMAIN ProviderTransitions,
         NEW e \in Ids \cup Sources \cup {None}
  PROVE  /\ Moved(r, t, e) \in LifeCycles /\ Moved(r, t, e).state = t
         /\ Moved(r, t, e).seq = r.seq + 1 /\ Moved(r, t, e) # Absent /\ r.seq \in Nat
<1>1. r.seq \in Nat BY DEF LifeCycles
<1>2. Moved(r, t, e) = [state |-> t, seq |-> r.seq + 1, by |-> e] BY DEF Moved
<1>3. Moved(r, t, e) \in LifeCycles BY <1>1, <1>2 DEF LifeCycles
<1> QED BY <1>1, <1>2, <1>3 DEF Absent

\* The states that the transitions know.
LEMMA TransitionStates ==
  DOMAIN ProviderTransitions =
      {"draft", "secret_bound", "connectivity_verified", "catalog_discovered",
       "capabilities_probed", "role_admitted", "disabled"}
  BY DEF ProviderTransitions

\* Only a probed profile is admitted, and a disabled one is not disabled again.
LEMMA Moves ==
  ASSUME NEW r
  PROVE  /\ CanMove(r, "role_admitted") => r.state = "capabilities_probed"
         /\ CanMove(r, "disabled") => r.state \notin {"none", "disabled"}
  BY DEF CanMove, ProviderTransitions

\* What registration makes of a profile.
LEMMA BoundType ==
  ASSUME NEW e \in Ids \cup Sources \cup {None}
  PROVE  /\ Bound(e) \in LifeCycles /\ Bound(e).state = "secret_bound" /\ Bound(e).seq = 2
         /\ Bound(e) # Absent
<1>1. [state |-> "draft", seq |-> 1, by |-> None] \in LifeCycles
  BY TransitionStates DEF LifeCycles
<1> DEFINE d == [state |-> "draft", seq |-> 1, by |-> None]
<1>2. d.seq = 1 OBVIOUS
<1> HIDE DEF d
<1>3. /\ Moved(d, "secret_bound", e) \in LifeCycles
      /\ Moved(d, "secret_bound", e).state = "secret_bound"
      /\ Moved(d, "secret_bound", e).seq = d.seq + 1 /\ Moved(d, "secret_bound", e) # Absent
  BY <1>1, TransitionStates, MovedType DEF d
<1> QED BY <1>2, <1>3 DEF Bound, d

\* What a passed probe makes of a profile.
LEMMA ProbedType ==
  ASSUME NEW r \in LifeCycles, NEW e \in Ids \cup Sources \cup {None}
  PROVE  /\ Probed(r, e) \in LifeCycles /\ Probed(r, e).state = "capabilities_probed"
         /\ Probed(r, e).seq = r.seq + 3 /\ Probed(r, e) # Absent /\ r.seq \in Nat
<1> DEFINE a == Moved(r, "connectivity_verified", e)
           b == Moved(a, "catalog_discovered", e)
<1>1. a \in LifeCycles /\ a.seq = r.seq + 1 /\ r.seq \in Nat BY TransitionStates, MovedType
<1>2. b \in LifeCycles /\ b.seq = a.seq + 1 BY <1>1, TransitionStates, MovedType
<1> HIDE DEF a, b
<1>3. Moved(b, "capabilities_probed", e).seq = b.seq + 1 BY <1>2, TransitionStates, MovedType
<1>4. Probed(r, e) = Moved(b, "capabilities_probed", e) BY DEF Probed, a, b
<1>5. /\ Moved(b, "capabilities_probed", e) \in LifeCycles
      /\ Moved(b, "capabilities_probed", e).state = "capabilities_probed"
      /\ Moved(b, "capabilities_probed", e) # Absent
  BY <1>2, TransitionStates, MovedType
<1> QED BY <1>1, <1>2, <1>3, <1>4, <1>5

\* A profile that is not stored.
LEMMA AbsentType == Absent \in LifeCycles
  BY DEF Absent, LifeCycles

-----------------------------------------------------------------------------
(* Commands under way *)

\* What a process does leaves the commands of the others as they are.
Others(p) == \A q \in Procs \ {p} : call'[q] = call[q]

\* Stored profiles and published manifests stay.
Grows ==
    /\ \A f \in Profiles : stored[f] # Absent => stored'[f] # Absent
    /\ manifests \subseteq manifests'

\* A command that does not move keeps what it saw.
LEMMA CallStays ==
  ASSUME Inv, NEW q \in Procs, call'[q] = call[q], Grows,
         call[q].pc # "idle" => content'[call[q].id] = content[call[q].id]
  PROVE  CallOK(q)'
<1> SUFFICES ASSUME call[q].pc # "idle" PROVE CallOK(q)' BY DEF CallOK
<1>1. CallOK(q) BY DEF Inv
<1>2. Its(q)' = Its(q) /\ Seen(q)' = Seen(q) BY DEF Its, Seen
<1>3. Its(q) \in Commands BY <1>1 DEF CallOK
<1>4. Its(q).profile \in Profiles BY <1>3, CommandParts
<1>5. Decided(q)' BY <1>1, <1>2 DEF CallOK, Decided
<1>6. HasManifest(Its(q).profile) => HasManifest(Its(q).profile)'
  BY <1>2 DEF HasManifest, Grows
<1>7. stored[Its(q).profile] # Absent => stored'[Its(q).profile] # Absent BY <1>4 DEF Grows
<1> QED BY <1>1, <1>2, <1>3, <1>5, <1>6, <1>7 DEF CallOK

\* The command of p ends or goes on as one that is in order.
LEMMA CallsKept ==
  ASSUME Inv, NEW p \in Procs, Others(p), Grows, content' = content, CallOK(p)'
  PROVE  \A q \in Procs : CallOK(q)'
  BY CallStays DEF Others

\* What is known of a command under way.
LEMMA UnderWay ==
  ASSUME Inv, NEW p \in Procs, call[p].pc # "idle"
  PROVE  /\ call[p].id \in Ids /\ Its(p) \in Commands /\ Its(p).profile \in Profiles
         /\ Its(p) = content[call[p].id] /\ Seen(p) = call[p].seen /\ Seen(p) \in LifeCycles
         /\ Decided(p) /\ call[p].passed \in BOOLEAN
         /\ Its(p).kind # "register" => Seen(p) # Absent /\ stored[Its(p).profile] # Absent
         /\ Seen(p).state \in Proven => HasManifest(Its(p).profile)
<1>1. CallOK(p) /\ TypeOK BY DEF Inv, RegistryKept
<1>2. Its(p).profile \in Profiles BY <1>1, CommandParts DEF CallOK
<1>3. Seen(p) \in LifeCycles /\ call[p].passed \in BOOLEAN BY <1>1 DEF TypeOK, Seen
<1> QED BY <1>1, <1>2, <1>3 DEF CallOK, Its, Seen

\* What a transaction that completes an identity does to the commands.
LEMMA FinishFrame ==
  ASSUME Inv, NEW p \in Procs, call[p].pc # "idle", Grows,
         ledger' = [ledger EXCEPT ![call[p].id] = "completed"],
         call' = [call EXCEPT ![p] = Idle], UNCHANGED <<content, called>>
  PROVE  /\ ledger' \in [Ids -> {"none", "started", "completed"}]
         /\ call' \in [Procs -> [pc : {"idle", "apply", "claim", "adapter", "compare", "complete"},
                           id : Ids \cup {None}, seen : LifeCycles, passed : BOOLEAN]]
         /\ \A i \in Ids : ledger[i] = "completed" => ledger'[i] = "completed"
         /\ ContentOK' /\ AdapterOnce' /\ AdapterKept'
         /\ \A q \in Procs : CallOK(q)'
<1>1. TypeOK BY DEF Inv, RegistryKept
<1>2. /\ ledger' = [ledger EXCEPT ![call[p].id] = "completed"]
      /\ call' = [call EXCEPT ![p] = Idle]
      /\ UNCHANGED <<content, called>>
  OBVIOUS
<1>3. call[p].id \in Ids BY UnderWay
<1>4. Idle \in [pc : {"idle", "apply", "claim", "adapter", "compare", "complete"},
                id : Ids \cup {None}, seen : LifeCycles, passed : BOOLEAN]
  BY AbsentType DEF Idle
<1>5. ledger' \in [Ids -> {"none", "started", "completed"}] BY <1>1, <1>2 DEF TypeOK
<1>6. call' \in [Procs -> [pc : {"idle", "apply", "claim", "adapter", "compare", "complete"},
                           id : Ids \cup {None}, seen : LifeCycles, passed : BOOLEAN]]
  BY <1>1, <1>2, <1>4 DEF TypeOK
<1>7. call'[p].pc = "idle" /\ Others(p) BY <1>1, <1>2 DEF TypeOK, Others, Idle
<1>8. \A i \in Ids : \/ ledger'[i] = ledger[i]
                     \/ ledger'[i] = "completed"
  BY <1>1, <1>2 DEF TypeOK
<1>9. ContentOK' BY <1>2 DEF Inv, ContentOK
<1>10. AdapterOnce' BY <1>2 DEF Inv, RegistryKept, AdapterOnce
<1>11. AdapterKept'
  <2>1. \A i \in Ids : called'[i] > 0 => ledger'[i] # "none"
    BY <1>2, <1>8 DEF Inv, AdapterKept
  <2>2. ASSUME NEW q \in Procs, call'[q].pc = "adapter"
        PROVE  call'[q] = call[q] /\ call[q].pc = "adapter" /\ call[q].id \in Ids
    <3>1. call'[q] = call[q] BY <1>7, <2>2 DEF Others
    <3> QED BY <2>2, <3>1, UnderWay
  <2> QED BY <1>2, <1>8, <2>1, <2>2 DEF Inv, AdapterKept
<1>12. CallOK(p)' BY <1>7 DEF CallOK
<1>13. \A q \in Procs : CallOK(q)' BY <1>2, <1>7, <1>12, CallsKept
<1> QED BY <1>5, <1>6, <1>8, <1>9, <1>10, <1>11, <1>13

\* What every transaction of a mutation does to the identities and commands.
LEMMA ApplyFrame ==
  ASSUME Inv, NEW p \in Procs, NEW kind, Applying(p, kind), Grows
  PROVE  /\ call[p].pc # "idle" /\ Its(p).kind = kind
         /\ ledger' \in [Ids -> {"none", "started", "completed"}]
         /\ call' \in [Procs -> [pc : {"idle", "apply", "claim", "adapter", "compare", "complete"},
                           id : Ids \cup {None}, seen : LifeCycles, passed : BOOLEAN]]
         /\ \A i \in Ids : ledger[i] = "completed" => ledger'[i] = "completed"
         /\ ContentOK' /\ AdapterOnce' /\ AdapterKept'
         /\ \A q \in Procs : CallOK(q)'
<1>1. /\ call[p].pc # "idle" /\ Its(p).kind = kind
      /\ ledger' = [ledger EXCEPT ![call[p].id] = "completed"]
      /\ call' = [call EXCEPT ![p] = Idle] /\ UNCHANGED <<content, called>>
  BY DEF Applying
<1> QED BY <1>1, FinishFrame

\* Transactions that publish no manifest.
LEMMA SameEvidence ==
  ASSUME Inv, manifests' = manifests, bound \subseteq bound',
         \A i \in Ids : ledger[i] = "completed" => ledger'[i] = "completed"
  PROVE  EvidenceUsedOnce' /\ EvidenceKept'
<1>1. EvidenceUsedOnce' BY DEF Inv, RegistryKept, EvidenceUsedOnce
<1>2. EvidenceKept' BY DEF Inv, EvidenceKept
<1> QED BY <1>1, <1>2

\* A write to a stored profile leaves the revisions as they are.
LEMMA OneWrite ==
  ASSUME Inv, NEW f \in Profiles, NEW r \in LifeCycles, r # Absent, stored[f] # Absent,
         stored' = [stored EXCEPT ![f] = r], current' = current,
         manifests \subseteq manifests', r.state \in Proven => HasManifest(f)'
  PROVE  /\ stored' \in [Profiles -> LifeCycles] /\ stored'[f] = r
         /\ \A g \in Profiles \ {f} : stored'[g] = stored[g]
         /\ Grows /\ NewestIsCurrent' /\ ProvenBeforeAdmitted'
<1>1. stored \in [Profiles -> LifeCycles] BY DEF Inv, RegistryKept, TypeOK
<1>2. /\ stored' \in [Profiles -> LifeCycles] /\ stored'[f] = r
      /\ \A g \in Profiles \ {f} : stored'[g] = stored[g]
  BY <1>1
<1>3. \A g \in Profiles : stored'[g] = Absent <=> stored[g] = Absent BY <1>2
<1>4. Grows BY <1>3 DEF Grows
<1>5. NewestIsCurrent' BY <1>3 DEF Inv, RegistryKept, NewestIsCurrent
<1>6. ProvenBeforeAdmitted'
  <2> SUFFICES ASSUME NEW g \in Profiles, stored'[g].state \in Proven
               PROVE  \E m \in manifests' : m[1] = g
    BY DEF ProvenBeforeAdmitted, Proven
  <2>1. CASE g = f BY <1>2, <2>1 DEF HasManifest
  <2>2. CASE g # f
    <3>1. \E m \in manifests : m[1] = g BY <1>2, <2>2 DEF Inv, ProvenBeforeAdmitted, Proven
    <3> QED BY <3>1
  <2> QED BY <2>1, <2>2
<1> QED BY <1>2, <1>4, <1>5, <1>6

\* The parts of the invariant.
LEMMA InvParts ==
  ASSUME TypeOK', NewestIsCurrent', ProvenBeforeAdmitted', EvidenceUsedOnce', EvidenceKept',
         ContentOK', AdapterOnce', AdapterKept', \A q \in Procs : CallOK(q)'
  PROVE  Inv'
  BY DEF Inv, RegistryKept

\* A profile that is no longer read as it is written goes forward.
Forward(f) == stored'[f].seq > stored[f].seq /\ stored[f].state # "disabled"

ForwardStep ==
    \A f \in Profiles : stored'[f] # stored[f] /\ f \notin overtaken' => Forward(f)

RouteStep ==
    route' # route /\ route'.with = route'.primary =>
        /\ route'.primary \in current'
        /\ stored'[route'.primary].state = "role_admitted"

Good == Inv' /\ ForwardStep /\ RouteStep

-----------------------------------------------------------------------------
(* Mutations *)

\* register_profile: a provider of which nothing is stored.
LEMMA RegisterStep ==
  ASSUME Inv, NEW p \in Procs, Register(p)
  PROVE  Good
<1> DEFINE f == Its(p).profile
           r == Bound(call[p].id)
<1>1. TypeOK /\ Applying(p, "register") BY DEF Inv, RegistryKept, Register
<1>2. call[p].pc # "idle" /\ Its(p).kind = "register" BY <1>1 DEF Applying
<1>3. call[p].id \in Ids /\ f \in Profiles /\ Its(p) = content[call[p].id] BY <1>2, UnderWay
<1>4. Revision(f) = 1 BY <1>2, <1>3 DEF Inv, ContentOK
<1>5. /\ \A g \in Profiles : Provider(g) = Provider(f) => stored[g] = Absent
      /\ stored' = [stored EXCEPT ![f] = r] /\ current' = current \cup {f}
      /\ UNCHANGED <<manifests, bound, route>>
  BY DEF Register
<1>6. r \in LifeCycles /\ r.state = "secret_bound" /\ r.seq = 2 /\ r # Absent
  BY <1>3, BoundType
<1> HIDE DEF f, r
<1>7. /\ stored' \in [Profiles -> LifeCycles] /\ stored'[f] = r
      /\ \A g \in Profiles \ {f} : stored'[g] = stored[g]
  BY <1>1, <1>3, <1>5, <1>6 DEF TypeOK
<1>8. stored[f] = Absent BY <1>3, <1>5
<1>9. Grows BY <1>5, <1>7, <1>8 DEF Grows
<1>10. /\ ledger' \in [Ids -> {"none", "started", "completed"}]
       /\ call' \in [Procs -> [pc : {"idle", "apply", "claim", "adapter", "compare", "complete"},
                           id : Ids \cup {None}, seen : LifeCycles, passed : BOOLEAN]]
       /\ \A i \in Ids : ledger[i] = "completed" => ledger'[i] = "completed"
       /\ ContentOK' /\ AdapterOnce' /\ AdapterKept'
       /\ \A q \in Procs : CallOK(q)'
  BY <1>1, <1>9, ApplyFrame
<1>11. TypeOK' BY <1>1, <1>3, <1>5, <1>7, <1>10 DEF TypeOK, Applying
<1>12. NewestIsCurrent'
  <2>1. \A g \in Profiles : g \in current <=>
            /\ stored[g] # Absent
            /\ \A h \in Profiles : Provider(h) = Provider(g) /\ Revision(h) > Revision(g) =>
                   stored[h] = Absent
    BY DEF Inv, RegistryKept, NewestIsCurrent
  <2>2. \A g \in Profiles : Provider(g) = Provider(f) /\ g # f =>
            stored'[g] = Absent /\ g \notin current'
    BY <1>5, <1>7, <2>1
  <2>3. \A g \in Profiles : Revision(g) >= 1 /\ Revision(g) \in Nat BY ProfilePairs
  <2> SUFFICES ASSUME NEW g \in Profiles
               PROVE  g \in current' <=>
                        /\ stored'[g] # Absent
                        /\ \A h \in Profiles : Provider(h) = Provider(g) /\ Revision(h) > Revision(g) =>
                               stored'[h] = Absent
    BY DEF NewestIsCurrent
  <2>4. CASE g = f
    <3>1. \A h \in Profiles : Provider(h) = Provider(g) /\ Revision(h) > Revision(g) =>
              stored'[h] = Absent
      BY <1>3, <2>2, <2>3, <2>4
    <3> QED BY <1>5, <1>6, <1>7, <2>4, <3>1
  <2>5. CASE g # f /\ Provider(g) = Provider(f)
    <3>1. g \notin current' /\ stored'[g] = Absent BY <2>2, <2>5
    <3> QED BY <3>1
  <2>6. CASE Provider(g) # Provider(f)
    <3>1. \A h \in Profiles : Provider(h) = Provider(g) => stored'[h] = stored[h]
      BY <1>7, <2>6
    <3> QED BY <1>5, <2>1, <2>6, <3>1
  <2> QED BY <2>4, <2>5, <2>6
<1>13. ProvenBeforeAdmitted'
  BY <1>5, <1>6, <1>7 DEF Inv, ProvenBeforeAdmitted
<1>14. EvidenceUsedOnce' /\ EvidenceKept' BY <1>5, <1>10, SameEvidence
<1>15. ForwardStep
  BY <1>6, <1>7, <1>8 DEF ForwardStep, Forward, Absent
<1>16. RouteStep BY <1>5 DEF RouteStep
<1> QED BY <1>10, <1>11, <1>12, <1>13, <1>14, <1>15, <1>16, InvParts DEF Good

\* update_profile: the next revision of a provider, which becomes the current one.
LEMMA UpdateStep ==
  ASSUME Inv, NEW p \in Procs, Update(p)
  PROVE  Good
<1> DEFINE f == Its(p).profile
           g == <<Provider(f), Revision(f) + 1>>
           r == Bound(call[p].id)
<1>1. TypeOK /\ Applying(p, "update") BY DEF Inv, RegistryKept, Update
<1>2. call[p].pc # "idle" /\ Its(p).kind = "update" BY <1>1 DEF Applying
<1>3. call[p].id \in Ids /\ f \in Profiles /\ Its(p) = content[call[p].id] BY <1>2, UnderWay
<1>4. Revision(f) < MaxRevision BY <1>2, <1>3 DEF Inv, ContentOK
<1>5. /\ f \in current /\ stored[g] = Absent
      /\ stored' = [stored EXCEPT ![g] = r]
      /\ current' = {h \in current : Provider(h) # Provider(f)} \cup {g}
      /\ UNCHANGED <<manifests, bound, route>>
  BY DEF Update, SameProfile
<1>6. r \in LifeCycles /\ r.state = "secret_bound" /\ r.seq = 2 /\ r # Absent
  BY <1>3, BoundType
<1>7. /\ g \in Profiles /\ Provider(g) = Provider(f) /\ Revision(g) = Revision(f) + 1
      /\ Revision(f) \in Nat
  <2>1. Provider(f) \in Providers /\ Revision(f) \in 1..MaxRevision BY <1>3, ProfilePairs
  <2>2. Revision(f) + 1 \in 1..MaxRevision BY <1>4, <2>1, RevisionAssumption
  <2> QED BY <2>1, <2>2, ProfilePairs
<1> HIDE DEF f, g, r
<1>8. /\ stored' \in [Profiles -> LifeCycles] /\ stored'[g] = r
      /\ \A h \in Profiles \ {g} : stored'[h] = stored[h]
  BY <1>1, <1>5, <1>6, <1>7 DEF TypeOK
<1>9. Grows BY <1>5, <1>7, <1>8 DEF Grows
<1>10. /\ ledger' \in [Ids -> {"none", "started", "completed"}]
       /\ call' \in [Procs -> [pc : {"idle", "apply", "claim", "adapter", "compare", "complete"},
                           id : Ids \cup {None}, seen : LifeCycles, passed : BOOLEAN]]
       /\ \A i \in Ids : ledger[i] = "completed" => ledger'[i] = "completed"
       /\ ContentOK' /\ AdapterOnce' /\ AdapterKept'
       /\ \A q \in Procs : CallOK(q)'
  BY <1>1, <1>9, ApplyFrame
<1>11. TypeOK' BY <1>1, <1>5, <1>7, <1>8, <1>10 DEF TypeOK, Applying
<1>12. NewestIsCurrent'
  <2>1. \A h \in Profiles : h \in current <=>
            /\ stored[h] # Absent
            /\ \A k \in Profiles : Provider(k) = Provider(h) /\ Revision(k) > Revision(h) =>
                   stored[k] = Absent
    BY DEF Inv, RegistryKept, NewestIsCurrent
  <2>2. \A h \in Profiles : Revision(h) \in Nat BY ProfilePairs
  <2>3. \A k \in Profiles : Provider(k) = Provider(f) /\ Revision(k) > Revision(g) =>
            k # g /\ stored'[k] = Absent
    BY <1>3, <1>5, <1>7, <1>8, <2>1, <2>2
  <2> SUFFICES ASSUME NEW h \in Profiles
               PROVE  h \in current' <=>
                        /\ stored'[h] # Absent
                        /\ \A k \in Profiles : Provider(k) = Provider(h) /\ Revision(k) > Revision(h) =>
                               stored'[k] = Absent
    BY DEF NewestIsCurrent
  <2>4. CASE h = g BY <1>5, <1>6, <1>7, <1>8, <2>3, <2>4
  <2>5. CASE h # g /\ Provider(h) = Provider(f)
    <3>1. h \notin current' BY <1>5, <2>5
    <3>2. CASE Revision(h) < Revision(g) BY <1>6, <1>7, <1>8, <2>5, <3>1, <3>2
    <3>3. CASE Revision(h) > Revision(g) BY <2>3, <2>5, <3>1, <3>3
    <3>4. Revision(h) # Revision(g) BY <1>7, <2>5, ProfilePairs
    <3> QED BY <1>7, <2>2, <3>2, <3>3, <3>4
  <2>6. CASE Provider(h) # Provider(f)
    <3>1. \A k \in Profiles : Provider(k) = Provider(h) => stored'[k] = stored[k]
      BY <1>7, <1>8, <2>6
    <3>2. h \in current' <=> h \in current BY <1>5, <1>7, <2>6
    <3> QED BY <2>1, <3>1, <3>2
  <2> QED BY <2>4, <2>5, <2>6
<1>13. ProvenBeforeAdmitted'
  BY <1>5, <1>6, <1>8 DEF Inv, ProvenBeforeAdmitted
<1>14. EvidenceUsedOnce' /\ EvidenceKept' BY <1>5, <1>10, SameEvidence
<1>15. ForwardStep
  BY <1>5, <1>6, <1>8 DEF ForwardStep, Forward, Absent
<1>16. RouteStep BY <1>5 DEF RouteStep
<1> QED BY <1>10, <1>11, <1>12, <1>13, <1>14, <1>15, <1>16, InvParts DEF Good

\* A transaction that moves one stored profile forward and publishes nothing.
LEMMA WriteStep ==
  ASSUME Inv, NEW p \in Procs, NEW kind, Applying(p, kind),
         NEW f \in Profiles, NEW r \in LifeCycles, r # Absent, stored[f] # Absent,
         stored' = [stored EXCEPT ![f] = r], UNCHANGED <<current, manifests, bound>>,
         r.state \in Proven => HasManifest(f),
         r.seq > stored[f].seq, stored[f].state # "disabled",
         \/ route' = route
         \/ route' \in [primary : Profiles, fallback : SUBSET Profiles, with : Profiles]
  PROVE  Inv' /\ ForwardStep
<1>1. TypeOK BY DEF Inv, RegistryKept
<1>2. r.state \in Proven => HasManifest(f)' BY DEF HasManifest
<1>3. /\ stored' \in [Profiles -> LifeCycles] /\ stored'[f] = r
      /\ \A g \in Profiles \ {f} : stored'[g] = stored[g]
      /\ Grows /\ NewestIsCurrent' /\ ProvenBeforeAdmitted'
  BY <1>2, OneWrite
<1>4. /\ ledger' \in [Ids -> {"none", "started", "completed"}]
      /\ call' \in [Procs -> [pc : {"idle", "apply", "claim", "adapter", "compare", "complete"},
                           id : Ids \cup {None}, seen : LifeCycles, passed : BOOLEAN]]
      /\ \A i \in Ids : ledger[i] = "completed" => ledger'[i] = "completed"
      /\ ContentOK' /\ AdapterOnce' /\ AdapterKept'
      /\ \A q \in Procs : CallOK(q)'
  BY <1>3, ApplyFrame
<1>5. TypeOK' BY <1>1, <1>3, <1>4 DEF TypeOK, Applying
<1>6. EvidenceUsedOnce' /\ EvidenceKept' BY <1>4, SameEvidence
<1>7. ForwardStep BY <1>3 DEF ForwardStep, Forward
<1>8. Inv' BY <1>3, <1>4, <1>5, <1>6, InvParts
<1> QED BY <1>7, <1>8

\* enable_provider: the probed revision is admitted, and the route it was validated
\* with becomes the default one.
LEMMA EnableStep ==
  ASSUME Inv, NEW p \in Procs, Enable(p)
  PROVE  Good
<1> DEFINE f == Its(p).profile
           r == Moved(Seen(p), "role_admitted", call[p].id)
<1>1. Applying(p, "enable") BY DEF Enable
<1>2. call[p].pc # "idle" /\ Its(p).kind = "enable" BY <1>1 DEF Applying
<1>3. /\ call[p].id \in Ids \cup Sources \cup {None} /\ f \in Profiles /\ Its(p) \in Commands
      /\ Seen(p) \in LifeCycles /\ Seen(p) # Absent /\ Decided(p)
      /\ Seen(p).state \in Proven => HasManifest(f)
  BY <1>2, UnderWay
<1>4. /\ f \in current /\ stored[f] = Seen(p) /\ stored' = [stored EXCEPT ![f] = r]
      /\ UNCHANGED <<current, manifests, bound>>
  BY DEF Enable, SameProfile
<1>5. /\ r \in LifeCycles /\ r.state = "role_admitted" /\ r.seq = Seen(p).seq + 1 /\ r # Absent
      /\ Seen(p).seq \in Nat
  <2>1. call[p].id \in Ids \cup Sources \cup {None} /\ Seen(p) \in LifeCycles BY <1>3
  <2>2. {"role_admitted", "disabled"} \subseteq DOMAIN ProviderTransitions BY TransitionStates
  <2> QED BY <2>1, <2>2, MovedType
<1>6. Seen(p).state = "capabilities_probed" BY <1>2, <1>3 DEF Decided
<1>7. /\ route' \in [primary : Profiles, fallback : SUBSET Profiles, with : Profiles]
      /\ route'.with = f
  BY <1>2, <1>3, CommandParts DEF Enable, SetTo
<1>8. HasManifest(f) BY <1>3, <1>6 DEF Proven
<1> HIDE DEF f, r
<1>9. r.seq > stored[f].seq /\ stored[f].state # "disabled" /\ stored[f] # Absent
  BY <1>3, <1>4, <1>5, <1>6
<1>10. stored' = [stored EXCEPT ![f] = r] /\ UNCHANGED <<current, manifests, bound>> BY <1>4
<1>11. f \in Profiles /\ r \in LifeCycles /\ r # Absent BY <1>3, <1>5
<1>12. Inv' /\ ForwardStep
  BY <1>1, <1>7, <1>8, <1>9, <1>10, <1>11, WriteStep
<1>13. stored'[f] = r BY <1>10, <1>11 DEF Inv, RegistryKept, TypeOK
<1>14. RouteStep BY <1>4, <1>5, <1>7, <1>13 DEF RouteStep
<1> QED BY <1>12, <1>14 DEF Good

\* disable_provider.
LEMMA DisableStep ==
  ASSUME Inv, NEW p \in Procs, Disable(p)
  PROVE  Good
<1> DEFINE f == Its(p).profile
           r == Moved(Seen(p), "disabled", call[p].id)
<1>1. Applying(p, "disable") BY DEF Disable
<1>2. call[p].pc # "idle" /\ Its(p).kind = "disable" BY <1>1 DEF Applying
<1>3. /\ call[p].id \in Ids \cup Sources \cup {None} /\ f \in Profiles
      /\ Seen(p) \in LifeCycles /\ Seen(p) # Absent /\ Decided(p)
  BY <1>2, UnderWay
<1>4. /\ f \in current /\ stored[f] = Seen(p) /\ stored' = [stored EXCEPT ![f] = r]
      /\ UNCHANGED <<current, manifests, bound, route>>
  BY DEF Disable, SameProfile
<1>5. /\ r \in LifeCycles /\ r.state = "disabled" /\ r.seq = Seen(p).seq + 1 /\ r # Absent
      /\ Seen(p).seq \in Nat
  <2>1. call[p].id \in Ids \cup Sources \cup {None} /\ Seen(p) \in LifeCycles BY <1>3
  <2>2. {"role_admitted", "disabled"} \subseteq DOMAIN ProviderTransitions BY TransitionStates
  <2> QED BY <2>1, <2>2, MovedType
<1>6. Seen(p).state # "disabled" BY <1>2, <1>3 DEF Decided
<1> HIDE DEF f, r
<1>7. r.seq > stored[f].seq /\ stored[f].state # "disabled" /\ stored[f] # Absent
  BY <1>3, <1>4, <1>5, <1>6
<1>8. r.state \notin Proven BY <1>5 DEF Proven
<1>9. stored' = [stored EXCEPT ![f] = r] /\ UNCHANGED <<current, manifests, bound>> BY <1>4
<1>10. f \in Profiles /\ r \in LifeCycles /\ r # Absent BY <1>3, <1>5
<1>11. Inv' /\ ForwardStep BY <1>1, <1>4, <1>7, <1>8, <1>9, <1>10, WriteStep
<1>12. RouteStep BY <1>4 DEF RouteStep
<1> QED BY <1>11, <1>12 DEF Good

\* set_default_route: a route to a profile that was admitted and still is.
LEMMA SetDefaultRouteStep ==
  ASSUME Inv, NEW p \in Procs, SetDefaultRoute(p)
  PROVE  Good
<1> DEFINE f == Its(p).profile
<1>1. TypeOK /\ Applying(p, "route") BY DEF Inv, RegistryKept, SetDefaultRoute
<1>2. call[p].pc # "idle" /\ Its(p).kind = "route" BY <1>1 DEF Applying
<1>3. /\ call[p].id \in Ids /\ f \in Profiles /\ Its(p) \in Commands /\ Decided(p)
      /\ Its(p) = content[call[p].id]
  BY <1>2, UnderWay
<1>4. /\ f \in current /\ stored[f] = Seen(p) /\ route' = SetTo(p)
      /\ UNCHANGED <<stored, current, manifests, bound>>
  BY DEF SetDefaultRoute, SameProfile
<1>5. Its(p).primary = f /\ Seen(p).state = "role_admitted"
  BY <1>2, <1>3 DEF Inv, ContentOK, Decided
<1>6. /\ route' \in [primary : Profiles, fallback : SUBSET Profiles, with : Profiles]
      /\ route'.primary = f
  BY <1>2, <1>3, <1>4, <1>5, CommandParts DEF SetTo
<1> HIDE DEF f
<1>7. Grows BY <1>4 DEF Grows
<1>8. NewestIsCurrent' /\ ProvenBeforeAdmitted'
  BY <1>4 DEF Inv, RegistryKept, NewestIsCurrent, ProvenBeforeAdmitted
<1>9. /\ ledger' \in [Ids -> {"none", "started", "completed"}]
      /\ call' \in [Procs -> [pc : {"idle", "apply", "claim", "adapter", "compare", "complete"},
                           id : Ids \cup {None}, seen : LifeCycles, passed : BOOLEAN]]
      /\ \A i \in Ids : ledger[i] = "completed" => ledger'[i] = "completed"
      /\ ContentOK' /\ AdapterOnce' /\ AdapterKept'
      /\ \A q \in Procs : CallOK(q)'
  BY <1>1, <1>7, ApplyFrame
<1>10. TypeOK' BY <1>1, <1>4, <1>6, <1>9 DEF TypeOK, Applying
<1>11. EvidenceUsedOnce' /\ EvidenceKept' BY <1>4, <1>9, SameEvidence
<1>12. ForwardStep BY <1>4 DEF ForwardStep
<1>13. RouteStep BY <1>4, <1>5, <1>6 DEF RouteStep
<1> QED BY <1>8, <1>9, <1>10, <1>11, <1>12, <1>13, InvParts DEF Good

\* A manifest whose evidence was not used before.
LEMMA NewEvidence ==
  ASSUME Inv, NEW f \in Profiles, NEW e \in Ids \cup Sources, manifests' = manifests \cup {<<f, e>>},
         bound \subseteq bound', \A i \in Ids : ledger[i] = "completed" => ledger'[i] = "completed",
         e \in Ids => ledger[e] # "completed" /\ ledger'[e] = "completed",
         e \in Sources => e \notin bound /\ e \in bound'
  PROVE  /\ EvidenceUsedOnce' /\ EvidenceKept' /\ HasManifest(f)'
         /\ manifests' \subseteq Profiles \X (Ids \cup Sources \cup {None})
<1>1. EvidenceKept /\ EvidenceUsedOnce /\ TypeOK BY DEF Inv, RegistryKept
<1>2. <<f, e>>[1] = f /\ <<f, e>>[2] = e OBVIOUS
<1>3. \A m \in manifests : m[2] # e BY <1>1 DEF EvidenceKept
<1>4. EvidenceUsedOnce' BY <1>1, <1>2, <1>3 DEF EvidenceUsedOnce
<1>5. EvidenceKept' BY <1>1, <1>2 DEF EvidenceKept
<1>6. HasManifest(f)' BY <1>2 DEF HasManifest
<1>7. manifests' \subseteq Profiles \X (Ids \cup Sources \cup {None}) BY <1>1 DEF TypeOK
<1> QED BY <1>4, <1>5, <1>6, <1>7

\* A passed probe that is bound: one profile moves and its manifest is published.
LEMMA PassedBinding ==
  ASSUME Inv, NEW p \in Procs, NEW kind, Applying(p, kind),
         NEW f \in Profiles, NEW r \in LifeCycles, r # Absent, stored[f] # Absent,
         NEW s \in Sources, s \notin bound, bound' = bound \cup {s},
         stored' = [stored EXCEPT ![f] = r], manifests' = manifests \cup {<<f, s>>},
         UNCHANGED <<current, route>>,
         r.seq > stored[f].seq, stored[f].state # "disabled"
  PROVE  Inv' /\ ForwardStep
<1>1. TypeOK BY DEF Inv, RegistryKept
<1>2. \A i \in Ids : ledger[i] = "completed" => ledger'[i] = "completed"
  BY <1>1 DEF Applying, TypeOK
<1>3. s \in Ids \cup Sources /\ s \notin Ids BY SourcesAssumption
<1>4. /\ EvidenceUsedOnce' /\ EvidenceKept' /\ HasManifest(f)'
      /\ manifests' \subseteq Profiles \X (Ids \cup Sources \cup {None})
  BY <1>2, <1>3, NewEvidence
<1>5. /\ stored' \in [Profiles -> LifeCycles] /\ stored'[f] = r
      /\ \A g \in Profiles \ {f} : stored'[g] = stored[g]
      /\ Grows /\ NewestIsCurrent' /\ ProvenBeforeAdmitted'
  BY <1>4, OneWrite
<1>6. /\ ledger' \in [Ids -> {"none", "started", "completed"}]
      /\ call' \in [Procs -> [pc : {"idle", "apply", "claim", "adapter", "compare", "complete"},
                           id : Ids \cup {None}, seen : LifeCycles, passed : BOOLEAN]]
      /\ \A i \in Ids : ledger[i] = "completed" => ledger'[i] = "completed"
      /\ ContentOK' /\ AdapterOnce' /\ AdapterKept'
      /\ \A q \in Procs : CallOK(q)'
  BY <1>5, ApplyFrame
<1>7. TypeOK' BY <1>1, <1>4, <1>5, <1>6 DEF TypeOK, Applying
<1>8. ForwardStep BY <1>5 DEF ForwardStep, Forward
<1>9. Inv' BY <1>4, <1>5, <1>6, <1>7, InvParts
<1> QED BY <1>8, <1>9

\* A failed probe that is bound changes no profile.
LEMMA FailedBinding ==
  ASSUME Inv, NEW p \in Procs, NEW kind, Applying(p, kind),
         NEW s \in Sources, bound' = bound \cup {s},
         UNCHANGED <<stored, manifests, current, route>>
  PROVE  Inv' /\ ForwardStep
<1>1. TypeOK BY DEF Inv, RegistryKept
<1>2. Grows BY DEF Grows
<1>3. NewestIsCurrent' /\ ProvenBeforeAdmitted'
  BY DEF Inv, RegistryKept, NewestIsCurrent, ProvenBeforeAdmitted
<1>4. /\ ledger' \in [Ids -> {"none", "started", "completed"}]
      /\ call' \in [Procs -> [pc : {"idle", "apply", "claim", "adapter", "compare", "complete"},
                           id : Ids \cup {None}, seen : LifeCycles, passed : BOOLEAN]]
      /\ \A i \in Ids : ledger[i] = "completed" => ledger'[i] = "completed"
      /\ ContentOK' /\ AdapterOnce' /\ AdapterKept'
      /\ \A q \in Procs : CallOK(q)'
  BY <1>2, ApplyFrame
<1>5. TypeOK' BY <1>1, <1>4 DEF TypeOK, Applying
<1>6. EvidenceUsedOnce' /\ EvidenceKept' BY <1>4, SameEvidence
<1>7. ForwardStep BY DEF ForwardStep
<1>8. Inv' BY <1>3, <1>4, <1>5, <1>6, InvParts
<1> QED BY <1>7, <1>8

\* bind_provider_probe: a finished probe is bound once; a passed one proves the
\* capabilities of the profile it is bound to.
LEMMA BindProviderProbeStep ==
  ASSUME Inv, NEW p \in Procs, BindProviderProbe(p)
  PROVE  Good
<1> DEFINE f == Its(p).profile
           s == Its(p).source
           r == Probed(Seen(p), s)
<1>1. Applying(p, "bind") BY DEF BindProviderProbe
<1>2. call[p].pc # "idle" /\ Its(p).kind = "bind" BY <1>1 DEF Applying
<1>3. /\ f \in Profiles /\ Its(p) \in Commands /\ Seen(p) \in LifeCycles
      /\ Seen(p) # Absent /\ Decided(p)
  BY <1>2, UnderWay
<1>4. s \in Sources BY <1>2, <1>3, CommandParts
<1>5. /\ f \in current /\ stored[f] = Seen(p) /\ s \notin bound /\ bound' = bound \cup {s}
      /\ IF s \in PassedSources
         THEN stored' = [stored EXCEPT ![f] = r] /\ manifests' = manifests \cup {<<f, s>>}
         ELSE UNCHANGED <<stored, manifests>>
      /\ UNCHANGED <<current, route>>
  BY DEF BindProviderProbe, SameProfile, FreeSource
<1>6. /\ r \in LifeCycles /\ r.seq = Seen(p).seq + 3 /\ r # Absent /\ Seen(p).seq \in Nat
  BY <1>3, <1>4, ProbedType
<1>7. Seen(p).state = "secret_bound" BY <1>2, <1>3 DEF Decided
<1> HIDE DEF f, r, s
<1>8. r.seq > stored[f].seq /\ stored[f].state # "disabled" /\ stored[f] # Absent
  BY <1>3, <1>5, <1>6, <1>7
<1>9. Inv' /\ ForwardStep
  <2>1. f \in Profiles /\ r \in LifeCycles /\ r # Absent BY <1>3, <1>6
  <2>2. s \notin bound /\ bound' = bound \cup {s} /\ UNCHANGED <<current, route>> BY <1>5
  <2>3. CASE s \in PassedSources
    <3>1. stored' = [stored EXCEPT ![f] = r] /\ manifests' = manifests \cup {<<f, s>>}
      BY <1>5, <2>3
    <3> QED BY <1>1, <1>4, <1>8, <2>1, <2>2, <3>1, PassedBinding
  <2>4. CASE s \notin PassedSources
    <3>1. UNCHANGED <<stored, manifests, current, route>> BY <1>5, <2>4
    <3> QED BY <1>1, <1>4, <2>2, <3>1, FailedBinding
  <2> QED BY <2>3, <2>4
<1>10. RouteStep BY <1>5 DEF RouteStep
<1> QED BY <1>9, <1>10 DEF Good

-----------------------------------------------------------------------------
(* Probes and catalog syncs *)

\* Steps of a command that write no table of the registry.
LEMMA QuietRegistry ==
  ASSUME Inv, UNCHANGED <<stored, current, manifests, bound, catalog, route, overtaken>>,
         ledger' \in [Ids -> {"none", "started", "completed"}],
         \A i \in Ids : ledger[i] = "completed" => ledger'[i] = "completed",
         content' \in [Ids -> Commands \cup {NoCommand}], called' \in [Ids -> Nat],
         call' \in [Procs -> [pc : {"idle", "apply", "claim", "adapter", "compare", "complete"},
                           id : Ids \cup {None}, seen : LifeCycles, passed : BOOLEAN]],
         ContentOK', AdapterOnce', AdapterKept', \A q \in Procs : CallOK(q)'
  PROVE  Good
<1>1. TypeOK' BY DEF Inv, RegistryKept, TypeOK
<1>2. NewestIsCurrent' /\ ProvenBeforeAdmitted'
  BY DEF Inv, RegistryKept, NewestIsCurrent, ProvenBeforeAdmitted
<1>3. EvidenceUsedOnce' /\ EvidenceKept' BY SameEvidence
<1>4. ForwardStep /\ RouteStep BY DEF ForwardStep, RouteStep
<1>5. Inv' BY <1>1, <1>2, <1>3, InvParts
<1> QED BY <1>4, <1>5 DEF Good

\* A command under way takes its next step.
LEMMA CallGoesOn ==
  ASSUME Inv, NEW p \in Procs, call[p].pc # "idle", content' = content, Grows,
         NEW c \in [pc : {"idle", "apply", "claim", "adapter", "compare", "complete"},
                    id : Ids \cup {None}, seen : LifeCycles, passed : BOOLEAN],
         c.id = call[p].id, c.seen = call[p].seen, call' = [call EXCEPT ![p] = c]
  PROVE  /\ call' \in [Procs -> [pc : {"idle", "apply", "claim", "adapter", "compare", "complete"},
                           id : Ids \cup {None}, seen : LifeCycles, passed : BOOLEAN]]
         /\ call'[p] = c /\ Others(p) /\ ContentOK' /\ \A q \in Procs : CallOK(q)'
<1>1. TypeOK BY DEF Inv, RegistryKept
<1>2. /\ call' \in [Procs -> [pc : {"idle", "apply", "claim", "adapter", "compare", "complete"},
                           id : Ids \cup {None}, seen : LifeCycles, passed : BOOLEAN]]
      /\ call'[p] = c /\ Others(p)
  BY <1>1 DEF TypeOK, Others
<1>3. ContentOK' BY DEF Inv, ContentOK
<1>4. CallOK(p)'
  <2>1. CallOK(p) BY DEF Inv
  <2>2. Its(p)' = Its(p) /\ Seen(p)' = Seen(p) BY <1>2 DEF Its, Seen
  <2>3. Its(p).profile \in Profiles /\ call[p].id \in Ids BY UnderWay
  <2>4. Decided(p)' BY <2>1, <2>2 DEF CallOK, Decided
  <2>5. HasManifest(Its(p).profile) => HasManifest(Its(p).profile)'
    BY <2>2 DEF HasManifest, Grows
  <2>6. stored[Its(p).profile] # Absent => stored'[Its(p).profile] # Absent BY <2>3 DEF Grows
  <2> QED BY <1>2, <2>1, <2>2, <2>3, <2>4, <2>5, <2>6 DEF CallOK
<1>5. \A q \in Procs : CallOK(q)' BY <1>2, <1>4, CallsKept
<1> QED BY <1>2, <1>3, <1>5

\* The parts of a command under way.
LEMMA CallParts ==
  ASSUME Inv, NEW p \in Procs
  PROVE  call[p] \in [pc : {"idle", "apply", "claim", "adapter", "compare", "complete"},
                      id : Ids \cup {None}, seen : LifeCycles, passed : BOOLEAN]
  BY DEF Inv, RegistryKept, TypeOK

\* The request is claimed before the adapter is asked.
LEMMA ClaimStep ==
  ASSUME Inv, NEW p \in Procs, Claim(p)
  PROVE  Good
<1> DEFINE c == [call[p] EXCEPT !.pc = "adapter"]
<1>1. TypeOK BY DEF Inv, RegistryKept
<1>2. /\ call[p].pc # "idle" /\ ledger[call[p].id] = "none"
      /\ ledger' = [ledger EXCEPT ![call[p].id] = "started"]
      /\ UNCHANGED <<stored, current, manifests, bound, catalog, route, content, called, overtaken>>
  BY DEF Claim
<1>3. call[p].id \in Ids BY <1>2, UnderWay
<1>4. call' = [call EXCEPT ![p] = c] BY DEF Claim
<1>5. /\ c \in [pc : {"idle", "apply", "claim", "adapter", "compare", "complete"},
                id : Ids \cup {None}, seen : LifeCycles, passed : BOOLEAN]
      /\ c.id = call[p].id /\ c.seen = call[p].seen
  BY CallParts
<1> HIDE DEF c
<1>6. Grows BY <1>2 DEF Grows
<1>7. /\ call' \in [Procs -> [pc : {"idle", "apply", "claim", "adapter", "compare", "complete"},
                           id : Ids \cup {None}, seen : LifeCycles, passed : BOOLEAN]]
      /\ call'[p] = c /\ Others(p) /\ ContentOK' /\ \A q \in Procs : CallOK(q)'
  BY <1>2, <1>4, <1>5, <1>6, CallGoesOn
<1>8. /\ ledger' \in [Ids -> {"none", "started", "completed"}]
      /\ ledger'[call[p].id] = "started" /\ \A i \in Ids \ {call[p].id} : ledger'[i] = ledger[i]
  BY <1>1, <1>2, <1>3 DEF TypeOK
<1>9. AdapterOnce' BY <1>2 DEF Inv, RegistryKept, AdapterOnce
<1>10. AdapterKept'
  <2>1. AdapterKept /\ called \in [Ids -> Nat] BY <1>1 DEF Inv, TypeOK
  <2>2. \A i \in Ids : called'[i] > 0 => ledger'[i] # "none"
    BY <1>2, <1>8, <2>1 DEF AdapterKept
  <2>3. called[call[p].id] = 0 BY <1>2, <1>3, <2>1 DEF AdapterKept
  <2>4. ASSUME NEW q \in Procs \ {p}, call'[q].pc = "adapter"
        PROVE  /\ call'[q] = call[q] /\ ledger[call[q].id] # "none" /\ called[call[q].id] = 0
               /\ call[q].id \in Ids /\ call[q].id # call[p].id
    <3>1. call'[q] = call[q] BY <1>7 DEF Others
    <3>2. ledger[call[q].id] # "none" /\ called[call[q].id] = 0
      BY <2>1, <2>4, <3>1 DEF AdapterKept
    <3>3. call[q].id \in Ids BY <2>4, <3>1, UnderWay
    <3> QED BY <1>2, <3>1, <3>2, <3>3
  <2>5. \A q \in Procs : call'[q].pc = "adapter" =>
            ledger'[call'[q].id] # "none" /\ called'[call'[q].id] = 0
    BY <1>2, <1>3, <1>5, <1>7, <1>8, <2>3, <2>4
  <2>6. \A q, r \in Procs :
          q # r /\ call'[q].pc = "adapter" /\ call'[r].pc = "adapter" => call'[q].id # call'[r].id
    <3> SUFFICES ASSUME NEW q \in Procs, NEW r \in Procs, q # r, call'[q].pc = "adapter",
                        call'[r].pc = "adapter"
                 PROVE  call'[q].id # call'[r].id
      OBVIOUS
    <3>1. CASE q = p BY <1>5, <1>7, <2>4, <3>1
    <3>2. CASE r = p BY <1>5, <1>7, <2>4, <3>2
    <3>3. CASE q # p /\ r # p BY <2>1, <2>4, <3>3 DEF AdapterKept
    <3> QED BY <3>1, <3>2, <3>3
  <2> QED BY <2>2, <2>5, <2>6 DEF AdapterKept
<1>11. content' \in [Ids -> Commands \cup {NoCommand}] /\ called' \in [Ids -> Nat]
  BY <1>1, <1>2 DEF TypeOK
<1>12. \A i \in Ids : ledger[i] = "completed" => ledger'[i] = "completed" BY <1>2, <1>8
<1> QED BY <1>2, <1>7, <1>8, <1>9, <1>10, <1>11, <1>12, QuietRegistry

\* No command comes to the adapter.
LEMMA AdapterQuiet ==
  ASSUME Inv, NEW p \in Procs, Others(p), call'[p].pc # "adapter", called' = called,
         \A i \in Ids : ledger[i] # "none" => ledger'[i] # "none"
  PROVE  AdapterOnce' /\ AdapterKept'
<1>1. AdapterKept /\ AdapterOnce BY DEF Inv, RegistryKept
<1>2. ASSUME NEW q \in Procs, call'[q].pc = "adapter"
      PROVE  q # p /\ call'[q] = call[q] /\ call[q].id \in Ids
  <2>1. q # p /\ call'[q] = call[q] BY <1>2 DEF Others
  <2> QED BY <1>2, <2>1, UnderWay
<1>3. AdapterOnce' BY <1>1 DEF AdapterOnce
<1>4. \A i \in Ids : called'[i] > 0 => ledger'[i] # "none" BY <1>1 DEF AdapterKept
<1>5. \A q \in Procs : call'[q].pc = "adapter" =>
          ledger'[call'[q].id] # "none" /\ called'[call'[q].id] = 0
  BY <1>1, <1>2 DEF AdapterKept
<1>6. \A q, r \in Procs :
          q # r /\ call'[q].pc = "adapter" /\ call'[r].pc = "adapter" => call'[q].id # call'[r].id
  BY <1>1, <1>2 DEF AdapterKept
<1> QED BY <1>3, <1>4, <1>5, <1>6 DEF AdapterKept

\* The one command that claimed the request asks the adapter once.
LEMMA AskAdapterStep ==
  ASSUME Inv, NEW p \in Procs, AskAdapter(p)
  PROVE  Good
<1>1. TypeOK /\ AdapterKept /\ AdapterOnce BY DEF Inv, RegistryKept
<1>2. /\ call[p].pc = "adapter" /\ call[p].pc # "idle"
      /\ UNCHANGED <<stored, current, manifests, bound, catalog, route, ledger, content, overtaken>>
  BY DEF AskAdapter
<1>3. PICK asked \in BOOLEAN, passed \in BOOLEAN :
         /\ called' = IF asked THEN [called EXCEPT ![call[p].id] = @ + 1] ELSE called
         /\ call' = [call EXCEPT ![p].pc = "compare", ![p].passed = passed]
  BY DEF AskAdapter
<1>4. call[p].id \in Ids BY <1>2, UnderWay
<1> DEFINE c == [call[p] EXCEPT !.pc = "compare", !.passed = passed]
<1>5. /\ c \in [pc : {"idle", "apply", "claim", "adapter", "compare", "complete"},
                id : Ids \cup {None}, seen : LifeCycles, passed : BOOLEAN]
      /\ c.id = call[p].id /\ c.seen = call[p].seen /\ c.pc = "compare"
  BY CallParts
<1>6. call' = [call EXCEPT ![p] = c] BY <1>1, <1>3 DEF TypeOK
<1> HIDE DEF c
<1>7. Grows BY <1>2 DEF Grows
<1>8. /\ call' \in [Procs -> [pc : {"idle", "apply", "claim", "adapter", "compare", "complete"},
                           id : Ids \cup {None}, seen : LifeCycles, passed : BOOLEAN]]
      /\ call'[p] = c /\ Others(p) /\ ContentOK' /\ \A q \in Procs : CallOK(q)'
  BY <1>2, <1>5, <1>6, <1>7, CallGoesOn
<1>9. /\ called' \in [Ids -> Nat]
      /\ called'[call[p].id] <= 1 /\ \A i \in Ids \ {call[p].id} : called'[i] = called[i]
  <2>1. called[call[p].id] = 0 BY <1>1, <1>2 DEF AdapterKept
  <2> QED BY <1>1, <1>3, <1>4, <2>1 DEF TypeOK
<1>10. AdapterOnce' BY <1>1, <1>9 DEF AdapterOnce
<1>11. AdapterKept'
  <2>1. \A i \in Ids : called'[i] > 0 => ledger'[i] # "none"
    BY <1>1, <1>2, <1>9 DEF AdapterKept
  <2>2. ASSUME NEW q \in Procs, call'[q].pc = "adapter"
        PROVE  q # p /\ call'[q] = call[q] /\ call[q].id \in Ids /\ call[q].id # call[p].id
    <3>1. q # p /\ call'[q] = call[q] BY <1>5, <1>8, <2>2 DEF Others
    <3>2. call[q].id \in Ids BY <2>2, <3>1, UnderWay
    <3> QED BY <1>1, <1>2, <2>2, <3>1, <3>2 DEF AdapterKept
  <2>3. \A q \in Procs : call'[q].pc = "adapter" =>
            ledger'[call'[q].id] # "none" /\ called'[call'[q].id] = 0
    BY <1>1, <1>2, <1>9, <2>2 DEF AdapterKept
  <2>4. \A q, r \in Procs :
          q # r /\ call'[q].pc = "adapter" /\ call'[r].pc = "adapter" => call'[q].id # call'[r].id
    BY <1>1, <2>2 DEF AdapterKept
  <2> QED BY <2>1, <2>3, <2>4 DEF AdapterKept
<1>12. /\ content' \in [Ids -> Commands \cup {NoCommand}]
       /\ ledger' \in [Ids -> {"none", "started", "completed"}]
       /\ \A i \in Ids : ledger[i] = "completed" => ledger'[i] = "completed"
  BY <1>1, <1>2 DEF TypeOK
<1> QED BY <1>2, <1>8, <1>9, <1>10, <1>11, <1>12, QuietRegistry

\* The comparison of complete_probe and complete_catalog_sync.
LEMMA CompareStep ==
  ASSUME Inv, NEW p \in Procs, Compare(p)
  PROVE  Good
<1> DEFINE c == [call[p] EXCEPT !.pc = "complete"]
<1>1. TypeOK BY DEF Inv, RegistryKept
<1>2. /\ call[p].pc # "idle"
      /\ UNCHANGED <<stored, current, manifests, bound, catalog, route, ledger, content, called,
                     overtaken>>
  BY DEF Compare
<1>3. call' = [call EXCEPT ![p] = c] BY DEF Compare
<1>4. /\ c \in [pc : {"idle", "apply", "claim", "adapter", "compare", "complete"},
                id : Ids \cup {None}, seen : LifeCycles, passed : BOOLEAN]
      /\ c.id = call[p].id /\ c.seen = call[p].seen /\ c.pc # "adapter"
  BY CallParts
<1> HIDE DEF c
<1>5. Grows BY <1>2 DEF Grows
<1>6. /\ call' \in [Procs -> [pc : {"idle", "apply", "claim", "adapter", "compare", "complete"},
                           id : Ids \cup {None}, seen : LifeCycles, passed : BOOLEAN]]
      /\ call'[p] = c /\ Others(p) /\ ContentOK' /\ \A q \in Procs : CallOK(q)'
  BY <1>2, <1>3, <1>4, <1>5, CallGoesOn
<1>7. AdapterOnce' /\ AdapterKept' BY <1>2, <1>4, <1>6, AdapterQuiet
<1>8. /\ content' \in [Ids -> Commands \cup {NoCommand}] /\ called' \in [Ids -> Nat]
      /\ ledger' \in [Ids -> {"none", "started", "completed"}]
      /\ \A i \in Ids : ledger[i] = "completed" => ledger'[i] = "completed"
  BY <1>1, <1>2 DEF TypeOK
<1> QED BY <1>2, <1>6, <1>7, <1>8, QuietRegistry

\* A command that ends before it is complete.
LEMMA EndStep ==
  ASSUME Inv, NEW p \in Procs, End(p)
  PROVE  Good
<1>1. TypeOK BY DEF Inv, RegistryKept
<1>2. /\ call' = [call EXCEPT ![p] = Idle]
      /\ UNCHANGED <<stored, current, manifests, bound, catalog, route, ledger, content, called,
                     overtaken>>
  BY DEF End
<1>3. Idle \in [pc : {"idle", "apply", "claim", "adapter", "compare", "complete"},
                id : Ids \cup {None}, seen : LifeCycles, passed : BOOLEAN]
  BY AbsentType DEF Idle
<1>4. /\ call' \in [Procs -> [pc : {"idle", "apply", "claim", "adapter", "compare", "complete"},
                           id : Ids \cup {None}, seen : LifeCycles, passed : BOOLEAN]]
      /\ call'[p].pc = "idle" /\ Others(p)
  BY <1>1, <1>2, <1>3 DEF TypeOK, Others, Idle
<1>5. Grows /\ ContentOK' BY <1>2 DEF Grows, Inv, ContentOK
<1>6. CallOK(p)' BY <1>4 DEF CallOK
<1>7. \A q \in Procs : CallOK(q)' BY <1>2, <1>4, <1>5, <1>6, CallsKept
<1>8. AdapterOnce' /\ AdapterKept' BY <1>2, <1>4, AdapterQuiet
<1>9. /\ content' \in [Ids -> Commands \cup {NoCommand}] /\ called' \in [Ids -> Nat]
      /\ ledger' \in [Ids -> {"none", "started", "completed"}]
      /\ \A i \in Ids : ledger[i] = "completed" => ledger'[i] = "completed"
  BY <1>1, <1>2 DEF TypeOK
<1> QED BY <1>2, <1>4, <1>5, <1>7, <1>8, <1>9, QuietRegistry

\* A completion writes one profile as the command saw it, or moved forward from
\* there, with the manifest that it publishes.
LEMMA CompletionStep ==
  ASSUME Inv, NEW p \in Procs, NEW kind, Completing(p, kind),
         NEW f \in Profiles, NEW r \in LifeCycles, NEW saw \in LifeCycles,
         r # Absent, stored[f] # Absent, Its(p).profile = f, Seen(p) = saw,
         stored' = [stored EXCEPT ![f] = r], catalog' \in [Profiles -> Ids \cup {None}],
         r = saw \/ (r.seq > saw.seq /\ saw.state # "disabled"),
         \/ /\ manifests' = manifests
            /\ r.state \in Proven => HasManifest(f)
         \/ manifests' = manifests \cup {<<f, call[p].id>>}
  PROVE  Good
<1>1. TypeOK BY DEF Inv, RegistryKept
<1>2. /\ call[p].pc # "idle" /\ ledger[call[p].id] = "started"
      /\ ledger' = [ledger EXCEPT ![call[p].id] = "completed"]
      /\ call' = [call EXCEPT ![p] = Idle]
      /\ overtaken' = IF stored[f] = saw THEN overtaken ELSE overtaken \cup {f}
      /\ UNCHANGED <<current, bound, route, content, called>>
  BY DEF Completing
<1>3. call[p].id \in Ids BY <1>2, UnderWay
<1>4. /\ \A i \in Ids : ledger[i] = "completed" => ledger'[i] = "completed"
      /\ ledger'[call[p].id] = "completed"
  BY <1>1, <1>2, <1>3 DEF TypeOK
<1>5. /\ EvidenceUsedOnce' /\ EvidenceKept' /\ (r.state \in Proven => HasManifest(f)')
      /\ manifests' \subseteq Profiles \X (Ids \cup Sources \cup {None})
      /\ manifests \subseteq manifests'
  <2>1. CASE manifests' = manifests /\ (r.state \in Proven => HasManifest(f))
    <3>1. EvidenceUsedOnce' /\ EvidenceKept' BY <1>2, <1>4, <2>1, SameEvidence
    <3>2. r.state \in Proven => HasManifest(f)' BY <2>1 DEF HasManifest
    <3> QED BY <1>1, <2>1, <3>1, <3>2 DEF TypeOK
  <2>2. CASE manifests' = manifests \cup {<<f, call[p].id>>}
    <3>1. ledger[call[p].id] # "completed" /\ call[p].id \notin Sources /\ bound \subseteq bound'
      BY <1>2, <1>3, SourcesAssumption
    <3>2. call[p].id \in Ids \cup Sources BY <1>3
    <3>3. /\ EvidenceUsedOnce' /\ EvidenceKept' /\ HasManifest(f)'
          /\ manifests' \subseteq Profiles \X (Ids \cup Sources \cup {None})
      BY <1>4, <2>2, <3>1, <3>2, NewEvidence
    <3> QED BY <2>2, <3>3
  <2> QED BY <2>1, <2>2
<1>6. /\ stored' \in [Profiles -> LifeCycles] /\ stored'[f] = r
      /\ \A g \in Profiles \ {f} : stored'[g] = stored[g]
      /\ Grows /\ NewestIsCurrent' /\ ProvenBeforeAdmitted'
  BY <1>2, <1>5, OneWrite
<1>7. /\ ledger' \in [Ids -> {"none", "started", "completed"}]
      /\ call' \in [Procs -> [pc : {"idle", "apply", "claim", "adapter", "compare", "complete"},
                           id : Ids \cup {None}, seen : LifeCycles, passed : BOOLEAN]]
      /\ ContentOK' /\ AdapterOnce' /\ AdapterKept'
      /\ \A q \in Procs : CallOK(q)'
  BY <1>2, <1>6, FinishFrame
<1>8. overtaken' \subseteq Profiles BY <1>1, <1>2 DEF TypeOK
<1>9. TypeOK' BY <1>1, <1>2, <1>5, <1>6, <1>7, <1>8 DEF TypeOK
<1>10. Inv' BY <1>5, <1>6, <1>7, <1>9, InvParts
<1>11. ForwardStep
  <2> SUFFICES ASSUME NEW g \in Profiles, stored'[g] # stored[g], g \notin overtaken'
               PROVE  stored'[g].seq > stored[g].seq /\ stored[g].state # "disabled"
    BY DEF ForwardStep, Forward
  <2>1. g = f BY <1>6
  <2>2. stored[f] = saw BY <1>2, <2>1
  <2> QED BY <1>6, <2>1, <2>2
<1>12. RouteStep BY <1>2 DEF RouteStep
<1> QED BY <1>10, <1>11, <1>12 DEF Good

\* complete_probe.
LEMMA CompleteProbeStep ==
  ASSUME Inv, NEW p \in Procs, CompleteProbe(p)
  PROVE  Good
<1> DEFINE f == Its(p).profile
           r == ProbeResult(p)
<1>1. Completing(p, "probe") BY DEF CompleteProbe
<1>2. call[p].pc # "idle" /\ Its(p).kind = "probe" BY <1>1 DEF Completing
<1>3. /\ call[p].id \in Ids \cup Sources \cup {None} /\ f \in Profiles
      /\ Seen(p) \in LifeCycles /\ Seen(p) # Absent /\ Decided(p) /\ stored[f] # Absent
  BY <1>2, UnderWay
<1>4. Seen(p).state = "secret_bound" BY <1>2, <1>3 DEF Decided
<1>5. /\ stored' = [stored EXCEPT ![f] = r] /\ catalog' = catalog
      /\ manifests' = IF call[p].passed THEN manifests \cup {<<f, call[p].id>>} ELSE manifests
  BY DEF CompleteProbe
<1>6. call[p].passed => /\ r \in LifeCycles /\ r # Absent /\ r.seq = Seen(p).seq + 3
                        /\ Seen(p).seq \in Nat
  BY <1>3, ProbedType DEF ProbeResult
<1>7. ~ call[p].passed => r = Seen(p) BY DEF ProbeResult
<1>8. catalog' \in [Profiles -> Ids \cup {None}] BY <1>5 DEF Inv, RegistryKept, TypeOK
<1> HIDE DEF f, r
<1>9. CASE call[p].passed
  <2>1. r.seq > Seen(p).seq /\ Seen(p).state # "disabled" BY <1>4, <1>6, <1>9
  <2>2. manifests' = manifests \cup {<<f, call[p].id>>} BY <1>5, <1>9
  <2>3. r \in LifeCycles /\ r # Absent /\ Its(p).profile = f BY <1>6, <1>9 DEF f
  <2> QED BY <1>1, <1>3, <1>5, <1>8, <2>1, <2>2, <2>3, CompletionStep
<1>10. CASE ~ call[p].passed
  <2>1. r = Seen(p) /\ r.state \notin Proven BY <1>4, <1>7, <1>10 DEF Proven
  <2>2. manifests' = manifests /\ Its(p).profile = f BY <1>5, <1>10 DEF f
  <2>3. r \in LifeCycles /\ r # Absent BY <1>3, <2>1
  <2> QED BY <1>1, <1>3, <1>5, <1>8, <2>1, <2>2, <2>3, CompletionStep
<1> QED BY <1>9, <1>10

\* complete_catalog_sync.
LEMMA CompleteCatalogSyncStep ==
  ASSUME Inv, NEW p \in Procs, CompleteCatalogSync(p)
  PROVE  Good
<1> DEFINE f == Its(p).profile
           r == SyncResult(p)
<1>1. Completing(p, "sync") BY DEF CompleteCatalogSync
<1>2. call[p].pc # "idle" /\ Its(p).kind = "sync" BY <1>1 DEF Completing
<1>3. /\ call[p].id \in Ids /\ f \in Profiles
      /\ Seen(p) \in LifeCycles /\ Seen(p) # Absent /\ stored[f] # Absent
      /\ Seen(p).state \in Proven => HasManifest(f)
  BY <1>2, UnderWay
<1>4. /\ stored' = [stored EXCEPT ![f] = r] /\ manifests' = manifests
      /\ catalog' = IF call[p].passed THEN [catalog EXCEPT ![f] = call[p].id] ELSE catalog
  BY DEF CompleteCatalogSync
<1>5. catalog' \in [Profiles -> Ids \cup {None}] BY <1>3, <1>4 DEF Inv, RegistryKept, TypeOK
<1>6. \/ r = Seen(p)
      \/ /\ Seen(p).state = "connectivity_verified" /\ r \in LifeCycles /\ r # Absent
         /\ r.seq = Seen(p).seq + 1 /\ Seen(p).seq \in Nat /\ r.state = "catalog_discovered"
  <2>1. call[p].id \in Ids \cup Sources \cup {None} /\ Seen(p) \in LifeCycles BY <1>3
  <2>2. "catalog_discovered" \in DOMAIN ProviderTransitions BY TransitionStates
  <2> QED BY <2>1, <2>2, MovedType DEF SyncResult
<1>7. Its(p).profile = f OBVIOUS
<1> HIDE DEF f, r
<1>8. /\ r \in LifeCycles /\ r # Absent
      /\ r = Seen(p) \/ (r.seq > Seen(p).seq /\ Seen(p).state # "disabled")
      /\ r.state \in Proven => HasManifest(f)
  BY <1>3, <1>6 DEF Proven
<1> QED BY <1>1, <1>3, <1>4, <1>5, <1>7, <1>8, CompletionStep

-----------------------------------------------------------------------------
(* A command begins *)

\* What the service asks of the registry it read.
LEMMA AcceptedParts ==
  ASSUME Inv, NEW c \in Commands, Accepted(c)
  PROVE  /\ c.kind = "register" => Revision(c.profile) = 1
         /\ c.kind = "update" => Revision(c.profile) < MaxRevision
         /\ c.kind = "route" => c.profile = c.primary
         /\ c.kind \in {"probe", "bind"} => stored[c.profile].state = "secret_bound"
         /\ c.kind = "sync" => stored[c.profile].state \in Syncable
         /\ c.kind = "enable" => stored[c.profile].state = "capabilities_probed"
         /\ c.kind = "disable" => stored[c.profile].state \notin {"none", "disabled"}
         /\ c.kind = "route" => stored[c.profile].state = "role_admitted"
         /\ c.kind # "register" => c.profile \in current
<1>1. c.profile \in Profiles BY CommandParts
<1>2. CASE c.kind = "register" BY <1>2 DEF Accepted
<1>3. CASE c.kind = "update" BY <1>3 DEF Accepted
<1>4. CASE c.kind = "probe" BY <1>4 DEF Accepted
<1>5. CASE c.kind = "bind" BY <1>5 DEF Accepted
<1>6. CASE c.kind = "sync" BY <1>6 DEF Accepted
<1>7. CASE c.kind = "enable" BY <1>7, Moves DEF Accepted
<1>8. CASE c.kind = "disable" BY <1>8, Moves DEF Accepted
<1>9. CASE c.kind = "route"
  <2>1. c.profile = c.primary /\ AdmitModel(c.primary, None)
    BY <1>9 DEF Accepted, AdmitRoute
  <2>2. c.profile # None BY <1>1, NoneIsNoProfile
  <2> QED BY <1>9, <2>1, <2>2 DEF AdmitModel
<1> QED BY <1>2, <1>3, <1>4, <1>5, <1>6, <1>7, <1>8, <1>9, CommandParts

\* A command reads its profile and is accepted.
LEMMA BeginStep ==
  ASSUME Inv, NEW p \in Procs, NEW i \in Ids, Begin(p, i)
  PROVE  Good
<1>1. TypeOK BY DEF Inv, RegistryKept
<1>2. PICK c \in Commands :
         /\ content[i] \in {NoCommand, c} /\ Accepted(c)
         /\ content' = [content EXCEPT ![i] = c]
         /\ call' = [call EXCEPT ![p] =
               [Idle EXCEPT !.id = i, !.seen = stored[c.profile],
                            !.pc = IF c.kind \in {"probe", "sync"} THEN "claim" ELSE "apply"]]
  BY DEF Begin
<1> DEFINE k == [Idle EXCEPT !.id = i, !.seen = stored[c.profile],
                             !.pc = IF c.kind \in {"probe", "sync"} THEN "claim" ELSE "apply"]
<1>3. UNCHANGED <<stored, current, manifests, bound, catalog, route, ledger, called, overtaken>>
  BY DEF Begin
<1>4. c.profile \in Profiles /\ stored[c.profile] \in LifeCycles
  BY <1>1, CommandParts DEF TypeOK
<1>5. /\ k \in [pc : {"idle", "apply", "claim", "adapter", "compare", "complete"},
                id : Ids \cup {None}, seen : LifeCycles, passed : BOOLEAN]
      /\ k.id = i /\ k.seen = stored[c.profile] /\ k.pc \in {"claim", "apply"}
  BY <1>4 DEF Idle
<1>6. call' = [call EXCEPT ![p] = k] BY <1>2
<1> HIDE DEF k
<1>7. /\ call' \in [Procs -> [pc : {"idle", "apply", "claim", "adapter", "compare", "complete"},
                           id : Ids \cup {None}, seen : LifeCycles, passed : BOOLEAN]]
      /\ call'[p] = k /\ Others(p)
  BY <1>1, <1>5, <1>6 DEF TypeOK, Others
<1>8. /\ content' \in [Ids -> Commands \cup {NoCommand}] /\ content'[i] = c
      /\ \A j \in Ids \ {i} : content'[j] = content[j]
  BY <1>1, <1>2 DEF TypeOK
<1>9. NoCommand \notin Commands /\ NoCommand.kind = "none" BY CommandParts DEF NoCommand
<1>10. \A j \in Ids : content[j] \in Commands => content'[j] = content[j]
  BY <1>2, <1>8, <1>9
<1>11. ContentOK' BY <1>2, <1>8, AcceptedParts DEF Inv, ContentOK
<1>12. Grows BY <1>3 DEF Grows
<1>13. CallOK(p)'
  <2>1. Its(p)' = c /\ Seen(p)' = stored[c.profile] BY <1>5, <1>7, <1>8 DEF Its, Seen
  <2>2. Decided(p)' BY <1>2, <2>1, AcceptedParts DEF Decided
  <2>3. c.kind # "register" => stored[c.profile] # Absent
    BY <1>2, <1>4, AcceptedParts DEF Inv, RegistryKept, NewestIsCurrent
  <2>4. stored[c.profile].state \in Proven => HasManifest(c.profile)
    BY <1>4 DEF Inv, ProvenBeforeAdmitted, Proven, HasManifest
  <2>5. HasManifest(c.profile) => HasManifest(Its(p).profile)' BY <1>3, <2>1 DEF HasManifest
  <2> QED BY <1>3, <1>5, <1>7, <2>1, <2>2, <2>3, <2>4, <2>5 DEF CallOK
<1>14. ASSUME NEW q \in Procs PROVE CallOK(q)'
  <2>1. CASE q = p BY <1>13, <2>1
  <2>2. CASE q # p
    <3>1. call'[q] = call[q] BY <1>7, <2>2 DEF Others
    <3>2. call[q].pc # "idle" => content'[call[q].id] = content[call[q].id]
      BY <1>10, UnderWay
    <3> QED BY <1>12, <3>1, <3>2, CallStays
  <2> QED BY <2>1, <2>2
<1>15. AdapterOnce' /\ AdapterKept' BY <1>3, <1>5, <1>7, AdapterQuiet
<1>16. /\ called' \in [Ids -> Nat] /\ ledger' \in [Ids -> {"none", "started", "completed"}]
       /\ \A j \in Ids : ledger[j] = "completed" => ledger'[j] = "completed"
  BY <1>1, <1>3 DEF TypeOK
<1> QED BY <1>3, <1>7, <1>8, <1>11, <1>14, <1>15, <1>16, QuietRegistry

-----------------------------------------------------------------------------
(* The invariant holds *)

\* Nothing happens.
LEMMA StutterStep ==
  ASSUME Inv, UNCHANGED vars
  PROVE  Good
<1>1. TypeOK BY DEF Inv, RegistryKept
<1>2. /\ UNCHANGED <<stored, current, manifests, bound, catalog, route, ledger, content>>
      /\ UNCHANGED <<called, call, overtaken>>
  BY DEF vars
<1>3. ContentOK' /\ AdapterOnce' /\ AdapterKept' /\ Grows
  BY <1>2 DEF Inv, RegistryKept, ContentOK, AdapterOnce, AdapterKept, Grows
<1>4. \A q \in Procs : CallOK(q)' BY <1>2, <1>3, CallStays
<1> QED BY <1>1, <1>2, <1>3, <1>4, QuietRegistry DEF TypeOK

\* Every step keeps the invariant, moves life cycles forward and keeps the
\* route on an admitted profile.
LEMMA NextGood ==
  ASSUME Inv, [Next]_vars
  PROVE  Good
<1>1. CASE Next
  <2>1. PICK p \in Procs : (\E i \in Ids : Begin(p, i)) \/ Mutation(p) \/ Observation(p) \/ End(p)
    BY <1>1 DEF Next
  <2>2. CASE \E i \in Ids : Begin(p, i) BY <2>2, BeginStep
  <2>3. CASE Mutation(p)
    BY <2>3, RegisterStep, UpdateStep, EnableStep, DisableStep, SetDefaultRouteStep,
       BindProviderProbeStep DEF Mutation
  <2>4. CASE Observation(p)
    BY <2>4, ClaimStep, AskAdapterStep, CompareStep, CompleteProbeStep, CompleteCatalogSyncStep
       DEF Observation
  <2>5. CASE End(p) BY <2>5, EndStep
  <2> QED BY <2>1, <2>2, <2>3, <2>4, <2>5
<1>2. CASE UNCHANGED vars BY <1>2, StutterStep
<1> QED BY <1>1, <1>2

\* What earlier commands may have left of a profile.
LEMMA EarlierType ==
  ASSUME NEW n \in 0..3
  PROVE  /\ Earlier(n) \in LifeCycles
         /\ Earlier(n) = Absent <=> n = 0
         /\ Earlier(n).state \in Proven => n > 1
<1>1. None \in Ids \cup Sources \cup {None} OBVIOUS
<1>2. /\ Bound(None) \in LifeCycles /\ Bound(None).state = "secret_bound" /\ Bound(None) # Absent
  BY <1>1, BoundType
<1>3. Probed(Bound(None), None) \in LifeCycles /\ Probed(Bound(None), None) # Absent
  BY <1>1, <1>2, ProbedType
<1>4. "role_admitted" \in DOMAIN ProviderTransitions BY TransitionStates
<1>5. /\ Moved(Probed(Bound(None), None), "role_admitted", None) \in LifeCycles
      /\ Moved(Probed(Bound(None), None), "role_admitted", None) # Absent
  BY <1>1, <1>3, <1>4, MovedType
<1>6. CASE n = 0 BY <1>6, AbsentType DEF Earlier, Absent, Proven
<1>7. CASE n = 1 BY <1>2, <1>7 DEF Earlier, Proven
<1>8. CASE n = 2 BY <1>3, <1>8 DEF Earlier
<1>9. CASE n = 3 BY <1>5, <1>9 DEF Earlier
<1> QED BY <1>6, <1>7, <1>8, <1>9

\* The registry as earlier commands left it.
LEMMA InitInv ==
  ASSUME Init
  PROVE  Inv
<1>1. PICK at \in [Providers -> 0..3] :
          /\ stored = [f \in Profiles |->
                          IF Revision(f) = 1 THEN Earlier(at[Provider(f)]) ELSE Absent]
          /\ current = {f \in Profiles : Revision(f) = 1 /\ at[Provider(f)] > 0}
          /\ manifests = {<<f, None>> : f \in {g \in current : at[Provider(g)] > 1}}
  BY DEF Init
<1>2. /\ bound = {} /\ catalog = [f \in Profiles |-> None] /\ route = NoRoute
      /\ ledger = [i \in Ids |-> "none"] /\ content = [i \in Ids |-> NoCommand]
      /\ called = [i \in Ids |-> 0] /\ call = [p \in Procs |-> Idle] /\ overtaken = {}
  BY DEF Init
<1>3. \A f \in Profiles : at[Provider(f)] \in 0..3 /\ Revision(f) \in Nat /\ Revision(f) >= 1
  BY ProfilePairs
<1>4. \A f \in Profiles :
          /\ stored[f] \in LifeCycles
          /\ stored[f] # Absent <=> f \in current
          /\ f \in current => Revision(f) = 1
          /\ stored[f].state \in Proven => f \in current /\ at[Provider(f)] > 1
  <2> SUFFICES ASSUME NEW f \in Profiles
               PROVE  /\ stored[f] \in LifeCycles
                      /\ stored[f] # Absent <=> f \in current
                      /\ f \in current => Revision(f) = 1
                      /\ stored[f].state \in Proven => f \in current /\ at[Provider(f)] > 1
    OBVIOUS
  <2>1. CASE Revision(f) = 1
    <3>1. stored[f] = Earlier(at[Provider(f)]) BY <1>1, <2>1
    <3>2. f \in current <=> at[Provider(f)] > 0 BY <1>1, <2>1
    <3> QED BY <1>3, <2>1, <3>1, <3>2, EarlierType
  <2>2. CASE Revision(f) # 1
    <3>1. stored[f] = Absent /\ f \notin current BY <1>1, <2>2
    <3> QED BY <3>1, AbsentType DEF Absent, Proven
  <2> QED BY <2>1, <2>2
<1>5. \A m \in manifests : m[2] = None /\ m \in Profiles \X (Ids \cup Sources \cup {None})
  BY <1>1
<1>6. Idle \in [pc : {"idle", "apply", "claim", "adapter", "compare", "complete"},
                id : Ids \cup {None}, seen : LifeCycles, passed : BOOLEAN]
  BY AbsentType DEF Idle
<1>7. TypeOK
  <2>1. stored \in [Profiles -> LifeCycles] BY <1>1, <1>4
  <2>2. current \subseteq Profiles BY <1>1
  <2> QED BY <1>2, <1>5, <1>6, <2>1, <2>2 DEF TypeOK
<1>8. NewestIsCurrent
  <2>1. \A f, g \in Profiles : f \in current /\ Revision(g) > Revision(f) => stored[g] = Absent
    BY <1>3, <1>4
  <2> QED BY <1>4, <2>1 DEF NewestIsCurrent
<1>9. ProvenBeforeAdmitted
  <2> SUFFICES ASSUME NEW f \in Profiles, stored[f].state \in Proven
               PROVE  \E m \in manifests : m[1] = f
    BY DEF ProvenBeforeAdmitted, Proven
  <2>1. <<f, None>> \in manifests BY <1>1, <1>4
  <2>2. <<f, None>>[1] = f OBVIOUS
  <2> QED BY <2>1, <2>2
<1>10. EvidenceUsedOnce BY <1>5 DEF EvidenceUsedOnce
<1>11. EvidenceKept BY <1>5, SourcesAssumption DEF EvidenceKept
<1>12. AdapterOnce BY <1>2 DEF AdapterOnce
<1>13. AdapterKept BY <1>2 DEF AdapterKept, Idle
<1>14. ContentOK BY <1>2 DEF ContentOK, NoCommand
<1>15. \A p \in Procs : CallOK(p) BY <1>2 DEF CallOK, Idle
<1> QED BY <1>7, <1>8, <1>9, <1>10, <1>11, <1>12, <1>13, <1>14, <1>15 DEF Inv, RegistryKept

\* The invariant holds in every state of the registry.
THEOREM RegistryInvariant == Spec => []Inv
<1>1. Init => Inv BY InitInv
<1>2. Inv /\ [Next]_vars => Inv' BY NextGood DEF Good
<1> QED BY <1>1, <1>2, PTL DEF Spec

\* Whatever commands race, the current revision of a provider is its newest one
\* and the only one, evidence is used once and an adapter is asked once per request.
THEOREM RegistryIsKept == Spec => []RegistryKept
<1>1. Inv => RegistryKept BY DEF Inv
<1> QED BY <1>1, RegistryInvariant, PTL

\* No profile counts as probed or admitted without a manifest of its own, even
\* where a completion overwrites what it did not see.
THEOREM AdmissionIsProven == Spec => []ProvenBeforeAdmitted
<1>1. Inv => ProvenBeforeAdmitted BY DEF Inv
<1> QED BY <1>1, RegistryInvariant, PTL

\* enable_provider and set_default_route lead to a profile that is current and
\* admitted at the moment of the write.
THEOREM RoutesLeadToAdmitted == Spec => RouteIsAdmitted
<1>1. Inv /\ [Next]_vars => RouteStep BY NextGood DEF Good
<1>2. RouteStep =>
        (route' # route /\ route'.with = route'.primary =>
            /\ route'.primary \in current'
            /\ stored'[route'.primary].state = "role_admitted")
  BY DEF RouteStep
<1> QED BY <1>1, <1>2, RegistryInvariant, PTL DEF RouteIsAdmitted, Spec

\* The life cycle of a revision goes forward and never leaves disabled, except
\* where a completion compared the profile before the last change.
THEOREM LifeCyclesGoForward == Spec => LifeCycleForward
<1>1. Inv /\ [Next]_vars => ForwardStep BY NextGood DEF Good
<1>2. ForwardStep =>
        \A f \in Profiles :
            stored'[f] # stored[f] /\ f \notin overtaken' =>
                stored'[f].seq > stored[f].seq /\ stored[f].state # "disabled"
  BY DEF ForwardStep, Forward
<1> QED BY <1>1, <1>2, RegistryInvariant, PTL DEF LifeCycleForward, Spec
=============================================================================
