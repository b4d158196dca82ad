--------------------------- MODULE ProviderCenter ---------------------------
(***************************************************************************)
(* The registry of model providers (provider_center/service.py, store.py): *)
(* revisions of a provider's profile and their life cycle, the capability  *)
(* manifests that probes publish, the catalog of models, and the default   *)
(* route to a model.                                                       *)
(*                                                                         *)
(* A command reads the registry, decides, and writes in one transaction.   *)
(* Every transaction compares the profile with the one that was read, but  *)
(* not in the same way: the operations ledger's transactions begin with a  *)
(* write, so their comparison is inside; the completion of a probe or of a *)
(* catalog sync begins with the comparison, which SQLite's deferred        *)
(* transactions leave outside.                                             *)
(***************************************************************************)
EXTENDS Naturals, FiniteSets

CONSTANTS
    Procs,          \* commands under way at once
    Providers,      \* provider_id
    MaxRevision,    \* bound of the revisions of a profile
    Ids,            \* command and request identities: bounds the commands
    Sources,        \* finished probes of the probe ledger
    PassedSources,  \* the ones that passed
    None

\* Identities of commands and of finished probes are digests of different records.
ASSUME SourcesAssumption ==
    PassedSources \subseteq Sources /\ Ids \cap Sources = {} /\ None \notin Ids \cup Sources
ASSUME RevisionAssumption == MaxRevision \in Nat \ {0}

Profiles == Providers \X (1..MaxRevision)   \* a profile_digest stands for one revision
ASSUME NoneIsNoProfile == None \notin Profiles
Provider(f) == f[1]
Revision(f) == f[2]

VARIABLES
    stored,     \* provider_center_profiles: life cycle of each revision
    current,    \* revisions with is_current = 1
    manifests,  \* provider_center_manifests: <<profile, evidence>>
    bound,      \* provider_center_probe_bindings: the sources
    catalog,    \* provider_center_catalog_snapshots: the current one's sync
    route,      \* provider_center_routes, one engine and role
    ledger,     \* state of an identity: operations, probes and syncs
    content,    \* what an identity stands for
    called,     \* how often the adapter was called for an identity
    call,       \* the commands under way
    overtaken   \* history: profiles a completion wrote without seeing the last change

vars == <<stored, current, manifests, bound, catalog, route, ledger, content, called,
          call, overtaken>>

\* A profile's life cycle: state, lifecycle_sequence, lifecycle_evidence_digest.
Absent == [state |-> "none", seq |-> 0, by |-> None]
NoRoute == [primary |-> None, fallback |-> {}, with |-> None]
NoCommand == [kind |-> "none", profile |-> None, fallback |-> {}, primary |-> None, source |-> None]
Idle == [pc |-> "idle", id |-> None, seen |-> Absent, passed |-> FALSE]

\* _PROVIDER_TRANSITIONS, without degraded and revoked: no command of the
\* service leads to either.
ProviderTransitions ==
    [draft |-> {"secret_bound", "disabled"},
     secret_bound |-> {"connectivity_verified", "disabled"},
     connectivity_verified |-> {"catalog_discovered", "disabled"},
     catalog_discovered |-> {"capabilities_probed", "disabled"},
     capabilities_probed |-> {"role_admitted", "disabled"},
     role_admitted |-> {"disabled"},
     disabled |-> {"draft"}]

CanMove(r, target) ==
    r.state \in DOMAIN ProviderTransitions /\ target \in ProviderTransitions[r.state]

Moved(r, target, evidence) == [state |-> target, seq |-> r.seq + 1, by |-> evidence]

\* A new revision carries no trust forward: a draft whose references are bound.
Bound(evidence) ==
    Moved([state |-> "draft", seq |-> 1, by |-> None], "secret_bound", evidence)

\* What a passed probe proves, one transition after the other.
Probed(r, evidence) ==
    Moved(Moved(Moved(r, "connectivity_verified", evidence), "catalog_discovered", evidence),
          "capabilities_probed", evidence)

(***************************************************************************)
(* The registry as earlier commands left it: each provider absent or at    *)
(* its first revision, on its way or admitted.                             *)
(***************************************************************************)
Earlier(n) ==
    CASE n = 0 -> Absent
      [] n = 1 -> Bound(None)
      [] n = 2 -> Probed(Bound(None), None)
      [] n = 3 -> Moved(Probed(Bound(None), None), "role_admitted", None)

Init ==
    /\ \E at \in [Providers -> 0..3] :
          /\ stored = [f \in Profiles |->
                          IF Revision(f) = 1 THEN Earlier(at[Provider(f)]) ELSE Absent]
          /\ current = {f \in Profiles : Revision(f) = 1 /\ at[Provider(f)] > 0}
          /\ manifests = {<<f, None>> : f \in {g \in current : at[Provider(g)] > 1}}
    /\ bound = {}
    /\ catalog = [f \in Profiles |-> None]
    /\ route = NoRoute
    /\ ledger = [i \in Ids |-> "none"]
    /\ content = [i \in Ids |-> NoCommand]
    /\ called = [i \in Ids |-> 0]
    /\ call = [p \in Procs |-> Idle]
    /\ overtaken = {}

----------------------------------------------------------------------------
(***************************************************************************)
(* Route admission (_admit_model_reference, _admit_route).  The models of  *)
(* a profile and what a route requires of them are data: a manifest of the *)
(* profile is one that has it, and a fallback may be another model of the  *)
(* primary's profile.  `admitting` is the profile that the command is      *)
(* about to admit, or None.                                                *)
(***************************************************************************)
AdmitModel(f, admitting) ==
    /\ f \in current
    /\ stored[f].state = "role_admitted" \/ f = admitting
    /\ \E m \in manifests : m[1] = f

AdmitRoute(c, admitting) ==
    /\ AdmitModel(c.primary, admitting)
    /\ \A f \in c.fallback : AdmitModel(f, admitting)

(***************************************************************************)
(* The commands and what each asks of the registry it reads.  enable names *)
(* the profile to admit and a route, which need not be to that profile.    *)
(***************************************************************************)
Commands ==
    [kind : {"register", "update", "probe", "sync", "disable"}, profile : Profiles,
     primary : {None}, fallback : {{}}, source : {None}]
    \cup [kind : {"bind"}, profile : Profiles, primary : {None}, fallback : {{}},
          source : Sources]
    \cup [kind : {"enable", "route"}, profile : Profiles, primary : Profiles,
          fallback : {{}} \cup {{f} : f \in Profiles}, source : {None}]

Syncable == {"connectivity_verified", "catalog_discovered", "capabilities_probed", "role_admitted"}

Accepted(c) ==
    LET f == c.profile
    IN  CASE c.kind = "register" -> Revision(f) = 1
          [] c.kind = "update"   -> f \in current /\ Revision(f) < MaxRevision
          [] c.kind = "probe"    -> f \in current /\ stored[f].state = "secret_bound"
          [] c.kind = "bind"     -> f \in current /\ stored[f].state = "secret_bound"
          [] c.kind = "sync"     -> f \in current /\ stored[f].state \in Syncable
          [] c.kind = "enable"   -> /\ f \in current /\ CanMove(stored[f], "role_admitted")
                                    /\ AdmitRoute(c, f)
          [] c.kind = "disable"  -> f \in current /\ CanMove(stored[f], "disabled")
          [] c.kind = "route"    -> f = c.primary /\ AdmitRoute(c, None)

\* A command is read and decided; enable's two reads are one step (nothing is
\* compared with the second one later).  A command that is refused here, and
\* the replay of a completed one, change nothing and are left out.
Begin(p, i) ==
    /\ call[p].pc = "idle" /\ ledger[i] = "none"
    /\ \E c \in Commands :
          /\ content[i] \in {NoCommand, c} /\ Accepted(c)
          /\ content' = [content EXCEPT ![i] = c]
          /\ call' = [call EXCEPT ![p] =
                 [Idle EXCEPT !.id = i, !.seen = stored[c.profile],
                              !.pc = IF c.kind \in {"probe", "sync"} THEN "claim" ELSE "apply"]]
    /\ UNCHANGED <<stored, current, manifests, bound, catalog, route, ledger, called, overtaken>>

\* A command is refused, loses a race or its process dies.
End(p) ==
    /\ call[p].pc # "idle" /\ call' = [call EXCEPT ![p] = Idle]
    /\ UNCHANGED <<stored, current, manifests, bound, catalog, route, ledger, content, called,
                   overtaken>>

----------------------------------------------------------------------------
(***************************************************************************)
(* apply_mutation: one transaction that records the identity, compares the *)
(* profile, writes, and completes the identity.                            *)
(***************************************************************************)
Its(p) == content[call[p].id]
Seen(p) == call[p].seen

\* Mutant: the transaction does not compare the profile with the one read.
SameProfileUnchecked(p) == TRUE

\* The profile is current and as it was read.
SameProfile(p) ==
    Its(p).profile \in current /\ stored[Its(p).profile] = Seen(p)

Applying(p, kind) ==
    /\ call[p].pc = "apply" /\ Its(p).kind = kind
    /\ ledger[call[p].id] = "none"
    /\ ledger' = [ledger EXCEPT ![call[p].id] = "completed"]
    /\ call' = [call EXCEPT ![p] = Idle]
    /\ UNCHANGED <<content, called, catalog, overtaken>>

Register(p) ==
    LET f == Its(p).profile
    IN  /\ Applying(p, "register")
        /\ \A g \in Profiles : Provider(g) = Provider(f) => stored[g] = Absent
        /\ stored' = [stored EXCEPT ![f] = Bound(call[p].id)]
        /\ current' = current \cup {f}
        /\ UNCHANGED <<manifests, bound, route>>

Update(p) ==
    LET f == Its(p).profile
        g == <<Provider(f), Revision(f) + 1>>
    IN  /\ Applying(p, "update") /\ SameProfile(p) /\ stored[g] = Absent
        /\ stored' = [stored EXCEPT ![g] = Bound(call[p].id)]
        /\ current' = {h \in current : Provider(h) # Provider(f)} \cup {g}
        /\ UNCHANGED <<manifests, bound, route>>

SetTo(p) == [primary |-> Its(p).primary, fallback |-> Its(p).fallback, with |-> Its(p).profile]

Enable(p) ==
    /\ Applying(p, "enable") /\ SameProfile(p)
    /\ stored' = [stored EXCEPT ![Its(p).profile] = Moved(Seen(p), "role_admitted", call[p].id)]
    /\ route' = SetTo(p)
    /\ UNCHANGED <<current, manifests, bound>>

Disable(p) ==
    /\ Applying(p, "disable") /\ SameProfile(p)
    /\ stored' = [stored EXCEPT ![Its(p).profile] = Moved(Seen(p), "disabled", call[p].id)]
    /\ UNCHANGED <<current, manifests, bound, route>>

SetDefaultRoute(p) ==
    /\ Applying(p, "route") /\ SameProfile(p)
    /\ route' = SetTo(p)
    /\ UNCHANGED <<stored, current, manifests, bound>>

\* source_plan_id is a unique key of the bindings.
FreeSource(s) == s \notin bound

BindProviderProbe(p) ==
    LET f == Its(p).profile
        s == Its(p).source
    IN  /\ Applying(p, "bind") /\ SameProfile(p) /\ FreeSource(s)
        /\ bound' = bound \cup {s}
        /\ IF s \in PassedSources
           THEN /\ stored' = [stored EXCEPT ![f] = Probed(Seen(p), s)]
                /\ manifests' = manifests \cup {<<f, s>>}
           ELSE UNCHANGED <<stored, manifests>>
        /\ UNCHANGED <<current, route>>

----------------------------------------------------------------------------
(***************************************************************************)
(* probe and sync_model_catalog: claim the identity, ask the adapter,      *)
(* compare the profile, write.  A claim whose command ends before it is    *)
(* complete stays started: nothing in the code recovers it.                *)
(***************************************************************************)
\* Mutant: a started identity is claimed again.
ClaimAgain(p) ==
    /\ call[p].pc = "claim" /\ ledger[call[p].id] # "completed"
    /\ ledger' = [ledger EXCEPT ![call[p].id] = "started"]
    /\ call' = [call EXCEPT ![p].pc = "adapter"]
    /\ UNCHANGED <<stored, current, manifests, bound, catalog, route, content, called, overtaken>>

Claim(p) ==
    /\ call[p].pc = "claim" /\ ledger[call[p].id] = "none"
    /\ ledger' = [ledger EXCEPT ![call[p].id] = "started"]
    /\ call' = [call EXCEPT ![p].pc = "adapter"]
    /\ UNCHANGED <<stored, current, manifests, bound, catalog, route, content, called, overtaken>>

\* The adapter answers; what is late, unclean or incomplete counts as failed,
\* and past the deadline the adapter is not asked.
AskAdapter(p) ==
    /\ call[p].pc = "adapter"
    /\ \E asked, passed \in BOOLEAN :
          /\ passed => asked
          /\ called' = IF asked THEN [called EXCEPT ![call[p].id] = @ + 1] ELSE called
          /\ call' = [call EXCEPT ![p].pc = "compare", ![p].passed = passed]
    /\ UNCHANGED <<stored, current, manifests, bound, catalog, route, ledger, content, overtaken>>

\* complete_probe and complete_catalog_sync read the profile before their first
\* write, so another command can write in between.
Compare(p) ==
    /\ call[p].pc = "compare" /\ SameProfile(p)
    /\ call' = [call EXCEPT ![p].pc = "complete"]
    /\ UNCHANGED <<stored, current, manifests, bound, catalog, route, ledger, content, called,
                   overtaken>>

Completing(p, kind) ==
    /\ call[p].pc = "complete" /\ Its(p).kind = kind
    /\ ledger[call[p].id] = "started"
    /\ ledger' = [ledger EXCEPT ![call[p].id] = "completed"]
    /\ call' = [call EXCEPT ![p] = Idle]
    /\ overtaken' = IF stored[Its(p).profile] = Seen(p) THEN overtaken
                    ELSE overtaken \cup {Its(p).profile}
    /\ UNCHANGED <<current, bound, route, content, called>>

\* Mutant: a failed probe moves the profile on as well.
ProbeResultAlways(p) == Probed(Seen(p), call[p].id)

ProbeResult(p) == IF call[p].passed THEN Probed(Seen(p), call[p].id) ELSE Seen(p)

\* The profile is written whether it changed or not, and the update does not
\* ask whether it is still current.
CompleteProbe(p) ==
    LET f == Its(p).profile
    IN  /\ Completing(p, "probe")
        /\ manifests' = IF call[p].passed THEN manifests \cup {<<f, call[p].id>>} ELSE manifests
        /\ stored' = [stored EXCEPT ![f] = ProbeResult(p)]
        /\ UNCHANGED catalog

\* Of the transitions, only the one from connectivity_verified belongs to a
\* sync; no command of the service leaves a profile there.
SyncResult(p) ==
    IF call[p].passed /\ Seen(p).state = "connectivity_verified"
    THEN Moved(Seen(p), "catalog_discovered", call[p].id) ELSE Seen(p)

CompleteCatalogSync(p) ==
    LET f == Its(p).profile
    IN  /\ Completing(p, "sync") /\ f \in current
        /\ catalog' = IF call[p].passed THEN [catalog EXCEPT ![f] = call[p].id] ELSE catalog
        /\ stored' = [stored EXCEPT ![f] = SyncResult(p)]
        /\ UNCHANGED manifests

----------------------------------------------------------------------------
Mutation(p) ==
    \/ Register(p) \/ Update(p) \/ Enable(p) \/ Disable(p) \/ SetDefaultRoute(p)
    \/ BindProviderProbe(p)

Observation(p) ==
    \/ Claim(p) \/ AskAdapter(p) \/ Compare(p) \/ CompleteProbe(p) \/ CompleteCatalogSync(p)

Next ==
    \E p \in Procs : (\E i \in Ids : Begin(p, i)) \/ Mutation(p) \/ Observation(p) \/ End(p)

Spec == Init /\ [][Next]_vars

----------------------------------------------------------------------------
(***************************************************************************)
(* Properties.                                                             *)
(***************************************************************************)
LifeCycles == [state : {"none"} \cup DOMAIN ProviderTransitions, seq : Nat,
               by : Ids \cup Sources \cup {None}]

\* Types of the registry's tables and of the commands under way.
TypeOK ==
    /\ stored \in [Profiles -> LifeCycles]
    /\ current \subseteq Profiles
    /\ manifests \subseteq Profiles \X (Ids \cup Sources \cup {None})
    /\ bound \subseteq Sources
    /\ catalog \in [Profiles -> Ids \cup {None}]
    /\ route = NoRoute \/ route \in [primary : Profiles, fallback : SUBSET Profiles, with : Profiles]
    /\ ledger \in [Ids -> {"none", "started", "completed"}]
    /\ content \in [Ids -> Commands \cup {NoCommand}]
    /\ called \in [Ids -> Nat]
    /\ call \in [Procs -> [pc : {"idle", "apply", "claim", "adapter", "compare", "complete"},
                           id : Ids \cup {None}, seen : LifeCycles, passed : BOOLEAN]]
    /\ overtaken \subseteq Profiles

\* Whatever commands race, the current revision of a provider is its newest
\* one and the only one.
NewestIsCurrent ==
    \A f \in Profiles :
        f \in current <=> /\ stored[f] # Absent
                          /\ \A g \in Profiles :
                                Provider(g) = Provider(f) /\ Revision(g) > Revision(f) =>
                                    stored[g] = Absent

\* Even where a completion overwrites what it did not see, a profile counts as
\* probed or admitted only with a manifest that a passed probe of this very
\* revision published.
ProvenBeforeAdmitted ==
    \A f \in Profiles :
        stored[f].state \in {"capabilities_probed", "role_admitted"} =>
            \E m \in manifests : m[1] = f

\* One piece of evidence proves the capabilities of one profile.
EvidenceUsedOnce ==
    \A m, n \in manifests : m[2] = n[2] /\ m[2] # None => m = n

\* A probe or sync asks its adapter at most once, whoever repeats the request.
AdapterOnce == \A i \in Ids : called[i] <= 1

\* A route set with the profile it leads to leads to an admitted, current one:
\* no disable or update slips in between the validation and the write.
RouteIsAdmitted ==
    [][ route' # route /\ route'.with = route'.primary =>
            /\ route'.primary \in current'
            /\ stored'[route'.primary].state = "role_admitted" ]_vars

\* A revision's life cycle never goes back and a disabled one stays disabled,
\* except where a completion compared the profile before the last change.
LifeCycleForward ==
    [][ \A f \in Profiles :
            stored'[f] # stored[f] /\ f \notin overtaken' =>
                stored'[f].seq > stored[f].seq /\ stored[f].state # "disabled" ]_vars

\* The registry's keys hold across all commands: one current revision per
\* provider, the newest; one use per evidence; one adapter call per request.
RegistryKept == TypeOK /\ NewestIsCurrent /\ EvidenceUsedOnce /\ AdapterOnce
=============================================================================
