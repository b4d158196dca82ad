--------------------------- MODULE ReconServices ----------------------------
(***************************************************************************)
(* The Red Team services that turn what a flow observed into records:      *)
(* surface inventory and drift, typed API discovery and its promotion to   *)
(* seeds, asset discovery, test identities and what is done with them,     *)
(* materialized evidence, and attack reports. A service is its ledger (the *)
(* store class), the ledgers its plan is bound to (the plan class), the    *)
(* parts its programs share, and its programs; parts keep the names of the *)
(* methods they stand for.                                                 *)
(***************************************************************************)
EXTENDS ServiceShape

\* What these services promise beside what every ledger does: an outcome on
\* records finished before, and never on a fact withdrawn before the attempt.
Firm  == {"upstream"}
Fresh == Firm \cup {"fresh"}

(***************************************************************************)
(* Surface inventory. The reduction is pure and done before the claim; a   *)
(* replay compares it with the stored one. The flow's latest checkpoint is *)
(* what may move on.                                                       *)
(***************************************************************************)
SurfaceLedger      == Recoverable
SurfaceReads       == {"flow"}
SurfaceFlowBinding == <<"bind", "load", "current">>
SurfaceReduce      == SurfaceFlowBinding \o <<"derive">>
SurfacePrepare     == SurfaceFlowBinding
SurfaceFinish      == <<"current", "finish">>
SurfaceExecute     == SurfaceReduce \o <<"claim">> \o SurfaceFinish
SurfaceRecover     == SurfaceReduce \o <<"recover">> \o SurfaceFinish
Surface == Service(SurfaceLedger, SurfacePrepare, SurfaceExecute, SurfaceRecover, Fresh)

\* Drift compares two finished inventories; nothing it reads can change.
DriftLedger  == Recoverable
DriftReads   == {"surface"}
DriftLoad    == <<"load">>
DriftCompare == <<"bind">> \o DriftLoad \o <<"derive">>
DriftPrepare == <<"bind">> \o DriftLoad
DriftFinish  == <<"finish">>
DriftExecute == DriftCompare \o <<"claim">> \o DriftFinish
DriftRecover == DriftCompare \o <<"recover">> \o DriftFinish
Drift == Service(DriftLedger, DriftPrepare, DriftExecute, DriftRecover, Firm)

(***************************************************************************)
(* OpenAPI and GraphQL documents observed by an endpoint recon run.        *)
(***************************************************************************)
OpenApiLedger  == Recoverable
OpenApiReads   == {"endpoint_recon", "flow"}
OpenApiSource  == <<"load", "current">>
OpenApiObserve == OpenApiSource \o <<"derive">>
OpenApiPrepare == <<"bind">> \o OpenApiSource
OpenApiFinish  == <<"current", "finish">>
OpenApiExecute == <<"bind">> \o OpenApiObserve \o <<"claim">> \o OpenApiFinish
OpenApiRecover == <<"bind">> \o OpenApiObserve \o <<"recover">> \o OpenApiFinish
OpenApi == Service(OpenApiLedger, OpenApiPrepare, OpenApiExecute, OpenApiRecover, Fresh)

GraphQlLedger  == Recoverable
GraphQlReads   == {"endpoint_recon", "flow"}
GraphQlSource  == <<"load", "current">>
GraphQlObserve == GraphQlSource \o <<"derive">>
GraphQlPrepare == <<"bind">> \o GraphQlSource
GraphQlFinish  == <<"current", "finish">>
GraphQlExecute == <<"bind">> \o GraphQlObserve \o <<"claim">> \o GraphQlFinish
GraphQlRecover == <<"bind">> \o GraphQlObserve \o <<"recover">> \o GraphQlFinish
GraphQl == Service(GraphQlLedger, GraphQlPrepare, GraphQlExecute, GraphQlRecover, Fresh)

\* Promotion writes the new seed set in the transaction that ends its row, so
\* the seed set is part of the outcome and not a step of its own.
PromotionLedger          == Recoverable
PromotionReads           == {"openapi", "flow"}
PromotionSource          == <<"load", "current">>
PromotionExecutionInputs == <<"bind">> \o PromotionSource \o <<"derive">>
PromotionPrepare         == <<"bind">> \o PromotionSource
PromotionFinish          == <<"current", "finish">>
PromotionExecute         == PromotionExecutionInputs \o <<"claim">> \o PromotionFinish
PromotionRecover         == PromotionExecutionInputs \o <<"recover">> \o PromotionFinish
Promotion == Service(PromotionLedger, PromotionPrepare, PromotionExecute, PromotionRecover, Fresh)

(***************************************************************************)
(* Asset discovery keeps the batch of every query it made: an attempt that *)
(* takes over uses the batches it finds and asks only for the others.      *)
(***************************************************************************)
Queries == 2    \* queries of a plan in this model

DiscoveryLedger  == Recoverable
DiscoveryReads   == {}
DiscoveryPrepare == <<"bind">>
DiscoveryDecide  == <<"derive">>
DiscoveryRun     == Repeat(Queries, <<"effect", "save">>) \o DiscoveryDecide \o <<"finish">>
DiscoveryExecute == <<"bind", "claim">> \o DiscoveryRun
DiscoveryRecover == <<"bind", "recover">> \o DiscoveryRun
Discovery == Service(DiscoveryLedger, DiscoveryPrepare, DiscoveryExecute, DiscoveryRecover, {})

(***************************************************************************)
(* Test identities. An admission, and everything done under one, holds     *)
(* only while the identity's record is active: revoke withdraws it.        *)
(***************************************************************************)
AdmissionLedger  == Recoverable
AdmissionReads   == {"identity"}
AdmissionRecord  == <<"current">>
AdmissionPrepare == <<"bind">> \o AdmissionRecord
AdmissionFinish  == <<"current", "current", "finish">>
AdmissionExecute == <<"bind">> \o AdmissionRecord \o <<"claim">> \o AdmissionFinish
AdmissionRecover == <<"bind">> \o AdmissionRecord \o <<"recover">> \o AdmissionFinish
Admission == Service(AdmissionLedger, AdmissionPrepare, AdmissionExecute, AdmissionRecover,
                     {"fresh"})

\* A credential session leases the credential and opens the session (one
\* effect: both are closed in the finally clauses whatever happens), between
\* two checks that the admission is still active.
SessionLedger          == Recoverable
SessionReads           == {"admission", "identity"}
SessionActiveAdmission == <<"load", "current">>
SessionBinding         == <<"bind">> \o SessionActiveAdmission
SessionPrepare         == SessionBinding
SessionFinish          == <<"current", "effect", "current", "finish">>
SessionExecute         == SessionBinding \o <<"claim">> \o SessionFinish
SessionRecover         == SessionBinding \o <<"recover">> \o SessionFinish
Session == Service(SessionLedger, SessionPrepare, SessionExecute, SessionRecover, Fresh)

RoleLedger  == Recoverable
RoleReads   == {"credential_session", "admission", "identity"}
RoleSession == <<"load", "current">>
RolePrepare == <<"bind">> \o RoleSession
RoleFinish  == <<"derive", "current", "finish">>
RoleExecute == <<"bind">> \o RoleSession \o <<"claim">> \o RoleFinish
RoleRecover == <<"bind">> \o RoleSession \o <<"recover">> \o RoleFinish
Role == Service(RoleLedger, RolePrepare, RoleExecute, RoleRecover, Fresh)

\* The plan is prepared before the session runs, so prepare does not load it.
BusinessLedger  == Recoverable
BusinessReads   == {"credential_session", "admission", "identity"}
BusinessBinding == <<"bind", "load", "current">>
BusinessPrepare == <<"bind", "current">>
BusinessFinish  == <<"derive", "current", "finish">>
BusinessExecute == BusinessBinding \o <<"claim">> \o BusinessFinish
BusinessRecover == BusinessBinding \o <<"recover">> \o BusinessFinish
Business == Service(BusinessLedger, BusinessPrepare, BusinessExecute, BusinessRecover, Fresh)

(***************************************************************************)
(* Evidence: assertions materialized from a recon observation, checked     *)
(* against a requirement, validated by replay, and reviewed. "load" stands *)
(* for the upstream outcome and for the evidence it refers to.             *)
(***************************************************************************)
MaterializationLedger      == Recoverable
MaterializationReads       == {"endpoint_recon", "flow"}
MaterializationSource      == <<"load", "current">>
MaterializationMaterialize == MaterializationSource \o <<"derive">>
MaterializationPrepare     == <<"bind">> \o MaterializationSource
MaterializationFinish      == <<"current", "finish">>
MaterializationExecute     == <<"bind">> \o MaterializationMaterialize \o <<"claim">>
                              \o MaterializationFinish
MaterializationRecover     == <<"bind">> \o MaterializationMaterialize \o <<"recover">>
                              \o MaterializationFinish
Materialization == Service(MaterializationLedger, MaterializationPrepare,
                           MaterializationExecute, MaterializationRecover, Fresh)

AssessmentLedger     == Recoverable
AssessmentReads      == {"evidence"}
AssessmentAssertions == <<"load">>
AssessmentAssess     == AssessmentAssertions \o <<"derive">>
AssessmentPrepare    == <<"bind">> \o AssessmentAssertions
AssessmentFinish     == <<"finish">>
AssessmentExecute    == <<"bind">> \o AssessmentAssess \o <<"claim">> \o AssessmentFinish
AssessmentRecover    == <<"bind">> \o AssessmentAssess \o <<"recover">> \o AssessmentFinish
Assessment == Service(AssessmentLedger, AssessmentPrepare, AssessmentExecute,
                      AssessmentRecover, Firm)

ReplayedLedger   == Recoverable
ReplayedReads    == {"materialization"}
ReplayedSources  == <<"load">>
ReplayedValidate == ReplayedSources \o <<"derive">>
ReplayedPrepare  == <<"bind">> \o ReplayedSources
ReplayedFinish   == <<"finish">>
ReplayedExecute  == <<"bind">> \o ReplayedValidate \o <<"claim">> \o ReplayedFinish
ReplayedRecover  == <<"bind">> \o ReplayedValidate \o <<"recover">> \o ReplayedFinish
Replayed == Service(ReplayedLedger, ReplayedPrepare, ReplayedExecute, ReplayedRecover, Firm)

CounterLedger      == Recoverable
CounterReads       == {"replay_validation"}
CounterSource      == <<"load">>
CounterMaterialize == CounterSource \o <<"derive">>
CounterPrepare     == <<"bind">> \o CounterSource
CounterFinish      == <<"finish">>
CounterExecute     == <<"bind">> \o CounterMaterialize \o <<"claim">> \o CounterFinish
CounterRecover     == <<"bind">> \o CounterMaterialize \o <<"recover">> \o CounterFinish
Counter == Service(CounterLedger, CounterPrepare, CounterExecute, CounterRecover, Firm)

(***************************************************************************)
(* Attack reports. A call after the plan's deadline still takes the row,   *)
(* to end it as timed out; in time the report is written to the artefact   *)
(* store before the row refers to it. Recovery is a flag of execute and    *)
(* the store's recover.                                                    *)
(***************************************************************************)
AttackReportLedger   == Closing({})
AttackReportReads    == {"attack_chain"}
AttackReportSource   == <<"load">>
AttackReportPrepare  == <<"bind">> \o AttackReportSource
AttackReportPut      == <<"publish">>
AttackReportTerminal == <<"expire">>
AttackReportExecute  == AttackReportSource \o <<"claim">> \o AttackReportTerminal
                        \o <<"derive">> \o AttackReportPut \o <<"finish">>
AttackReportRecover  == AttackReportSource \o <<"recover">> \o AttackReportTerminal
                        \o <<"derive">> \o AttackReportPut \o <<"finish">>
AttackReport == Service(AttackReportLedger, AttackReportPrepare, AttackReportExecute,
                        AttackReportRecover, Firm \cup {"sealed"})

ReconServiceSet ==
    {Surface, Drift, OpenApi, GraphQl, Promotion, Discovery, Admission, Session, Role,
     Business, Materialization, Assessment, Replayed, Counter, AttackReport}

\* The ledger each service keeps, and the ledgers its plans are bound to.
ReconProvenance ==
    {<<"surface", SurfaceReads>>, <<"drift", DriftReads>>, <<"openapi", OpenApiReads>>,
     <<"graphql", GraphQlReads>>, <<"openapi_promotion", PromotionReads>>,
     <<"asset_discovery", DiscoveryReads>>, <<"admission", AdmissionReads>>,
     <<"credential_session", SessionReads>>, <<"role_differential", RoleReads>>,
     <<"business_invariant", BusinessReads>>, <<"materialization", MaterializationReads>>,
     <<"assessment", AssessmentReads>>, <<"replay_validation", ReplayedReads>>,
     <<"critic_materialization", CounterReads>>, <<"attack_report", AttackReportReads>>}
=============================================================================
