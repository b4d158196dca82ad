---------------------------- MODULE GateServices ----------------------------
(***************************************************************************)
(* The gates a candidate passes on its way to a finding: validation,       *)
(* critic review, promotion, and the hybrid chain that joins a source      *)
(* candidate with a live one. Most gates come in layers: a deterministic   *)
(* service over its own ledger, an intake by which an agent asks for it, a *)
(* binding of its outcome, and a pilot that wraps one of these and accepts *)
(* no run that began before it held its row.                               *)
(***************************************************************************)
EXTENDS ServiceShape

\* Outcomes rest on records finished before; wrappers that probe for an inner run
\* also promise that the one they bind began under their claim, and those that
\* compare the times of the two outcomes that they are equal.
Based == {"upstream"}
Gated == Based \cup {"gated"}
Timed == Gated \cup {"timed"}

\* The wrapped call between the claim and the outcome of a pilot.
WrappedRun == <<"wrap", "settle">>

(***************************************************************************)
(* Validation. The sandbox and the broker are two effects of one attempt,  *)
(* and what they collected must be in the evidence store before the judge  *)
(* sees it.                                                                *)
(***************************************************************************)
ValidationLedger    == Once
ValidationReads     == {}
ValidationPreflight == <<"bind">>
ValidationExecute   == ValidationPreflight
                       \o <<"claim", "effect", "effect", "sealed", "derive", "finish">>
Validation == Service(ValidationLedger, <<>>, ValidationExecute, <<>>, {"sealed"})

ValidationIntakeLedger              == Once
ValidationIntakeReads               == {"session_audit", "candidate_set"}
ValidationIntakeAuthoritativeInputs == <<"load">>
ValidationIntakeVerifyBindings      == <<"bind">>
ValidationIntakePrepare             == ValidationIntakeAuthoritativeInputs
                                       \o ValidationIntakeVerifyBindings
ValidationIntakeExecute             == ValidationIntakeAuthoritativeInputs
                                       \o ValidationIntakeVerifyBindings \o <<"claim", "finish">>
ValidationIntake == Service(ValidationIntakeLedger, ValidationIntakePrepare,
                            ValidationIntakeExecute, <<>>, Based)

ValidationBindingLedger  == Once
ValidationBindingReads   == {"validation_intake", "validation", "session_audit"}
ValidationBindingLoad    == <<"load">>
ValidationBindingPrepare == <<"bind">> \o ValidationBindingLoad
ValidationBindingExecute == <<"bind">> \o ValidationBindingLoad \o <<"claim", "finish">>
ValidationBinding == Service(ValidationBindingLedger, ValidationBindingPrepare,
                             ValidationBindingExecute, <<>>, Based)

RecommendedValidationLedger  == Once
RecommendedValidationReads   == {"recommendation_selection", "recommendation"}
RecommendedValidationInputs  == <<"load">>
RecommendedValidationPrepare == <<"bind">> \o RecommendedValidationInputs
RecommendedValidationExecute == <<"bind">> \o RecommendedValidationInputs \o <<"claim", "finish">>
RecommendedValidation == Service(RecommendedValidationLedger, RecommendedValidationPrepare,
                                 RecommendedValidationExecute, <<>>, Based)

\* The pilot intake does not probe: an intake decided before is taken as it is.
PilotValidationIntakeLedger       == Once
PilotValidationIntakeReads        == {"pilot_selection"}
PilotValidationIntakeVerifyInputs == <<"load">>
PilotValidationIntakePrepare      == <<"bind">> \o PilotValidationIntakeVerifyInputs
PilotValidationIntakeExecute      == <<"bind">> \o PilotValidationIntakeVerifyInputs
                                     \o <<"claim">> \o WrappedRun \o <<"finish">>
PilotValidationIntake == Service(PilotValidationIntakeLedger, PilotValidationIntakePrepare,
                                 PilotValidationIntakeExecute, <<>>, Based)

PilotValidationLedger  == Once
PilotValidationReads   == {"pilot_validation_intake", "validation_intake"}
PilotValidationLoad    == <<"load">>
PilotValidationPrepare == PilotValidationLoad \o <<"bind">>
PilotValidationExecute == <<"bind">> \o PilotValidationLoad
                          \o <<"unused", "claim", "vacant">> \o WrappedRun \o <<"finish">>
PilotValidation == Service(PilotValidationLedger, PilotValidationPrepare,
                           PilotValidationExecute, <<>>, Gated)

PilotOutcomeLedger       == Once
PilotOutcomeReads        == {"pilot_validation", "validation"}
PilotOutcomeVerify       == <<"load">>
PilotOutcomeVerifyResult == <<"timed">>
PilotOutcomePrepare      == <<"bind">> \o PilotOutcomeVerify
PilotOutcomeExecute      == <<"bind">> \o PilotOutcomeVerify
                            \o <<"unused", "claim", "vacant">> \o WrappedRun
                            \o PilotOutcomeVerifyResult \o <<"finish">>
PilotOutcome == Service(PilotOutcomeLedger, PilotOutcomePrepare, PilotOutcomeExecute, <<>>, Timed)

(***************************************************************************)
(* Critic review. The evidence is read before the claim and again by the   *)
(* review; it is content addressed and does not change.                    *)
(***************************************************************************)
CriticLedger    == Once
CriticReads     == {}
CriticPreflight == <<"bind">>
CriticExecute   == CriticPreflight \o <<"claim", "derive", "finish">>
Critic == Service(CriticLedger, <<>>, CriticExecute, <<>>, {})

CriticIntakeLedger    == Once
CriticIntakeReads     == {"validation_binding", "validation", "session_audit"}
CriticIntakeLoad      == <<"load">>
CriticIntakePrepare   == <<"bind">> \o CriticIntakeLoad
CriticIntakePreflight == <<"bind">> \o CriticIntakeLoad
CriticIntakeExecute   == CriticIntakePreflight \o <<"claim", "finish">>
CriticIntake == Service(CriticIntakeLedger, CriticIntakePrepare, CriticIntakeExecute, <<>>, Based)

CriticBindingLedger  == Once
CriticBindingReads   == {"critic_intake", "validation_binding", "critic"}
CriticBindingLoad    == <<"load">>
CriticBindingPrepare == <<"bind">> \o CriticBindingLoad
CriticBindingExecute == <<"bind">> \o CriticBindingLoad \o <<"claim", "finish">>
CriticBinding == Service(CriticBindingLedger, CriticBindingPrepare, CriticBindingExecute,
                         <<>>, Based)

PilotCriticIntakeLedger  == Once
PilotCriticIntakeReads   == {"pilot_outcome", "validation_binding"}
PilotCriticIntakeVerify  == <<"load">>
PilotCriticIntakePrepare == <<"bind">> \o PilotCriticIntakeVerify
PilotCriticIntakeExecute == <<"bind">> \o PilotCriticIntakeVerify
                            \o <<"unused", "claim", "vacant">> \o WrappedRun \o <<"finish">>
PilotCriticIntake == Service(PilotCriticIntakeLedger, PilotCriticIntakePrepare,
                             PilotCriticIntakeExecute, <<>>, Gated)

\* The pilot runs the review and then binds its outcome, a second nested call.
PilotCriticLedger    == Once
PilotCriticReads     == {"pilot_critic_intake", "critic_intake"}
PilotCriticLoad      == <<"load">>
PilotCriticPrepare   == <<"bind">> \o PilotCriticLoad
PilotCriticCompleted == <<"load", "timed">>
PilotCriticExecute   == PilotCriticPrepare \o <<"unused", "claim", "vacant">> \o WrappedRun
                        \o <<"nested">> \o PilotCriticCompleted \o <<"finish">>
PilotCritic == Service(PilotCriticLedger, PilotCriticPrepare, PilotCriticExecute, <<>>, Timed)

(***************************************************************************)
(* Findings. The duplicate check must be the latest one for the candidate  *)
(* when it is read; a newer one supersedes it.                             *)
(***************************************************************************)
FindingIntakeLedger            == Once
FindingIntakeReads             == {"critic_binding", "validation_binding", "validation",
                                  "critic", "duplicate_check"}
FindingIntakeLoadAuthoritative == <<"current", "load">>
FindingIntakePrepare           == <<"bind">> \o FindingIntakeLoadAuthoritative
FindingIntakePreflight         == <<"bind">> \o FindingIntakeLoadAuthoritative
FindingIntakeExecute           == FindingIntakePreflight \o <<"claim", "finish">>
FindingIntake == Service(FindingIntakeLedger, FindingIntakePrepare, FindingIntakeExecute,
                         <<>>, Based)

FindingPromotionLedger    == Once
FindingPromotionReads     == {"finding_intake", "critic_binding", "duplicate_check"}
FindingPromotionLoad      == <<"load", "current">>
FindingPromotionPrepare   == <<"bind">> \o FindingPromotionLoad
FindingPromotionPreflight == <<"bind">> \o FindingPromotionLoad \o <<"derive">>
FindingPromotionExecute   == FindingPromotionPreflight \o <<"claim", "finish">>
FindingPromotion == Service(FindingPromotionLedger, FindingPromotionPrepare,
                            FindingPromotionExecute, <<>>, Based)

PilotFindingIntakeLedger  == Once
PilotFindingIntakeReads   == {"pilot_critic", "critic_binding"}
PilotFindingIntakeVerify  == <<"load">>
PilotFindingIntakePrepare == <<"bind">> \o PilotFindingIntakeVerify
PilotFindingIntakeExecute == <<"bind">> \o PilotFindingIntakeVerify
                             \o <<"unused", "claim", "vacant">> \o WrappedRun \o <<"finish">>
PilotFindingIntake == Service(PilotFindingIntakeLedger, PilotFindingIntakePrepare,
                              PilotFindingIntakeExecute, <<>>, Gated)

PilotPromotionLedger  == Once
PilotPromotionReads   == {"pilot_finding_intake", "finding_intake"}
PilotPromotionVerify  == <<"load">>
PilotPromotionPrepare == <<"bind">> \o PilotPromotionVerify
PilotPromotionExecute == <<"bind">> \o PilotPromotionVerify
                         \o <<"unused", "claim", "vacant">> \o WrappedRun \o <<"timed", "finish">>
PilotPromotion == Service(PilotPromotionLedger, PilotPromotionPrepare, PilotPromotionExecute,
                          <<>>, Timed)

(***************************************************************************)
(* The hybrid chain. No call is refused for being late: it takes the row   *)
(* and ends it as timed out. Recovery is a flag of execute and the store's *)
(* recover; one past the last attempt closes the row.                      *)
(***************************************************************************)
\* The route resolves the live endpoint and writes the prepared validation in
\* the transaction that ends its row.
HybridRouteLedger    == Closing({"failed"})
HybridRouteReads     == {}
HybridRoutePrepare   == <<"bind">>
HybridRoutePreflight == <<"derive">>
HybridRoutePlan      == <<"derive">>
HybridRouteTerminal  == <<"expire">>
HybridRouteExecute   == HybridRoutePreflight \o <<"claim">> \o HybridRouteTerminal
                        \o <<"effect">> \o HybridRoutePlan \o <<"finish">>
HybridRouteRecover   == HybridRoutePreflight \o <<"recover">> \o HybridRouteTerminal
                        \o <<"effect">> \o HybridRoutePlan \o <<"finish">>
HybridRoute == Service(HybridRouteLedger, HybridRoutePrepare, HybridRouteExecute,
                       HybridRouteRecover, {})

HybridLedger    == Closing({"failed"})
HybridReads     == {"validation"}
HybridPreflight == <<"load">>
HybridPrepare   == <<"bind">> \o HybridPreflight
HybridTerminal  == <<"expire">>
HybridExecute   == HybridPreflight \o <<"claim">> \o HybridTerminal \o <<"derive", "finish">>
HybridRecover   == HybridPreflight \o <<"recover">> \o HybridTerminal \o <<"derive", "finish">>
Hybrid == Service(HybridLedger, HybridPrepare, HybridExecute, HybridRecover, Based)

HybridFindingLedger    == Closing({"failed"})
HybridFindingReads     == {"hybrid", "validation", "critic"}
HybridFindingPreflight == <<"load">>
HybridFindingTerminal  == <<"expire">>
HybridFindingExecute   == HybridFindingPreflight \o <<"claim">> \o HybridFindingTerminal
                          \o <<"derive", "finish">>
HybridFindingRecover   == HybridFindingPreflight \o <<"recover">> \o HybridFindingTerminal
                          \o <<"derive", "finish">>
HybridFinding == Service(HybridFindingLedger, <<>>, HybridFindingExecute,
                         HybridFindingRecover, Based)

\* The report is drafted by the report service before the row is claimed.
HybridReportLedger   == Closing({})
HybridReportReads    == {"hybrid", "hybrid_finding"}
HybridReportLoad     == <<"load">>
HybridReportTerminal == <<"expire">>
HybridReportExecute  == HybridReportLoad \o <<"nested", "claim">> \o HybridReportTerminal
                        \o <<"finish">>
HybridReportRecover  == HybridReportLoad \o <<"nested", "recover">> \o HybridReportTerminal
                        \o <<"finish">>
HybridReport == Service(HybridReportLedger, <<>>, HybridReportExecute, HybridReportRecover, Based)

HybridReleaseLedger    == Closing({"failed"})
HybridReleaseReads     == {"hybrid"}
HybridReleasePreflight == <<"load">>
HybridReleaseTerminal  == <<"expire">>
HybridReleaseExecute   == HybridReleasePreflight \o <<"claim">> \o HybridReleaseTerminal
                          \o <<"derive", "finish">>
HybridReleaseRecover   == HybridReleasePreflight \o <<"recover">> \o HybridReleaseTerminal
                          \o <<"derive", "finish">>
HybridRelease == Service(HybridReleaseLedger, <<>>, HybridReleaseExecute,
                         HybridReleaseRecover, Based)

GateServiceSet ==
    {Validation, ValidationIntake, ValidationBinding, RecommendedValidation,
     PilotValidationIntake, PilotValidation, PilotOutcome, Critic, CriticIntake,
     CriticBinding, PilotCriticIntake, PilotCritic, FindingIntake, FindingPromotion,
     PilotFindingIntake, PilotPromotion, HybridRoute, Hybrid, HybridFinding, HybridReport,
     HybridRelease}

\* The ledger each service keeps, and the ledgers its plans are bound to.
GateProvenance ==
    {<<"validation", ValidationReads>>, <<"validation_intake", ValidationIntakeReads>>,
     <<"validation_binding", ValidationBindingReads>>,
     <<"recommended_validation", RecommendedValidationReads>>,
     <<"pilot_validation_intake", PilotValidationIntakeReads>>,
     <<"pilot_validation", PilotValidationReads>>, <<"pilot_outcome", PilotOutcomeReads>>,
     <<"critic", CriticReads>>, <<"critic_intake", CriticIntakeReads>>,
     <<"critic_binding", CriticBindingReads>>,
     <<"pilot_critic_intake", PilotCriticIntakeReads>>,
     <<"pilot_critic", PilotCriticReads>>, <<"finding_intake", FindingIntakeReads>>,
     <<"finding_promotion", FindingPromotionReads>>,
     <<"pilot_finding_intake", PilotFindingIntakeReads>>,
     <<"pilot_promotion", PilotPromotionReads>>, <<"hybrid_route", HybridRouteReads>>,
     <<"hybrid", HybridReads>>, <<"hybrid_finding", HybridFindingReads>>,
     <<"hybrid_report", HybridReportReads>>, <<"hybrid_release", HybridReleaseReads>>}
=============================================================================
