-------------------------- MODULE CampaignServices --------------------------
(***************************************************************************)
(* The Red Team services that qualify adaptive flows and campaigns, and    *)
(* the ones that take a campaign's candidate through intake, validation    *)
(* and review. The records they read (a completed flow, a finished         *)
(* outcome) never change, so nothing is checked again after the claim that *)
(* could come out differently.                                             *)
(***************************************************************************)
EXTENDS ServiceShape

Bound == {"upstream"}

\* The phases of a campaign (GoalDrivenCampaignPlan.phases).
CampaignPhases == 6

(***************************************************************************)
(* A flow is qualified once it is completed; its trace is read from the    *)
(* flow ledger. The three qualifications after it are given the outcomes   *)
(* they rest on as arguments and check them against the plan: nothing is   *)
(* read from a ledger, so they promise nothing about one.                  *)
(***************************************************************************)
AdaptiveLedger  == Recoverable
AdaptiveReads   == {"flow"}
AdaptiveTrace   == <<"load">>
AdaptivePrepare == <<"bind">> \o AdaptiveTrace
AdaptiveFinish  == <<"derive", "finish">>
AdaptiveExecute == <<"bind">> \o AdaptiveTrace \o <<"claim">> \o AdaptiveFinish
AdaptiveRecover == <<"bind">> \o AdaptiveTrace \o <<"recover">> \o AdaptiveFinish
Adaptive == Service(AdaptiveLedger, AdaptivePrepare, AdaptiveExecute, AdaptiveRecover, Bound)

AdaptiveRuntimeLedger  == Recoverable
AdaptiveRuntimeReads   == {"adaptive"}
AdaptiveRuntimeInputs  == <<"bind">>
AdaptiveRuntimeBinding == AdaptiveRuntimeInputs
AdaptiveRuntimePrepare == AdaptiveRuntimeInputs
AdaptiveRuntimeFinish  == <<"derive", "finish">>
AdaptiveRuntimeExecute == AdaptiveRuntimeBinding \o <<"claim">> \o AdaptiveRuntimeFinish
AdaptiveRuntimeRecover == AdaptiveRuntimeBinding \o <<"recover">> \o AdaptiveRuntimeFinish
AdaptiveRuntime == Service(AdaptiveRuntimeLedger, AdaptiveRuntimePrepare,
                           AdaptiveRuntimeExecute, AdaptiveRuntimeRecover, {})

CampaignLedger  == Recoverable
CampaignReads   == {"adaptive_runtime"}
CampaignSource  == <<"bind">>
CampaignPrepare == CampaignSource
CampaignFinish  == <<"derive", "finish">>
CampaignExecute == CampaignSource \o <<"claim">> \o CampaignFinish
CampaignRecover == CampaignSource \o <<"recover">> \o CampaignFinish
Campaign == Service(CampaignLedger, CampaignPrepare, CampaignExecute, CampaignRecover, {})

CampaignRuntimeLedger  == Recoverable
CampaignRuntimeReads   == {"campaign"}
CampaignRuntimeInputs  == <<"bind">>
CampaignRuntimeBinding == CampaignRuntimeInputs
CampaignRuntimePrepare == CampaignRuntimeInputs
CampaignRuntimeFinish  == <<"derive", "finish">>
CampaignRuntimeExecute == CampaignRuntimeBinding \o <<"claim">> \o CampaignRuntimeFinish
CampaignRuntimeRecover == CampaignRuntimeBinding \o <<"recover">> \o CampaignRuntimeFinish
CampaignRuntime == Service(CampaignRuntimeLedger, CampaignRuntimePrepare,
                           CampaignRuntimeExecute, CampaignRuntimeRecover, {})

\* The orchestration records the campaign's phases one by one and then closes
\* it. A call that resumes compares the phases in the row with its own, which
\* carry its time; a call at a later time is refused there and has used an
\* attempt up.
OrchestrationLedger          == LooselyFenced
OrchestrationReads           == {"campaign", "campaign_runtime", "assessment"}
OrchestrationRead            == <<"load">>
OrchestrationValidateSources == <<"bind">>
OrchestrationValidatePlan    == <<"bind">>
OrchestrationApprovals       == <<"bind">>
OrchestrationCheckpoints     == <<"derive">>
OrchestrationPrepare         == OrchestrationRead \o OrchestrationValidateSources
OrchestrationExecute         == OrchestrationRead \o OrchestrationValidateSources
                                \o OrchestrationValidatePlan \o OrchestrationApprovals
                                \o <<"claim">> \o OrchestrationCheckpoints
                                \o Repeat(CampaignPhases, <<"save">>) \o <<"look", "finish">>
Orchestration == Service(OrchestrationLedger, OrchestrationPrepare, OrchestrationExecute,
                         <<>>, Bound)

(***************************************************************************)
(* The candidate's stages. Their ledgers take a started row over inside    *)
(* the claim, so execute is also how a run is recovered.                   *)
(***************************************************************************)
CandidateLedger         == SelfRecovering
CandidateReads          == {"orchestration", "assessment"}
CandidateRead           == <<"load">>
CandidateValidateSource == <<"bind">>
CandidatePrepare        == CandidateRead \o CandidateValidateSource
CandidateExecute        == CandidateRead \o CandidateValidateSource \o <<"claim", "finish">>
Candidate == Service(CandidateLedger, CandidatePrepare, CandidateExecute, <<>>, Bound)

CandidateValidationLedger         == SelfRecovering
CandidateValidationReads          == {"candidate"}
CandidateValidationRead           == <<"load">>
CandidateValidationValidateSource == <<"bind">>
CandidateValidationPrepare        == CandidateValidationRead \o CandidateValidationValidateSource
CandidateValidationExecute        == CandidateValidationRead
                                     \o CandidateValidationValidateSource \o <<"claim", "finish">>
CandidateValidation == Service(CandidateValidationLedger, CandidateValidationPrepare,
                               CandidateValidationExecute, <<>>, Bound)

\* Two sandbox runs, primary and replay; what they print must equal the sealed
\* inputs read before the claim.
CandidateExecutionLedger          == SelfRecovering
CandidateExecutionReads           == {"candidate_validation"}
CandidateExecutionRead            == <<"load">>
CandidateExecutionValidateSource  == <<"bind">>
CandidateExecutionValidateRequest == <<"bind">>
CandidateExecutionFacts           == <<"derive">>
CandidateExecutionPrepare         == CandidateExecutionRead
                                     \o CandidateExecutionValidateSource
                                     \o CandidateExecutionValidateRequest
CandidateExecutionExecute         == CandidateExecutionRead
                                     \o CandidateExecutionValidateSource
                                     \o CandidateExecutionValidateRequest
                                     \o <<"claim", "effect", "effect">>
                                     \o CandidateExecutionFacts \o <<"finish">>
CandidateExecution == Service(CandidateExecutionLedger, CandidateExecutionPrepare,
                              CandidateExecutionExecute, <<>>, Bound)

CandidateCriticLedger         == SelfRecovering
CandidateCriticReads          == {"candidate_execution"}
CandidateCriticRead           == <<"load">>
CandidateCriticValidateSource == <<"bind">>
CandidateCriticPrepare        == CandidateCriticRead \o CandidateCriticValidateSource
CandidateCriticExecute        == CandidateCriticRead \o CandidateCriticValidateSource
                                 \o <<"claim", "finish">>
CandidateCritic == Service(CandidateCriticLedger, CandidateCriticPrepare,
                           CandidateCriticExecute, <<>>, Bound)

CandidateReviewLedger         == SelfRecovering
CandidateReviewReads          == {"candidate_critic", "candidate_execution"}
CandidateReviewRead           == <<"load">>
CandidateReviewValidateSource == <<"bind">>
CandidateReviewPrepare        == CandidateReviewRead \o CandidateReviewValidateSource
CandidateReviewExecute        == CandidateReviewRead \o CandidateReviewValidateSource
                                 \o <<"claim", "effect", "derive", "finish">>
CandidateReview == Service(CandidateReviewLedger, CandidateReviewPrepare,
                           CandidateReviewExecute, <<>>, Bound)

CampaignServiceSet ==
    {Adaptive, AdaptiveRuntime, Campaign, CampaignRuntime, Orchestration, Candidate,
     CandidateValidation, CandidateExecution, CandidateCritic, CandidateReview}

\* The ledger each service keeps, and the ledgers its plans are bound to.
CampaignProvenance ==
    {<<"adaptive", AdaptiveReads>>, <<"adaptive_runtime", AdaptiveRuntimeReads>>,
     <<"campaign", CampaignReads>>, <<"campaign_runtime", CampaignRuntimeReads>>,
     <<"orchestration", OrchestrationReads>>, <<"candidate", CandidateReads>>,
     <<"candidate_validation", CandidateValidationReads>>,
     <<"candidate_execution", CandidateExecutionReads>>,
     <<"candidate_critic", CandidateCriticReads>>,
     <<"candidate_review", CandidateReviewReads>>}
=============================================================================
