--------------------------- MODULE StudyServices ----------------------------
(***************************************************************************)
(* Services that ask a model for a recommendation or a review, and the     *)
(* benchmark services: suites, imported results, analyzers and the         *)
(* readiness of a pilot. All their ledgers are of the Once kind.           *)
(***************************************************************************)
EXTENDS ServiceShape

\* Outcomes rest on records finished before; benchmark results are stored
\* before the row refers to them.
Grounded == {"upstream"}
Archived == {"sealed"}

(***************************************************************************)
(* A model is asked once per row, under an egress grant that may be        *)
(* revoked; whatever the provider does, the row ends with a status of its  *)
(* own.                                                                    *)
(***************************************************************************)
GenerationLedger     == Once
GenerationReads      == {"candidate_set", "egress"}
GenerationProjection == <<"load">>
GenerationPreflight  == <<"bind", "current">> \o GenerationProjection
GenerationPrepare    == <<"bind">> \o GenerationProjection
GenerationExecute    == GenerationPreflight \o <<"claim", "effect", "derive", "finish">>
Generation == Service(GenerationLedger, GenerationPrepare, GenerationExecute, <<>>, Grounded)

RecommendationLedger  == Once
RecommendationReads   == {"candidate_set", "generation"}
RecommendationInputs  == <<"load">>
RecommendationPrepare == <<"bind">> \o RecommendationInputs
RecommendationExecute == <<"bind">> \o RecommendationInputs \o <<"claim", "finish">>
Recommendation == Service(RecommendationLedger, RecommendationPrepare, RecommendationExecute,
                          <<>>, Grounded)

\* A command's row is its own; that no other command decided the admission is
\* read before the INSERT and can be stale by then.
SelectionLedger  == Once
SelectionReads   == {"recommendation", "generation", "candidate_set"}
SelectionInputs  == <<"load">>
SelectionPrepare == <<"bind">> \o SelectionInputs
SelectionExecute == <<"bind">> \o SelectionInputs \o <<"claim", "derive", "finish">>
Selection == Service(SelectionLedger, SelectionPrepare, SelectionExecute, <<>>, Grounded)

CodeReviewLedger    == Once
CodeReviewReads     == {"egress"}
CodeReviewPrepare   == <<"bind">>
CodeReviewPreflight == <<"bind", "current">>
CodeReviewExecute   == CodeReviewPreflight \o <<"claim", "effect", "derive", "finish">>
CodeReview == Service(CodeReviewLedger, CodeReviewPrepare, CodeReviewExecute, <<>>, {})

(***************************************************************************)
(* Benchmarks: results are computed, stored and bound to the row.          *)
(***************************************************************************)
BenchmarkLedger  == Once
BenchmarkReads   == {}
BenchmarkPut     == <<"publish">>
BenchmarkExecute == <<"bind", "claim", "derive">> \o BenchmarkPut \o <<"finish">>
Benchmark == Service(BenchmarkLedger, <<>>, BenchmarkExecute, <<>>, Archived)

ExternalImportLedger  == Once
ExternalImportReads   == {}
ExternalImportPut     == <<"publish">>
ExternalImportExecute == <<"bind", "claim", "derive">> \o ExternalImportPut \o <<"finish">>
ExternalImport == Service(ExternalImportLedger, <<>>, ExternalImportExecute, <<>>, Archived)

WorkflowLedger  == Once
WorkflowReads   == {}
WorkflowPut     == <<"publish">>
WorkflowExecute == <<"bind", "claim", "derive">> \o WorkflowPut \o <<"finish">>
Workflow == Service(WorkflowLedger, <<>>, WorkflowExecute, <<>>, Archived)

AnalyzerImportLedger  == Once
AnalyzerImportReads   == {}
AnalyzerImportPut     == <<"publish">>
AnalyzerImportExecute == <<"bind", "claim", "derive">> \o AnalyzerImportPut \o <<"finish">>
AnalyzerImport == Service(AnalyzerImportLedger, <<>>, AnalyzerImportExecute, <<>>, Archived)

AnalyzerEvaluationLedger  == Once
AnalyzerEvaluationReads   == {"analyzer_import"}
AnalyzerEvaluationPut     == <<"publish">>
AnalyzerEvaluationExecute == <<"bind", "claim", "derive">> \o AnalyzerEvaluationPut
                             \o <<"finish">>
AnalyzerEvaluation == Service(AnalyzerEvaluationLedger, <<>>, AnalyzerEvaluationExecute, <<>>,
                              Archived)

AnalyzerRunLedger   == Once
AnalyzerRunReads    == {}
AnalyzerRunValidate == <<"bind">>
AnalyzerRunExecute  == AnalyzerRunValidate \o <<"claim", "effect", "finish">>
AnalyzerRun == Service(AnalyzerRunLedger, <<>>, AnalyzerRunExecute, <<>>, {})

\* The container run and the import of its result, whose ledger is its own, are
\* both under the claim.
DockerRunLedger  == Once
DockerRunReads   == {}
DockerRunExecute == <<"bind", "claim", "effect", "derive", "nested", "finish">>
DockerRun == Service(DockerRunLedger, <<>>, DockerRunExecute, <<>>, {})

\* The evaluation it rests on is made before the claim.
QualificationLedger  == Once
QualificationReads   == {"docker_run", "analyzer_evaluation"}
QualificationExecute == <<"bind", "load", "nested", "claim", "derive", "finish">>
Qualification == Service(QualificationLedger, <<>>, QualificationExecute, <<>>, Grounded)

ReadinessLedger    == Once
ReadinessReads     == {}
ReadinessPreflight == <<"bind">>
ReadinessPut       == <<"publish">>
ReadinessExecute   == ReadinessPreflight \o <<"claim", "derive">> \o ReadinessPut \o <<"finish">>
Readiness == Service(ReadinessLedger, <<>>, ReadinessExecute, <<>>, Archived)

PilotSelectionLedger              == Once
PilotSelectionReads               == {"pilot_readiness", "session_audit", "candidate_set"}
PilotSelectionAuthoritativeInputs == <<"load">>
PilotSelectionPrepare             == <<"bind">> \o PilotSelectionAuthoritativeInputs
PilotSelectionExecute             == <<"bind">> \o PilotSelectionAuthoritativeInputs
                                     \o <<"claim", "finish">>
PilotSelection == Service(PilotSelectionLedger, PilotSelectionPrepare, PilotSelectionExecute,
                          <<>>, Grounded)

StudyServiceSet ==
    {Generation, Recommendation, Selection, CodeReview, Benchmark, ExternalImport, Workflow,
     AnalyzerImport, AnalyzerEvaluation, AnalyzerRun, DockerRun, Qualification, Readiness,
     PilotSelection}

\* The ledger each service keeps, and the ledgers its plans are bound to.
StudyProvenance ==
    {<<"generation", GenerationReads>>, <<"recommendation", RecommendationReads>>,
     <<"recommendation_selection", SelectionReads>>, <<"code_review", CodeReviewReads>>,
     <<"benchmark", BenchmarkReads>>, <<"external_import", ExternalImportReads>>,
     <<"workflow_regression", WorkflowReads>>, <<"analyzer_import", AnalyzerImportReads>>,
     <<"analyzer_evaluation", AnalyzerEvaluationReads>>,
     <<"analyzer_run", AnalyzerRunReads>>, <<"docker_run", DockerRunReads>>,
     <<"analyzer_qualification", QualificationReads>>,
     <<"pilot_readiness", ReadinessReads>>, <<"pilot_selection", PilotSelectionReads>>}
=============================================================================
