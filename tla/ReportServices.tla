--------------------------- MODULE ReportServices ---------------------------
(***************************************************************************)
(* Reports: the draft, its review and its export, each as a deterministic  *)
(* service that stores an artefact, an intake by which an agent asks for   *)
(* it, and an execution that wraps the service.                            *)
(***************************************************************************)
EXTENDS ServiceShape

\* Outcomes rest on records finished before; the services that write reports
\* finish only when the report is stored; executions probe for an inner run before
\* and after their claim, so the one they bind began under it.
Cited  == {"upstream"}
Probed == Cited \cup {"gated"}
Stored == {"sealed"}

\* The wrapped call between the claim and the outcome of an execution.
InnerRun == <<"wrap", "settle">>

(***************************************************************************)
(* The three services that write a report into the content-addressed       *)
(* store: the bytes are there before the row refers to them.               *)
(***************************************************************************)
DraftLedger    == Once
DraftReads     == {}
DraftPreflight == <<"bind">>
DraftPut       == <<"publish">>
DraftExecute   == DraftPreflight \o <<"claim", "derive">> \o DraftPut \o <<"finish">>
Draft == Service(DraftLedger, <<>>, DraftExecute, <<>>, Stored)

ReviewLedger    == Once
ReviewReads     == {"report_draft"}
ReviewPreflight == <<"bind", "load">>
ReviewExecute   == ReviewPreflight \o <<"claim", "publish", "finish">>
Review == Service(ReviewLedger, <<>>, ReviewExecute, <<>>, Stored \cup Cited)

ExportLedger    == Once
ExportReads     == {"report_review"}
ExportPreflight == <<"bind", "load">>
ExportExecute   == ExportPreflight \o <<"claim", "publish", "finish">>
Export == Service(ExportLedger, <<>>, ExportExecute, <<>>, Stored \cup Cited)

(***************************************************************************)
(* Intakes: an agent proposes, the intake checks what the plan is bound to *)
(* and records the decision.                                               *)
(***************************************************************************)
ReportIntakeLedger            == Once
ReportIntakeReads             == {"finding_promotion", "critic_binding", "validation_binding",
                                 "validation"}
ReportIntakeLoadAuthoritative == <<"load">>
ReportIntakePrepare           == <<"bind">> \o ReportIntakeLoadAuthoritative
ReportIntakeExecute           == <<"bind">> \o ReportIntakeLoadAuthoritative
                                 \o <<"claim", "finish">>
ReportIntake == Service(ReportIntakeLedger, ReportIntakePrepare, ReportIntakeExecute, <<>>, Cited)

ReviewIntakeLedger            == Once
ReviewIntakeReads             == {"draft_execution", "report_draft"}
ReviewIntakeLoadAuthoritative == <<"load">>
ReviewIntakePrepare           == <<"bind">> \o ReviewIntakeLoadAuthoritative
ReviewIntakeExecute           == <<"bind">> \o ReviewIntakeLoadAuthoritative
                                 \o <<"claim", "finish">>
ReviewIntake == Service(ReviewIntakeLedger, ReviewIntakePrepare, ReviewIntakeExecute, <<>>, Cited)

ExportIntakeLedger            == Once
ExportIntakeReads             == {"review_execution", "report_review"}
ExportIntakeLoadAuthoritative == <<"load">>
ExportIntakePrepare           == <<"bind">> \o ExportIntakeLoadAuthoritative
ExportIntakeExecute           == <<"bind">> \o ExportIntakeLoadAuthoritative
                                 \o <<"claim", "finish">>
ExportIntake == Service(ExportIntakeLedger, ExportIntakePrepare, ExportIntakeExecute, <<>>, Cited)

(***************************************************************************)
(* Executions: each wraps one of the three services.                       *)
(***************************************************************************)
DraftExecutionLedger  == Once
DraftExecutionReads   == {"report_intake", "finding_promotion"}
DraftExecutionLoad    == <<"load">>
DraftExecutionPrepare == <<"bind">> \o DraftExecutionLoad
DraftExecutionExecute == <<"bind">> \o DraftExecutionLoad \o <<"unused", "claim", "vacant">>
                         \o InnerRun \o <<"finish">>
DraftExecution == Service(DraftExecutionLedger, DraftExecutionPrepare, DraftExecutionExecute,
                          <<>>, Probed)

ReviewExecutionLedger  == Once
ReviewExecutionReads   == {"review_intake", "draft_execution"}
ReviewExecutionLoad    == <<"load">>
ReviewExecutionPrepare == <<"bind">> \o ReviewExecutionLoad
ReviewExecutionExecute == <<"bind">> \o ReviewExecutionLoad
                          \o <<"unused", "claim", "vacant">> \o InnerRun \o <<"finish">>
ReviewExecution == Service(ReviewExecutionLedger, ReviewExecutionPrepare,
                           ReviewExecutionExecute, <<>>, Probed)

ExportExecutionLedger  == Once
ExportExecutionReads   == {"export_intake", "review_execution"}
ExportExecutionLoad    == <<"load">>
ExportExecutionPrepare == <<"bind">> \o ExportExecutionLoad
ExportExecutionExecute == <<"bind">> \o ExportExecutionLoad
                          \o <<"unused", "claim", "vacant">> \o InnerRun \o <<"finish">>
ExportExecution == Service(ExportExecutionLedger, ExportExecutionPrepare,
                           ExportExecutionExecute, <<>>, Probed)

ReportServiceSet ==
    {Draft, Review, Export, ReportIntake, ReviewIntake, ExportIntake, DraftExecution,
     ReviewExecution, ExportExecution}

\* The ledger each service keeps, and the ledgers its plans are bound to.
ReportProvenance ==
    {<<"report_draft", DraftReads>>, <<"report_review", ReviewReads>>,
     <<"report_export", ExportReads>>, <<"report_intake", ReportIntakeReads>>,
     <<"review_intake", ReviewIntakeReads>>, <<"export_intake", ExportIntakeReads>>,
     <<"draft_execution", DraftExecutionReads>>,
     <<"review_execution", ReviewExecutionReads>>,
     <<"export_execution", ExportExecutionReads>>}
=============================================================================
