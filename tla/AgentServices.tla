--------------------------- MODULE AgentServices ----------------------------
(***************************************************************************)
(* The agent runtime (a run, the tool call it proposes, the continuation   *)
(* after it, the session over both, and the audit of a session) and the    *)
(* staged executions of source hunting and project recipes.                *)
(***************************************************************************)
EXTENDS ServiceShape

\* Outcomes rest on records finished before.
Rooted == {"upstream"}

(***************************************************************************)
(* The runtime. A run asks the model up to its step limit (one effect      *)
(* here: the steps of a run are one attempt of one call) and always ends   *)
(* its row. A handoff runs one tool call through the broker.               *)
(***************************************************************************)
AgentRunLedger         == Once
AgentRunReads          == {}
AgentRunPrepareRequest == <<"bind">>
AgentRunFinish         == <<"finish">>
AgentRunExecute        == AgentRunPrepareRequest \o <<"claim", "effect", "derive">>
                          \o AgentRunFinish
AgentRun == Service(AgentRunLedger, <<>>, AgentRunExecute, <<>>, {})

HandoffLedger    == Once
HandoffReads     == {"agent_run"}
HandoffPreflight == <<"bind", "load">>
HandoffExecute   == HandoffPreflight \o <<"claim", "effect", "finish">>
Handoff == Service(HandoffLedger, <<>>, HandoffExecute, <<>>, Rooted)

ContinuationLedger              == Once
ContinuationReads               == {"agent_run", "tool_handoff"}
ContinuationAuthoritativeInputs == <<"load">>
ContinuationPrepare             == <<"bind">> \o ContinuationAuthoritativeInputs
ContinuationPreflight           == <<"bind">> \o ContinuationAuthoritativeInputs
ContinuationExecute             == ContinuationPreflight \o <<"claim", "nested", "finish">>
Continuation == Service(ContinuationLedger, ContinuationPrepare, ContinuationExecute, <<>>,
                        Rooted)

\* A session is a second round and its tool call. When the tool needs an
\* approval the row waits, and one call resumes it with the approval in hand,
\* under a new handoff. Both the round and the tool call keep ledgers of their
\* own; what the session adds, and must not do twice, is the tool call it
\* makes.
AgentSessionLedger              == Once
AgentSessionReads               == {"agent_run", "tool_handoff", "continuation"}
AgentSessionAuthoritativeInputs == <<"load">>
AgentSessionPreflight           == <<"bind">> \o AgentSessionAuthoritativeInputs
AgentSessionPrepare             == <<"bind">> \o AgentSessionAuthoritativeInputs
AgentSessionOutcome             == <<"derive">>
AgentSessionExecute             == AgentSessionPreflight \o <<"claim", "nested", "effect">>
                                   \o AgentSessionOutcome \o <<"pause", "finish">>
AgentSessionRecover             == AgentSessionPreflight
                                   \o <<"resume", "load", "effect", "nested">>
                                   \o AgentSessionOutcome \o <<"finish">>
AgentSession == Service(AgentSessionLedger, AgentSessionPrepare, AgentSessionExecute,
                        AgentSessionRecover, Rooted)

SessionAuditLedger      == Once
SessionAuditReads       == {"agent_session"}
SessionAuditVerifyChain == <<"load">>
SessionAuditPrepare     == SessionAuditVerifyChain \o <<"bind">>
SessionAuditBundle      == <<"derive">>
SessionAuditPut         == <<"publish">>
SessionAuditExecute     == <<"bind">> \o SessionAuditVerifyChain \o <<"claim">>
                           \o SessionAuditBundle \o SessionAuditPut \o <<"finish">>
SessionAudit == Service(SessionAuditLedger, SessionAuditPrepare, SessionAuditExecute, <<>>,
                        Rooted \cup {"sealed"})

\* A grant is published before its row is completed; it counts as issued only
\* once it is.
EgressIssueLedger  == Once
EgressIssueReads   == {}
EgressIssuePut     == <<"publish">>
EgressIssueFinish  == <<"finish">>
EgressIssueExecute == <<"bind", "claim">> \o EgressIssuePut \o EgressIssueFinish
EgressIssue == Service(EgressIssueLedger, <<>>, EgressIssueExecute, <<>>, {"sealed"})

\* The completion also marks the grant revoked, in the same transaction; what
\* that withdraws is the fact a probe reads.
EgressRevokeLedger  == Once
EgressRevokeReads   == {"egress"}
EgressRevokeGrant   == <<"load">>
EgressRevokePut     == <<"publish">>
EgressRevokeFinish  == <<"finish">>
EgressRevokeExecute == EgressRevokeGrant \o <<"bind", "load", "claim">> \o EgressRevokePut
                       \o EgressRevokeFinish
EgressRevoke == Service(EgressRevokeLedger, <<>>, EgressRevokeExecute, <<>>,
                        Rooted \cup {"sealed"})

\* A probe consumes its egress grant: the grant is one of the unique keys of
\* its row.
ProbeLedger  == Once
ProbeReads   == {"egress"}
ProbeActive  == <<"current">>
ProbePrepare == <<"bind">> \o ProbeActive
ProbeExecute == <<"bind">> \o ProbeActive \o <<"claim", "effect", "derive", "finish">>
Probe == Service(ProbeLedger, ProbePrepare, ProbeExecute, <<>>, {})

(***************************************************************************)
(* Staged executions. Every stage is a sandbox run, and the row is         *)
(* replaced by its successor after each: whoever asks for a started row is *)
(* handed it and goes on after the stages it holds.                        *)
(***************************************************************************)
Stages == 2    \* stages of a plan in this model; the code has five

HuntLedger    == Shared({"failed", "timed_out"})
HuntReads     == {"investigation"}
HuntPreflight == <<"bind">>
HuntReceipt   == <<"sealed">>
HuntExecute   == HuntPreflight \o <<"claim">> \o Repeat(Stages, <<"effect">> \o HuntReceipt
                 \o <<"save">>) \o <<"finish">>
HuntPrepare   == <<"bind">>
Hunt == Service(HuntLedger, HuntPrepare, HuntExecute, <<>>, {"sealed"})

RecipeLedger    == Shared({"failed", "timed_out"})
RecipeReads     == {}
RecipePreflight == <<"bind">>
RecipeExecute   == RecipePreflight \o <<"claim">> \o Repeat(Stages, <<"effect", "save">>)
                   \o <<"finish">>
RecipePrepare   == <<"bind">>
Recipe == Service(RecipeLedger, RecipePrepare, RecipeExecute, <<>>, {})

(***************************************************************************)
(* Stores that keep finished records only.                                 *)
(***************************************************************************)
HuntBindingLedger  == Once
HuntBindingReads   == {"source_execution", "validation"}
HuntBindingExecute == <<"load", "bind", "put">>
HuntBinding == Service(HuntBindingLedger, <<>>, HuntBindingExecute, <<>>, Rooted)

RecipeBindingLedger  == Once
RecipeBindingReads   == {"project_recipe"}
RecipeBindingExecute == <<"load", "bind", "put">>
RecipeBinding == Service(RecipeBindingLedger, <<>>, RecipeBindingExecute, <<>>, Rooted)

HuntPromotionLedger  == Once
HuntPromotionReads   == {"source_validation", "critic"}
HuntPromotionExecute == <<"load", "bind", "derive", "put">>
HuntPromotion == Service(HuntPromotionLedger, <<>>, HuntPromotionExecute, <<>>, Rooted)

AgentServiceSet ==
    {AgentRun, Handoff, Continuation, AgentSession, SessionAudit, EgressIssue, EgressRevoke,
     Probe, Hunt, Recipe, HuntBinding, RecipeBinding, HuntPromotion}

\* The ledger each service keeps, and the ledgers its plans are bound to.
AgentProvenance ==
    {<<"agent_run", AgentRunReads>>, <<"tool_handoff", HandoffReads>>,
     <<"continuation", ContinuationReads>>, <<"agent_session", AgentSessionReads>>,
     <<"session_audit", SessionAuditReads>>, <<"egress", EgressIssueReads>>,
     <<"egress_revocation", EgressRevokeReads>>, <<"provider_probe", ProbeReads>>,
     <<"source_execution", HuntReads>>, <<"project_recipe", RecipeReads>>,
     <<"source_validation", HuntBindingReads>>, <<"recipe_binding", RecipeBindingReads>>,
     <<"source_finding", HuntPromotionReads>>}
=============================================================================
