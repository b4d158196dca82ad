----------------------------- MODULE MCStageRun -----------------------------
(* All services of the catalogue, and what their provenance amounts to. *)
EXTENDS StageRun, ReconServices, CampaignServices, GateServices, ReportServices,
        StudyServices, AgentServices, TLC

AllServices ==
    ReconServiceSet \cup CampaignServiceSet \cup GateServiceSet \cup ReportServiceSet
        \cup StudyServiceSet \cup AgentServiceSet

Provenance ==
    ReconProvenance \cup CampaignProvenance \cup GateProvenance \cup ReportProvenance
        \cup StudyProvenance \cup AgentProvenance

\* The ledgers that outcomes of the ledgers S rest on, S included.
RECURSIVE Behind(_)
Behind(S) ==
    LET wider == S \cup UNION {p[2] : p \in {q \in Provenance : q[1] \in S}}
    IN  IF wider = S THEN S ELSE Behind(wider)

\* No ledger rests on itself, through however many others.
ASSUME ProvenanceAcyclic == \A p \in Provenance : p[1] \notin Behind(p[2])

\* A report that an agent had exported rests on a validation, a review of it
\* and a check for duplicates, whichever way it came.
ASSUME ExportsAreReviewed ==
    {"validation", "critic", "duplicate_check"} \subseteq Behind({"export_execution"})

Sym == Permutations(Calls)
=============================================================================
