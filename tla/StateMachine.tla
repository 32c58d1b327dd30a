---------------------------- MODULE StateMachine ----------------------------
(***************************************************************************)
(* The two workflow tables of the security-assessment service (sampa) and  *)
(* the two look-ups every handler makes on them.  A row of a table is      *)
(* <<current state, action, next state>>; the rows are the seeded rows of  *)
(* state-transition.ts, the action names are the members of ActionEnum and *)
(* the state names the seeded names, but for "SAM assigned", written       *)
(* without its blank.  One table belongs to the process "assessment        *)
(* request", the other to "assessment layer".                              *)
(***************************************************************************)

\* Rows of ProcessEnum.AssessmentRequest.
RequestTransitions ==
  { <<"initiated", "InitiatedSave", "draft">>,
    <<"initiated", "InitiatedRegister", "submitted">>,
    <<"draft", "DraftRegister", "submitted">>,
    <<"draft", "DraftModify", "draft">>,
    <<"submitted", "SubmittedApprove", "approved">>,
    <<"submitted", "SubmittedDecline", "draft">>,
    <<"submitted", "SubmittedModify", "submitted">>,
    <<"approved", "ApprovedAccept", "accepted">>,
    <<"approved", "ApprovedDisapprove", "submitted">>,
    <<"approved", "ApprovedModify", "approved">>,
    <<"accepted", "AcceptedArrangeTeam", "groupReady">>,
    <<"accepted", "AcceptedReconsider", "approved">>,
    <<"groupReady", "GroupReadyFinalizeSpecs", "underAnalysis">>,
    <<"underAnalysis", "UnderAnalysisWrapUp", "statusReported">>,
    <<"statusReported", "StatusReportedFinalize", "closed">>,
    <<"statusReported", "StatusReportedNeedChanges", "underAnalysis">>,
    <<"closed", "ClosedReopen", "statusReported">> }

\* Rows of ProcessEnum.AssessmentLayer up to the analysis (team formation).
FormationTransitions ==
  { <<"initiated", "InitiatedRegister", "approved">>,
    <<"approved", "ApprovedAssignSAM", "SAMAssigned">>,
    <<"SAMAssigned", "SAMAssignedAssignSAM", "SAMAssigned">>,
    <<"SAMAssigned", "SAMAssignedAddSupervise", "supervised">>,
    <<"supervised", "SupervisedAssignSupervisor", "supervised">>,
    <<"supervised", "SupervisedAssignOwnTeamAuditors", "groupReady">>,
    <<"supervised", "SupervisedAssignAllTeamsAuditors", "groupReady">>,
    <<"groupReady", "GroupReadyAssignAuditor", "groupReady">> }

\* Rows of ProcessEnum.AssessmentLayer of the analysis itself.
AnalysisTransitions ==
  { <<"onboarding", "OnboardingFinalizeSpecs", "pendingLayerTestcases">>,
    <<"pendingLayerTestcases", "PendingLayerTestcasesSubmit",
      "layerAssessmentCompleted">>,
    <<"layerAssessmentCompleted", "LayerAssessmentCompletedAccept",
      "layerAssessmentReviewBySAM">>,
    <<"layerAssessmentCompleted", "LayerAssessmentCompletedFeedback",
      "pendingLayerTestcases">>,
    <<"layerAssessmentReviewBySAM", "LayerAssessmentReviewAcceptBySAM",
      "layerAssessmentReviewBySAMDone">>,
    <<"layerAssessmentReviewBySAM",
      "LayerAssessmentReviewNeedModificationsBySAM",
      "layerAssessmentCompleted">>,
    <<"layerAssessmentReviewBySAMDone", "LayerAssessmentReviewAccept",
      "layerReportIssued">>,
    <<"layerAssessmentReviewBySAMDone",
      "LayerAssessmentReviewNeedModifications",
      "layerAssessmentReviewBySAM">>,
    <<"layerAssessmentReviewBySAMDone", "LayerAssessmentReviewFinish",
      "layerAssessmentFulfilled">>,
    <<"layerAssessmentFulfilled", "LayerAssessmentFulfilledReinstate",
      "layerAssessmentReviewBySAMDone">>,
    <<"layerReportIssued", "LayerReportIssuedRefer",
      "remediateLayerVulnerabilities">>,
    <<"layerReportIssued", "LayerReportIssuedRemark",
      "layerAssessmentReviewBySAMDone">>,
    <<"remediateLayerVulnerabilities",
      "RemediateLayerVulnerabilitiesFinalize", "reviewLayerRemediates">>,
    <<"remediateLayerVulnerabilities",
      "RemediateLayerVulnerabilitiesDecline", "layerReportIssued">>,
    <<"reviewLayerRemediates", "ReviewLayerRemediatesApprove",
      "layerReEvaluationRequested">>,
    <<"reviewLayerRemediates", "ReviewLayerRemediatesReject",
      "remediateLayerVulnerabilities">>,
    <<"layerReEvaluationRequested", "LayerReEvaluationRequestedAccept",
      "pendingLayerTestcases">>,
    <<"layerReEvaluationRequested", "LayerReEvaluationRequestedReject",
      "reviewLayerRemediates">> }

LayerTransitions == FormationTransitions \cup AnalysisTransitions

-----------------------------------------------------------------------------
\* The states a row of a table may hold.
RequestStates ==
  { "initiated", "draft", "submitted", "approved", "accepted", "groupReady",
    "underAnalysis", "statusReported", "closed" }

FormationStates ==
  { "initiated", "approved", "SAMAssigned", "supervised", "groupReady",
    "onboarding" }

EvaluationStates ==
  { "pendingLayerTestcases", "layerAssessmentCompleted",
    "layerAssessmentReviewBySAM", "layerAssessmentReviewBySAMDone",
    "layerAssessmentFulfilled", "layerReportIssued",
    "remediateLayerVulnerabilities", "reviewLayerRemediates",
    "layerReEvaluationRequested" }

LayerStates == FormationStates \cup EvaluationStates

-----------------------------------------------------------------------------
(***************************************************************************)
(* StateTransitionService.getNextStatus: the next state of the row with    *)
(* this action and current state.  Handlers that find no row throw, so     *)
(* "next \in NextStates(...)" is both the guard and the result.            *)
(***************************************************************************)
NextStates(table, action, current) ==
  { row[3] : row \in { r \in table : r[1] = current /\ r[2] = action } }

\* StateTransitionService.getAllNextStatus: the targets of an action.
AllNextStates(table, action) ==
  { row[3] : row \in { r \in table : r[2] = action } }

\* The 17 actions assessmentLayerFinalizeSpec passes as nextActions.
ActionsAfterSpecs ==
  { "PendingLayerTestcasesSubmit", "LayerAssessmentCompletedAccept",
    "LayerAssessmentReviewAcceptBySAM",
    "LayerAssessmentReviewNeedModificationsBySAM",
    "LayerAssessmentCompletedFeedback", "LayerAssessmentReviewAccept",
    "LayerAssessmentReviewNeedModifications", "LayerAssessmentReviewFinish",
    "LayerAssessmentFulfilledReinstate", "LayerReportIssuedRefer",
    "LayerReportIssuedRemark", "RemediateLayerVulnerabilitiesFinalize",
    "RemediateLayerVulnerabilitiesDecline", "ReviewLayerRemediatesApprove",
    "ReviewLayerRemediatesReject", "LayerReEvaluationRequestedAccept",
    "LayerReEvaluationRequestedReject" }

(***************************************************************************)
(* The layer states updateRequestIfAllLayersAccepted waits for: the next   *)
(* state of the acting layer, and for the end of the specs also whatever   *)
(* the later actions lead to.                                              *)
(***************************************************************************)
TargetsOf(actions) == UNION { AllNextStates(LayerTransitions, a) : a \in actions }

ExpectedStates(next, nextActions) == {next} \cup TargetsOf(nextActions)
=============================================================================
