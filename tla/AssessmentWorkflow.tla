------------------------- MODULE AssessmentWorkflow -------------------------
(***************************************************************************)
(* The life of one assessment request of the service sampa and of its      *)
(* layers, from creation to closure, with every endpoint as one atomic     *)
(* step: what the workflow promises when requests of clients do not        *)
(* overlap.  It is the abstract specification the handler-grain module     *)
(* LayerAnalysis is compared with.                                         *)
(*                                                                         *)
(* A step has the effect a whole handler leaves in the database.  Handlers *)
(* that are not one transaction can leave a part of it (a lost fire-and-   *)
(* forget update, a loop that throws half way): their actions choose which *)
(* part with \E.                                                           *)
(***************************************************************************)
EXTENDS Naturals, FiniteSets, StateMachine

CONSTANTS
  Layers,        \* the rows of assessment_layer this request may ever own
  MaxIteration   \* bound on iterationCount, in the guard of the counting step

ASSUME MaxIterationAssumption == MaxIteration \in Nat

VARIABLES
  requestState,   \* name of AssessmentRequest.stateId, "none" before creation
  layerState,     \* name of AssessmentLayer.stateId of every row
  iterationCount  \* AssessmentLayer.iterationCount

vars == <<requestState, layerState, iterationCount>>

NoRow == {"absent", "deleted"}   \* not inserted yet, or soft-deleted

TypeOK ==
  /\ requestState \in RequestStates \cup {"none"}
  /\ layerState \in [Layers -> LayerStates \cup NoRow]
  /\ iterationCount \in [Layers -> 0..MaxIteration]

Live(state) == { l \in Layers : state[l] \in LayerStates }

AllLiveIn(state, S) == \A l \in Live(state) : state[l] \in S

SetAll(state, S, value) == [l \in Layers |-> IF l \in S THEN value ELSE state[l]]

-----------------------------------------------------------------------------
(* Intake: the applicant, the applicant's manager and the CISO.            *)

\* createAssessmentRequest: the request is committed first, then each layer
\* in a transaction of its own, so any part of them may be missing.
CreateRequest ==
  /\ requestState = "none"
  /\ \E first \in {"draft", "submitted"}, created \in SUBSET Layers :
       /\ requestState' = first
       /\ layerState' = SetAll(layerState, created, "initiated")
  /\ UNCHANGED iterationCount

\* updateAssessmentRequestStatusByActionMyTeam, and the same look-up and
\* update at the head of updateAssessmentRequestStatusByAction.
MoveRequest ==
  /\ \E action \in { "InitiatedRegister", "DraftRegister", "SubmittedApprove",
                     "SubmittedDecline", "ApprovedDisapprove" } :
       requestState' \in NextStates(RequestTransitions, action, requestState)
  /\ UNCHANGED <<layerState, iterationCount>>

\* Mutant of AcceptRequest: the layers get the state found for the request.
AcceptRequestSameState ==
  /\ requestState' \in
       NextStates(RequestTransitions, "ApprovedAccept", requestState)
  /\ layerState' = SetAll(layerState, Live(layerState), requestState')
  /\ UNCHANGED iterationCount

\* updateAssessmentRequestStatusByAction with ApprovedAccept: the request is
\* accepted at once; the layers follow by an update that is not awaited, of
\* all rows, to what the table says for the FIRST of them.
AcceptRequest ==
  /\ requestState' \in
       NextStates(RequestTransitions, "ApprovedAccept", requestState)
  /\ \/ \E first \in Live(layerState) :
          \E next \in NextStates(LayerTransitions, "InitiatedRegister",
                                 layerState[first]) :
            layerState' = SetAll(layerState, Live(layerState), next)
     \/ UNCHANGED layerState   \* no layer, no transition, or the update lost
  /\ UNCHANGED iterationCount

\* Mutant of EditRequest: new layers start like those of a new request.
EditRequestInitiated ==
  /\ \E removed \in SUBSET Live(layerState),
        added \in SUBSET { l \in Layers : layerState[l] = "absent" } :
       layerState' = SetAll(SetAll(layerState, removed, "deleted"),
                            added, "initiated")
  /\ Live(layerState) # {}
  /\ UNCHANGED <<requestState, iterationCount>>

\* updateAssessmentRequest (PATCH assessment/requests/:id): no look at the
\* state of the request.  Layers of types no longer listed are soft-deleted;
\* new ones start in the state of layers[0], and none if there is no layers[0].
EditRequest ==
  /\ \E first \in Live(layerState),
        removed \in SUBSET Live(layerState),
        added \in SUBSET { l \in Layers : layerState[l] = "absent" } :
       layerState' = SetAll(SetAll(layerState, removed, "deleted"),
                            added, layerState[first])
  /\ UNCHANGED <<requestState, iterationCount>>

-----------------------------------------------------------------------------
(* Team formation: the CISO, the SAMs and the supervisors.                 *)

\* Every layer of the data list takes the transition of the action its element
\* names.  The guard compares a top-level action only, so an element may name
\* any action of the layer table; the request is left alone.  Each element
\* reads its layer outside the transaction, so one listed twice takes a
\* transition of its committed state too.
MoveListed ==
  /\ \E listed \in (SUBSET Live(layerState)) \ {{}} :
       \E next \in [listed -> LayerStates] :
         /\ \A l \in listed : \E row \in LayerTransitions :
              row[1] = layerState[l] /\ row[3] = next[l]
         /\ layerState' = [l \in Layers |-> IF l \in listed THEN next[l]
                                            ELSE layerState[l]]
  /\ UNCHANGED <<requestState, iterationCount>>

AddSAM == MoveListed

AddSupervisor == MoveListed

\* What the two saves of addAuditors write when the listed layers move to
\* next: when that makes all layers of the request alike they become
\* "onboarding" and the request "groupReady".  The layers are saved without
\* await, so any part of these writes may be lost.
SaveAuditors(listed, next) ==
  LET moved == SetAll(layerState, listed, next)
      all   == AllLiveIn(moved, {next})
      final == IF all
               THEN SetAll(moved, Live(moved), "onboarding")
               ELSE moved
  IN  /\ requestState' = IF all THEN "groupReady" ELSE requestState
      /\ \E landed \in SUBSET Live(layerState) :
           layerState' = [l \in Layers |-> IF l \in landed THEN final[l]
                                           ELSE layerState[l]]

\* addAuditors: only the first listed layer is looked up in the table, the
\* others take its next state from any state.
AddAuditors ==
  /\ \E listed \in SUBSET Live(layerState) : \E first \in listed :
       \E next \in NextStates(LayerTransitions,
                     "SupervisedAssignAllTeamsAuditors", layerState[first]) :
         SaveAuditors(listed, next)
  /\ UNCHANGED iterationCount

-----------------------------------------------------------------------------
(* Analysis: the applicant fills the specs, auditors, supervisors and SAMs *)
(* work on each layer, and the request follows its layers.                 *)

\* One layer takes the transition of an action of the layer table.
MoveLayer(l, action) ==
  \E next \in NextStates(LayerTransitions, action, layerState[l]) :
    layerState' = [layerState EXCEPT ![l] = next]

\* updateRequestIfAllLayersAccepted, over the layers the step leaves: the
\* request takes its transition when all layers are where they are expected;
\* with no such transition the handler throws and nothing happens.
RequestFollows(expected, action) ==
  IF AllLiveIn(layerState', expected)
  THEN requestState' \in NextStates(RequestTransitions, action, requestState)
  ELSE UNCHANGED requestState

\* Mutant of FinalizeSpec: no nextActions, so a layer that went on is missed.
FinalizeSpecAlone(l) ==
  /\ MoveLayer(l, "OnboardingFinalizeSpecs")
  /\ RequestFollows({layerState'[l]}, "GroupReadyFinalizeSpecs")
  /\ UNCHANGED iterationCount

\* assessmentLayerFinalizeSpec, when the specs are complete.
FinalizeSpec(l) ==
  /\ MoveLayer(l, "OnboardingFinalizeSpecs")
  /\ RequestFollows(ExpectedStates(layerState'[l], ActionsAfterSpecs),
                    "GroupReadyFinalizeSpecs")
  /\ UNCHANGED iterationCount

\* provideTestCases: it moves the layer whatever the state of the request.
ProvideTestCases(l) ==
  /\ MoveLayer(l, "PendingLayerTestcasesSubmit")
  /\ UNCHANGED <<requestState, iterationCount>>

\* The actions of provide-status-reported/:id that move the layer only.
ReviewActions ==
  { "LayerAssessmentReviewNeedModifications", "LayerAssessmentCompletedAccept",
    "LayerAssessmentCompletedFeedback", "LayerReportIssuedRemark",
    "LayerReportIssuedRefer", "RemediateLayerVulnerabilitiesDecline",
    "RemediateLayerVulnerabilitiesFinalize", "ReviewLayerRemediatesReject",
    "ReviewLayerRemediatesApprove", "LayerReEvaluationRequestedReject",
    "LayerReEvaluationRequestedAccept", "LayerAssessmentReviewAcceptBySAM",
    "LayerAssessmentReviewNeedModificationsBySAM" }

\* provideStatusReported with one of them.
Review(l) ==
  /\ \E action \in ReviewActions : MoveLayer(l, action)
  /\ UNCHANGED <<requestState, iterationCount>>

\* ... with LayerAssessmentReviewAccept, which also counts the iteration.
IssueReport(l) ==
  /\ iterationCount[l] < MaxIteration
  /\ MoveLayer(l, "LayerAssessmentReviewAccept")
  /\ iterationCount' = [iterationCount EXCEPT ![l] = @ + 1]
  /\ UNCHANGED requestState

\* Mutant of Finish: it passes the nextActions of assessmentLayerFinalizeSpec.
FinishWithNextActions(l) ==
  /\ MoveLayer(l, "LayerAssessmentReviewFinish")
  /\ RequestFollows(ExpectedStates(layerState'[l], ActionsAfterSpecs),
                    "UnderAnalysisWrapUp")
  /\ UNCHANGED iterationCount

\* ... with LayerAssessmentReviewFinish.
Finish(l) ==
  /\ MoveLayer(l, "LayerAssessmentReviewFinish")
  /\ RequestFollows({layerState'[l]}, "UnderAnalysisWrapUp")
  /\ UNCHANGED iterationCount

\* Mutant of Reinstate: the request goes back whatever its state was.
ReinstateAnyRequest ==
  /\ \E l \in Live(layerState) :
       MoveLayer(l, "LayerAssessmentFulfilledReinstate")
  /\ requestState' = "underAnalysis"
  /\ UNCHANGED iterationCount

\* ... with LayerAssessmentFulfilledReinstate (one layer), and
\* updateMultipleLayersByAction, which accepts that action only.
Reinstate ==
  /\ \E listed \in (SUBSET Live(layerState)) \ {{}}, state \in LayerStates :
       /\ \A l \in listed : layerState[l] = state
       /\ \E next \in NextStates(LayerTransitions,
                        "LayerAssessmentFulfilledReinstate", state) :
            layerState' = SetAll(layerState, listed, next)
  /\ IF requestState = "statusReported"
     THEN requestState' \in
            NextStates(RequestTransitions, "StatusReportedNeedChanges",
                       requestState)
     ELSE UNCHANGED requestState
  /\ UNCHANGED iterationCount

\* provideReEvaluationRequested with Reject: the branch that would move the
\* request needs its state "reEvaluationRequested", which no row leads to.
RejectReEvaluation(l) ==
  /\ MoveLayer(l, "LayerReEvaluationRequestedReject")
  /\ UNCHANGED <<requestState, iterationCount>>

\* ... with Accept: RequestFollows asks the request table for an action that
\* only the layer process has, so it throws once all layers would be pending.
AcceptReEvaluation(l) ==
  /\ MoveLayer(l, "LayerReEvaluationRequestedAccept")
  /\ RequestFollows({layerState'[l]}, "LayerReEvaluationRequestedAccept")
  /\ UNCHANGED iterationCount

\* requestClosure.
CloseRequest ==
  /\ requestState' \in
       NextStates(RequestTransitions, "StatusReportedFinalize", requestState)
  /\ UNCHANGED <<layerState, iterationCount>>

\* updateAssessmentRequestStatusByAction with ClosedReopen.
ReopenRequest ==
  /\ requestState' \in
       NextStates(RequestTransitions, "ClosedReopen", requestState)
  /\ UNCHANGED <<layerState, iterationCount>>

-----------------------------------------------------------------------------
Init ==
  /\ requestState = "none"
  /\ layerState = [l \in Layers |-> "absent"]
  /\ iterationCount = [l \in Layers |-> 0]

Intake == CreateRequest \/ MoveRequest \/ AcceptRequest \/ EditRequest

Formation == AddSAM \/ AddSupervisor \/ AddAuditors

Analysis ==
  \/ \E l \in Layers : \/ FinalizeSpec(l)
                       \/ ProvideTestCases(l)
                       \/ Review(l)
                       \/ IssueReport(l)
                       \/ Finish(l)
                       \/ RejectReEvaluation(l)
                       \/ AcceptReEvaluation(l)
  \/ Reinstate
  \/ CloseRequest
  \/ ReopenRequest

Next == Intake \/ Formation \/ Analysis

Spec == Init /\ [][Next]_vars

\* The analysis alone, from a request whose team was just formed.
FormedInit ==
  /\ requestState = "groupReady"
  /\ layerState \in { SetAll([l \in Layers |-> "absent"], created, "onboarding") :
                        created \in (SUBSET Layers) \ {{}} }
  /\ iterationCount = [l \in Layers |-> 0]

AnalysisSpec == FormedInit /\ [][Analysis]_vars

-----------------------------------------------------------------------------
(* What the workflow promises.                                             *)

\* The request states after the specs of every layer are complete.
AnalysedStates == {"underAnalysis", "statusReported", "closed"}

\* Request and layers agree on the phase.  Before the team of a request is
\* ready none of its layers is onboarding or evaluated, although add-sam and
\* add-supervisor move layers by any action of the table and without a look at
\* the request: no row leads to "onboarding", only addAuditors does, with the
\* request.  Once the request is under analysis every layer's specs are final
\* (FinalizeSpec), and no later step of anybody, editing included, brings an
\* unevaluated layer back.
PhaseInvariant ==
  /\ requestState = "none" => Live(layerState) = {}
  /\ requestState # "initiated"   \* the table's source, never stored
  /\ requestState \in {"draft", "submitted", "approved", "accepted"}
       => AllLiveIn(layerState, FormationStates \ {"onboarding"})
  /\ requestState \in AnalysedStates => AllLiveIn(layerState, EvaluationStates)

\* A request is reported (UnderAnalysisWrapUp) only with all layers fulfilled.
ReportedOnlyWhenFulfilled ==
  [][ requestState = "underAnalysis" /\ requestState' = "statusReported"
      => AllLiveIn(layerState', {"layerAssessmentFulfilled"}) ]_vars

\* The assessmentLayerFinalizeSpec that leaves no layer to complete starts the
\* analysis, whichever of the layers it is, however far the others got since
\* and by whatever endpoint they got there.
LastSpecStartsAnalysis ==
  [][ /\ requestState = "groupReady"
      /\ \E l \in Layers : FinalizeSpec(l)
      /\ AllLiveIn(layerState', EvaluationStates)
      => requestState' = "underAnalysis" ]_vars

\* A request leaves "closed" only by ReopenRequest: no work on a layer of a
\* closed request, which the code does not forbid, touches the request.
ClosedIsLeftByReopening ==
  [][ requestState = "closed" /\ requestState' # "closed"
      => requestState' = "statusReported" /\ UNCHANGED layerState ]_vars

\* The PATCH endpoint is documented as the actions DraftModify, ApprovedModify
\* and SubmittedModify (assessment.controller.ts), which the table has in those
\* three states only: the layers of a request change by it in no other state.
EditOnlyWhileModifiable ==
  [][ EditRequest /\ layerState' # layerState
      => requestState \in {"draft", "submitted", "approved"} ]_vars
=============================================================================
