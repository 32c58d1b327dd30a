---------------------- MODULE AssessmentWorkflowProofs ----------------------
(***************************************************************************)
(* AssessmentWorkflow, for any set of layers and any bound of iterations:  *)
(* type correctness, the agreement of phases, and what a step may do to a  *)
(* request.                                                                *)
(***************************************************************************)
EXTENDS AssessmentWorkflow, TLAPS

\* The tables lead to states of their own process.
LEMMA RequestRows ==
  ASSUME NEW a, NEW s, NEW n \in NextStates(RequestTransitions, a, s)
  PROVE  n \in RequestStates
BY DEF NextStates, RequestTransitions, RequestStates

\* ... and those of the layers to states of a layer.
LEMMA LayerRows ==
  ASSUME NEW a, NEW s, NEW n \in NextStates(LayerTransitions, a, s)
  PROVE  n \in LayerStates
BY DEF NextStates, LayerTransitions, FormationTransitions, AnalysisTransitions,
       LayerStates, FormationStates, EvaluationStates

\* A step that moves single rows by the table keeps the types.
LEMMA SetAllType ==
  ASSUME NEW state \in [Layers -> LayerStates \cup NoRow], NEW S,
         NEW value \in LayerStates \cup NoRow
  PROVE  SetAll(state, S, value) \in [Layers -> LayerStates \cup NoRow]
BY DEF SetAll

\* So does the move of one layer.
LEMMA MoveLayerType ==
  ASSUME TypeOK, NEW l \in Layers, NEW a, MoveLayer(l, a)
  PROVE  layerState' \in [Layers -> LayerStates \cup NoRow]
BY LayerRows DEF TypeOK, MoveLayer

\* Whatever part of the writes lands, the rows keep their types.
LEMMA SaveAuditorsType ==
  ASSUME TypeOK, NEW listed, NEW next \in LayerStates, SaveAuditors(listed, next)
  PROVE  /\ requestState' \in RequestStates \cup {"none"}
         /\ layerState' \in [Layers -> LayerStates \cup NoRow]
<1> DEFINE moved == SetAll(layerState, listed, next)
           onboarded == SetAll(moved, Live(moved), "onboarding")
           final == IF AllLiveIn(moved, {next}) THEN onboarded ELSE moved
<1>1. moved \in [Layers -> LayerStates \cup NoRow]
  BY SetAllType DEF TypeOK
<1>2. onboarded \in [Layers -> LayerStates \cup NoRow]
  BY <1>1, SetAllType DEF LayerStates, FormationStates
<1>3. final \in [Layers -> LayerStates \cup NoRow]
  BY <1>1, <1>2
<1>4. \E landed \in SUBSET Live(layerState) :
        layerState' = [l \in Layers |-> IF l \in landed THEN final[l]
                                        ELSE layerState[l]]
  BY DEF SaveAuditors
<1>5. layerState' \in [Layers -> LayerStates \cup NoRow]
  <2> HIDE DEF final
  <2> QED BY <1>3, <1>4 DEF TypeOK
<1>6. QED
  BY <1>5 DEF SaveAuditors, TypeOK, RequestStates

\* Init establishes and every endpoint keeps the types of the rows.
THEOREM Typing == Spec => []TypeOK
<1>1. Init => TypeOK
  BY MaxIterationAssumption DEF Init, TypeOK, NoRow
<1>2. TypeOK /\ [Next]_vars => TypeOK'
  <2> SUFFICES ASSUME TypeOK, [Next]_vars PROVE TypeOK'
    OBVIOUS
  <2>1. CASE UNCHANGED vars
    BY <2>1 DEF vars, TypeOK
  <2>2. CASE CreateRequest
    BY <2>2, SetAllType DEF CreateRequest, TypeOK, RequestStates, LayerStates,
       FormationStates
  <2>3. CASE MoveRequest
    BY <2>3, RequestRows DEF MoveRequest, TypeOK
  <2>4. CASE AcceptRequest
    BY <2>4, RequestRows, LayerRows, SetAllType DEF AcceptRequest, TypeOK
  <2>5. CASE EditRequest
    BY <2>5, SetAllType DEF EditRequest, TypeOK, NoRow, Live
  <2>6. CASE MoveListed
    BY <2>6 DEF MoveListed, TypeOK
  <2>7. CASE AddAuditors
    <3>1. PICK listed \in SUBSET Live(layerState) : \E first \in listed :
            \E next \in NextStates(LayerTransitions,
                          "SupervisedAssignAllTeamsAuditors", layerState[first]) :
              SaveAuditors(listed, next)
      BY <2>7 DEF AddAuditors
    <3>2. PICK first \in listed :
            \E next \in NextStates(LayerTransitions,
                          "SupervisedAssignAllTeamsAuditors", layerState[first]) :
              SaveAuditors(listed, next)
      BY <3>1
    <3>3. PICK next \in NextStates(LayerTransitions,
                          "SupervisedAssignAllTeamsAuditors", layerState[first]) :
            SaveAuditors(listed, next)
      BY <3>2
    <3>4. next \in LayerStates
      BY LayerRows
    <3>5. QED
      BY <2>7, <3>3, <3>4, SaveAuditorsType DEF AddAuditors, TypeOK
  <2>8. ASSUME NEW l \in Layers,
               \/ FinalizeSpec(l) \/ ProvideTestCases(l) \/ Review(l)
               \/ IssueReport(l) \/ Finish(l)
               \/ RejectReEvaluation(l) \/ AcceptReEvaluation(l)
        PROVE  TypeOK'
    <3>1. layerState' \in [Layers -> LayerStates \cup NoRow]
      BY <2>8, MoveLayerType
      DEF FinalizeSpec, ProvideTestCases, Review, IssueReport, Finish,
          RejectReEvaluation, AcceptReEvaluation
    <3>2. requestState' \in RequestStates \cup {"none"}
      BY <2>8, RequestRows
      DEF FinalizeSpec, ProvideTestCases, Review, IssueReport, Finish,
          RejectReEvaluation, AcceptReEvaluation, RequestFollows, TypeOK
    <3>3. iterationCount' \in [Layers -> 0..MaxIteration]
      BY <2>8, MaxIterationAssumption
      DEF FinalizeSpec, ProvideTestCases, Review, IssueReport, Finish,
          RejectReEvaluation, AcceptReEvaluation, TypeOK
    <3>4. QED
      BY <3>1, <3>2, <3>3 DEF TypeOK
  <2>9. CASE Reinstate
    BY <2>9, RequestRows, LayerRows, SetAllType DEF Reinstate, TypeOK
  <2>10. CASE CloseRequest \/ ReopenRequest
    BY <2>10, RequestRows DEF CloseRequest, ReopenRequest, TypeOK
  <2>11. QED
    BY <2>1, <2>2, <2>3, <2>4, <2>5, <2>6, <2>7, <2>8, <2>9, <2>10
    DEF Next, Intake, Formation, Analysis, AddSAM, AddSupervisor
<1>3. QED
  BY <1>1, <1>2, PTL DEF Spec

-----------------------------------------------------------------------------
(* The agreement of phases.                                                *)

\* The states of a request in its intake.
IntakeStates == {"draft", "submitted", "approved"}

\* An action of the intake stays in it.
LEMMA IntakeRow ==
  ASSUME NEW a \in { "InitiatedRegister", "DraftRegister", "SubmittedApprove",
                     "SubmittedDecline", "ApprovedDisapprove" },
         NEW s, NEW n \in NextStates(RequestTransitions, a, s)
  PROVE  n \in IntakeStates /\ (s = "initiated" \/ s \in IntakeStates)
BY DEF NextStates, RequestTransitions, IntakeStates

\* After the specs, no action of a handler leads the request out of, or into,
\* the analysed states.
LEMMA AnalysisRow ==
  ASSUME NEW a \in { "StatusReportedFinalize", "ClosedReopen",
                     "StatusReportedNeedChanges", "UnderAnalysisWrapUp",
                     "LayerReEvaluationRequestedAccept" },
         NEW s, NEW n \in NextStates(RequestTransitions, a, s)
  PROVE  n \in AnalysedStates /\ s \in AnalysedStates
BY DEF NextStates, RequestTransitions, AnalysedStates

\* ... and the end of the specs leads from groupReady into them.
LEMMA SpecsRow ==
  ASSUME NEW s,
         NEW n \in NextStates(RequestTransitions, "GroupReadyFinalizeSpecs", s)
  PROVE  n \in AnalysedStates
BY DEF NextStates, RequestTransitions, AnalysedStates

\* Acceptance leads from approved to accepted, and layers to approved.
LEMMA AcceptRow ==
  ASSUME NEW s, NEW n \in NextStates(RequestTransitions, "ApprovedAccept", s)
  PROVE  s = "approved" /\ n = "accepted"
BY DEF NextStates, RequestTransitions

\* ... whichever state the first layer is in.
LEMMA RegisterRow ==
  ASSUME NEW s,
         NEW n \in NextStates(LayerTransitions, "InitiatedRegister", s)
  PROVE  n = "approved"
BY DEF NextStates, LayerTransitions, FormationTransitions, AnalysisTransitions

\* No row of the layer table leads to onboarding or out of the evaluation, and
\* only the end of the specs leads into the evaluation.
LEMMA RowPhases ==
  ASSUME NEW row \in LayerTransitions
  PROVE  /\ row[3] \in LayerStates \ {"onboarding"}
         /\ row[1] \in EvaluationStates => row[3] \in EvaluationStates
         /\ row[1] \in FormationStates \ {"onboarding"}
              => row[3] \in FormationStates \ {"onboarding"}
<1>1. CASE row \in FormationTransitions
  BY <1>1 DEF FormationTransitions, LayerStates, FormationStates, EvaluationStates
<1>2. CASE row \in AnalysisTransitions
  BY <1>2 DEF AnalysisTransitions, LayerStates, FormationStates, EvaluationStates
<1> QED  BY <1>1, <1>2 DEF LayerTransitions

\* addAuditors looks up the end of the formation of a supervised layer.
LEMMA AuditorsRow ==
  ASSUME NEW s, NEW n \in NextStates(LayerTransitions,
                            "SupervisedAssignAllTeamsAuditors", s)
  PROVE  s = "supervised" /\ n = "groupReady"
BY DEF NextStates, LayerTransitions, FormationTransitions, AnalysisTransitions

\* The actions of the analysis on a layer but the first.
EvaluationActions ==
  ReviewActions \cup { "PendingLayerTestcasesSubmit",
                       "LayerAssessmentReviewAccept",
                       "LayerAssessmentReviewFinish",
                       "LayerAssessmentFulfilledReinstate" }

\* None of these actions enters or leaves the evaluation.
LEMMA EvaluationRow ==
  ASSUME NEW a \in EvaluationActions, NEW s,
         NEW n \in NextStates(LayerTransitions, a, s)
  PROVE  n \in EvaluationStates /\ s \in EvaluationStates
<1>1. PICK row \in LayerTransitions : row[1] = s /\ row[2] = a /\ row[3] = n
  BY DEF NextStates
<1>2. row \notin FormationTransitions
  BY <1>1 DEF FormationTransitions, EvaluationActions, ReviewActions
<1>3. row \in AnalysisTransitions /\ row[2] # "OnboardingFinalizeSpecs"
  BY <1>1, <1>2 DEF LayerTransitions, EvaluationActions, ReviewActions
<1>4. QED
  BY <1>1, <1>3 DEF AnalysisTransitions, EvaluationStates

\* Specs are finalized by a layer in onboarding only.
LEMMA OnboardingRow ==
  ASSUME NEW s,
         NEW n \in NextStates(LayerTransitions, "OnboardingFinalizeSpecs", s)
  PROVE  s = "onboarding" /\ n = "pendingLayerTestcases"
BY DEF NextStates, LayerTransitions, FormationTransitions, AnalysisTransitions

\* The states awaited at the end of the specs are evaluation states.
LEMMA LaterTargets ==
  ASSUME NEW n \in TargetsOf(ActionsAfterSpecs)
  PROVE  n \in EvaluationStates
<1>1. ActionsAfterSpecs \subseteq EvaluationActions
  BY DEF ActionsAfterSpecs, EvaluationActions, ReviewActions
<1>2. PICK a \in ActionsAfterSpecs : n \in AllNextStates(LayerTransitions, a)
  BY DEF TargetsOf
<1>3. PICK row \in LayerTransitions : row[2] = a /\ row[3] = n
  BY <1>2 DEF AllNextStates
<1>4. n \in NextStates(LayerTransitions, a, row[1])
  BY <1>3 DEF NextStates
<1>5. QED
  BY <1>1, <1>2, <1>4, EvaluationRow

\* The states of a request whose team is not ready.
EarlyStates == IntakeStates \cup {"accepted"}

\* A layer in an evaluation state has a request past the formation, and a layer
\* being formed one that is not yet analysed.
LEMMA PhaseOfRequest ==
  ASSUME TypeOK, PhaseInvariant, NEW l \in Live(layerState)
  PROVE  /\ layerState[l] \in EvaluationStates \cup {"onboarding"}
              => requestState \in AnalysedStates \cup {"groupReady"}
         /\ layerState[l] \in FormationStates
              => requestState \in EarlyStates \cup {"groupReady"}
BY DEF TypeOK, PhaseInvariant, AllLiveIn, Live, RequestStates, LayerStates,
   FormationStates, EvaluationStates, AnalysedStates, EarlyStates, IntakeStates

\* A layer that moves within the evaluation keeps the phases in agreement when
\* its request stays, or moves among the analysed states.
LEMMA EvaluationStep ==
  ASSUME TypeOK, PhaseInvariant, NEW l \in Layers, NEW a \in EvaluationActions,
         MoveLayer(l, a),
         \/ UNCHANGED requestState
         \/ requestState \in AnalysedStates /\ requestState' \in AnalysedStates
  PROVE  PhaseInvariant'
<1>1. PICK n \in NextStates(LayerTransitions, a, layerState[l]) :
        layerState' = [layerState EXCEPT ![l] = n]
  BY DEF MoveLayer
<1>2. n \in EvaluationStates /\ layerState[l] \in EvaluationStates
  BY EvaluationRow
<1>3. l \in Live(layerState)
  BY <1>2 DEF Live, LayerStates
<1>4. requestState' \in AnalysedStates \cup {"groupReady"}
  BY <1>2, <1>3, PhaseOfRequest
<1>5. requestState' \in AnalysedStates => requestState \in AnalysedStates
  BY DEF AnalysedStates
<1>6. requestState' \in AnalysedStates
        => AllLiveIn(layerState', EvaluationStates)
  BY <1>1, <1>2, <1>3, <1>5 DEF PhaseInvariant, AllLiveIn, Live, TypeOK
<1>7. QED
  BY <1>4, <1>6 DEF PhaseInvariant, AnalysedStates

\* No endpoint lets the phases of the request and of its layers part.
THEOREM Phases == Spec => []PhaseInvariant
<1>1. Init => PhaseInvariant
  BY DEF Init, PhaseInvariant, Live, LayerStates, FormationStates,
     EvaluationStates, AnalysedStates
<1>2. TypeOK /\ PhaseInvariant /\ [Next]_vars => PhaseInvariant'
  <2> SUFFICES ASSUME TypeOK, PhaseInvariant, [Next]_vars
               PROVE  PhaseInvariant'
    OBVIOUS
  <2>1. CASE UNCHANGED vars
    BY <2>1 DEF vars, PhaseInvariant, AllLiveIn, Live
  <2>2. CASE CreateRequest
    BY <2>2 DEF CreateRequest, SetAll, PhaseInvariant, AllLiveIn, Live,
       LayerStates, FormationStates, AnalysedStates, TypeOK
  <2>3. CASE MoveRequest
    <3>1. requestState \in IntakeStates /\ requestState' \in IntakeStates
      BY <2>3, IntakeRow DEF MoveRequest, PhaseInvariant
    <3>2. QED
      BY <2>3, <3>1 DEF MoveRequest, PhaseInvariant, AllLiveIn, Live,
         IntakeStates, AnalysedStates
  <2>4. CASE AcceptRequest
    <3>1. requestState = "approved" /\ requestState' = "accepted"
      BY <2>4, AcceptRow DEF AcceptRequest
    <3>2. AllLiveIn(layerState, FormationStates \ {"onboarding"})
      BY <3>1 DEF PhaseInvariant
    <3>3. layerState' = layerState
            \/ layerState' = SetAll(layerState, Live(layerState), "approved")
      BY <2>4, RegisterRow DEF AcceptRequest
    <3>4. AllLiveIn(layerState', FormationStates \ {"onboarding"})
      BY <3>2, <3>3 DEF TypeOK, AllLiveIn, Live, SetAll, LayerStates,
         FormationStates, EvaluationStates, NoRow
    <3>5. QED
      BY <3>1, <3>4 DEF PhaseInvariant, AnalysedStates
  <2>5. CASE EditRequest
    <3>1. requestState' = requestState /\ requestState # "none"
      BY <2>5 DEF EditRequest, PhaseInvariant
    <3>2. ASSUME NEW l \in Live(layerState')
          PROVE  \E first \in Live(layerState) :
                   layerState'[l] = layerState[first]
      BY <2>5 DEF EditRequest, SetAll, Live, TypeOK, LayerStates, NoRow,
         FormationStates, EvaluationStates
    <3>3. ASSUME NEW S, AllLiveIn(layerState, S)
          PROVE  AllLiveIn(layerState', S)
      BY <3>2, <3>3 DEF AllLiveIn
    <3>4. QED
      BY <3>1, <3>3 DEF PhaseInvariant
  <2>6. CASE MoveListed
    <3>1. PICK listed \in (SUBSET Live(layerState)) \ {{}} :
            \E next \in [listed -> LayerStates] :
              /\ \A l \in listed : \E row \in LayerTransitions :
                   row[1] = layerState[l] /\ row[3] = next[l]
              /\ layerState' = [l \in Layers |-> IF l \in listed THEN next[l]
                                                 ELSE layerState[l]]
      BY <2>6 DEF MoveListed
    <3>2. \A l \in listed :
            /\ l \in Live(layerState)
            /\ \E row \in LayerTransitions :
                 row[1] = layerState[l] /\ row[3] = layerState'[l]
      BY <3>1 DEF Live
    <3>3. \A l \in Layers \ listed : layerState'[l] = layerState[l]
      BY <3>1 DEF Live
    <3>4. UNCHANGED requestState /\ requestState # "none"
      BY <2>6 DEF MoveListed, PhaseInvariant
    <3>5. ASSUME AllLiveIn(layerState, EvaluationStates)
          PROVE  AllLiveIn(layerState', EvaluationStates)
      BY <3>2, <3>3, <3>5, RowPhases DEF AllLiveIn, Live
    <3>6. ASSUME AllLiveIn(layerState, FormationStates \ {"onboarding"})
          PROVE  AllLiveIn(layerState', FormationStates \ {"onboarding"})
      BY <3>2, <3>3, <3>6, RowPhases DEF AllLiveIn, Live
    <3> QED
      BY <3>4, <3>5, <3>6 DEF PhaseInvariant
  <2>7. CASE AddAuditors
    <3>1. PICK listed \in SUBSET Live(layerState) : \E first \in listed :
            \E next \in NextStates(LayerTransitions,
                          "SupervisedAssignAllTeamsAuditors", layerState[first]) :
              SaveAuditors(listed, next)
      BY <2>7 DEF AddAuditors
    <3>2. PICK first \in listed :
            \E next \in NextStates(LayerTransitions,
                          "SupervisedAssignAllTeamsAuditors", layerState[first]) :
              SaveAuditors(listed, next)
      BY <3>1
    <3>3. PICK next \in NextStates(LayerTransitions,
                          "SupervisedAssignAllTeamsAuditors", layerState[first]) :
            SaveAuditors(listed, next)
      BY <3>2
    <3>4. layerState[first] = "supervised" /\ next = "groupReady"
      BY AuditorsRow
    <3>5. requestState \in EarlyStates \cup {"groupReady"}
      BY <3>4, PhaseOfRequest DEF FormationStates
    <3>6. CASE requestState' = "groupReady"
      BY <3>6 DEF PhaseInvariant, AnalysedStates
    <3>7. CASE requestState' # "groupReady"
      <4> DEFINE moved == SetAll(layerState, listed, next)
      <4>1. requestState' = requestState /\ requestState \in EarlyStates
        BY <3>3, <3>5, <3>7 DEF SaveAuditors
      <4>2. ~ AllLiveIn(moved, {next})
        BY <3>3, <3>7 DEF SaveAuditors
      <4>3. \E landed \in SUBSET Live(layerState) :
              layerState' = [l \in Layers |-> IF l \in landed THEN moved[l]
                                              ELSE layerState[l]]
        BY <3>3, <4>2 DEF SaveAuditors
      <4>4. \A l \in Layers : layerState'[l] = layerState[l]
                                \/ (l \in Live(layerState) /\ layerState'[l] = next)
        BY <4>3 DEF SetAll
      <4>5. AllLiveIn(layerState, FormationStates \ {"onboarding"})
        BY <4>1 DEF PhaseInvariant, EarlyStates, IntakeStates
      <4>6. AllLiveIn(layerState', FormationStates \ {"onboarding"})
        BY <4>4, <4>5, <3>4 DEF AllLiveIn, Live, FormationStates
      <4>7. QED
        BY <4>1, <4>6 DEF PhaseInvariant, AnalysedStates, EarlyStates, IntakeStates
    <3>8. QED
      BY <3>6, <3>7
  <2>8. ASSUME NEW l \in Layers, FinalizeSpec(l) PROVE PhaseInvariant'
    <3>1. PICK n \in NextStates(LayerTransitions, "OnboardingFinalizeSpecs",
                                layerState[l]) :
            layerState' = [layerState EXCEPT ![l] = n]
      BY <2>8 DEF FinalizeSpec, MoveLayer
    <3>2. layerState[l] = "onboarding" /\ n = "pendingLayerTestcases"
      BY OnboardingRow
    <3>3. requestState = "groupReady"
      BY <3>2, PhaseOfRequest DEF Live, LayerStates, FormationStates,
         AnalysedStates, EarlyStates, IntakeStates
    <3>4. layerState'[l] = n
      BY <3>1 DEF TypeOK
    <3>5. ExpectedStates(n, ActionsAfterSpecs) \subseteq EvaluationStates
      BY <3>2, LaterTargets DEF ExpectedStates, EvaluationStates
    <3>6. CASE AllLiveIn(layerState', ExpectedStates(n, ActionsAfterSpecs))
      <4>1. requestState' \in AnalysedStates
        BY <2>8, <3>4, <3>6, SpecsRow DEF FinalizeSpec, RequestFollows
      <4>2. AllLiveIn(layerState', EvaluationStates)
        BY <3>5, <3>6 DEF AllLiveIn
      <4>3. QED
        BY <4>1, <4>2 DEF PhaseInvariant, AnalysedStates
    <3>7. CASE ~ AllLiveIn(layerState', ExpectedStates(n, ActionsAfterSpecs))
      <4>1. requestState' = "groupReady"
        BY <2>8, <3>3, <3>4, <3>7 DEF FinalizeSpec, RequestFollows
      <4>2. QED
        BY <4>1 DEF PhaseInvariant, AnalysedStates
    <3>8. QED
      BY <3>6, <3>7
  <2>9. ASSUME NEW l \in Layers,
               \/ ProvideTestCases(l) \/ Review(l) \/ IssueReport(l)
               \/ RejectReEvaluation(l)
        PROVE  PhaseInvariant'
    <3>1. UNCHANGED requestState /\ \E a \in EvaluationActions : MoveLayer(l, a)
      BY <2>9 DEF ProvideTestCases, Review, IssueReport, RejectReEvaluation,
         EvaluationActions, ReviewActions
    <3>2. QED
      BY <3>1, EvaluationStep
  <2>10. ASSUME NEW l \in Layers, Finish(l) \/ AcceptReEvaluation(l)
         PROVE  PhaseInvariant'
    <3>1. \E a \in EvaluationActions : MoveLayer(l, a)
      BY <2>10 DEF Finish, AcceptReEvaluation, EvaluationActions, ReviewActions
    <3>2. \/ UNCHANGED requestState
          \/ requestState \in AnalysedStates /\ requestState' \in AnalysedStates
      BY <2>10, AnalysisRow DEF Finish, AcceptReEvaluation, RequestFollows
    <3>3. QED
      BY <3>1, <3>2, EvaluationStep
  <2>11. CASE Reinstate
    <3>1. PICK listed \in (SUBSET Live(layerState)) \ {{}}, state \in LayerStates :
            /\ \A l \in listed : layerState[l] = state
            /\ \E next \in NextStates(LayerTransitions,
                             "LayerAssessmentFulfilledReinstate", state) :
                 layerState' = SetAll(layerState, listed, next)
      BY <2>11 DEF Reinstate
    <3> PICK next \in NextStates(LayerTransitions,
                        "LayerAssessmentFulfilledReinstate", state) :
          layerState' = SetAll(layerState, listed, next)
      BY <3>1
    <3>2. state \in EvaluationStates /\ next \in EvaluationStates
      BY EvaluationRow DEF EvaluationActions
    <3>3. requestState \in AnalysedStates \cup {"groupReady"}
      BY <3>1, <3>2, PhaseOfRequest
    <3>4. \/ UNCHANGED requestState
          \/ requestState \in AnalysedStates /\ requestState' \in AnalysedStates
      BY <2>11, AnalysisRow DEF Reinstate
    <3>5. requestState \in AnalysedStates
            => AllLiveIn(layerState', EvaluationStates)
      BY <3>1, <3>2 DEF PhaseInvariant, AllLiveIn, Live, SetAll
    <3>6. QED
      BY <3>3, <3>4, <3>5 DEF PhaseInvariant, AnalysedStates
  <2>12. CASE CloseRequest \/ ReopenRequest
    <3>1. /\ requestState \in AnalysedStates /\ requestState' \in AnalysedStates
          /\ UNCHANGED layerState
      BY <2>12, AnalysisRow DEF CloseRequest, ReopenRequest
    <3>2. QED
      BY <3>1 DEF PhaseInvariant, AllLiveIn, Live, AnalysedStates
  <2>13. QED
    BY <2>1, <2>2, <2>3, <2>4, <2>5, <2>6, <2>7, <2>8, <2>9, <2>10, <2>11, <2>12
    DEF Next, Intake, Formation, Analysis, AddSAM, AddSupervisor
<1>3. QED
  BY <1>1, <1>2, Typing, PTL DEF Spec

-----------------------------------------------------------------------------
(* What a step may do to the request.                                      *)

\* The rows of the request table behind the steps of the analysis.
LEMMA RequestAnalysisRows ==
  ASSUME NEW s
  PROVE  /\ \A n \in NextStates(RequestTransitions, "GroupReadyFinalizeSpecs", s) :
              s = "groupReady" /\ n = "underAnalysis"
         /\ \A n \in NextStates(RequestTransitions, "UnderAnalysisWrapUp", s) :
              s = "underAnalysis" /\ n = "statusReported"
         /\ \A n \in NextStates(RequestTransitions, "StatusReportedNeedChanges", s) :
              s = "statusReported" /\ n = "underAnalysis"
         /\ \A n \in NextStates(RequestTransitions, "StatusReportedFinalize", s) :
              s = "statusReported" /\ n = "closed"
         /\ \A n \in NextStates(RequestTransitions, "ClosedReopen", s) :
              s = "closed" /\ n = "statusReported"
         /\ NextStates(RequestTransitions, "LayerReEvaluationRequestedAccept", s) = {}
BY DEF NextStates, RequestTransitions

\* Finish fulfils the layer.
LEMMA FinishRow ==
  ASSUME NEW s,
         NEW n \in NextStates(LayerTransitions, "LayerAssessmentReviewFinish", s)
  PROVE  n = "layerAssessmentFulfilled"
BY DEF NextStates, LayerTransitions, FormationTransitions, AnalysisTransitions

\* addAuditors leaves the request or makes it groupReady, and each layer where
\* it was or at the end of the formation.
LEMMA AuditorsStep ==
  ASSUME AddAuditors
  PROVE  /\ requestState' \in {requestState, "groupReady"}
         /\ requestState' # requestState
              => \E l \in Live(layerState) : layerState[l] = "supervised"
         /\ \A l \in Layers :
              layerState'[l] \in {layerState[l], "groupReady", "onboarding"}
<1>1. PICK listed \in SUBSET Live(layerState) : \E first \in listed :
        \E next \in NextStates(LayerTransitions,
                      "SupervisedAssignAllTeamsAuditors", layerState[first]) :
          SaveAuditors(listed, next)
  BY DEF AddAuditors
<1>2. PICK first \in listed :
        \E next \in NextStates(LayerTransitions,
                      "SupervisedAssignAllTeamsAuditors", layerState[first]) :
          SaveAuditors(listed, next)
  BY <1>1
<1>3. PICK next \in NextStates(LayerTransitions,
                      "SupervisedAssignAllTeamsAuditors", layerState[first]) :
        SaveAuditors(listed, next)
  BY <1>2
<1>4. next = "groupReady" /\ layerState[first] = "supervised"
  BY DEF NextStates, LayerTransitions, FormationTransitions, AnalysisTransitions
<1>5. \A l \in Layers :
        layerState'[l] \in {layerState[l], "groupReady", "onboarding"}
  BY <1>3, <1>4 DEF SaveAuditors, SetAll
<1> QED  BY <1>3, <1>4, <1>5 DEF SaveAuditors

\* Whoever finishes last: the request is reported with all layers fulfilled.
THEOREM ReportsAreFulfilled == Spec => ReportedOnlyWhenFulfilled
<1> DEFINE Reports == requestState = "underAnalysis" /\ requestState' = "statusReported"
<1>1. TypeOK /\ [Next]_vars
        => [Reports => AllLiveIn(layerState', {"layerAssessmentFulfilled"})]_vars
  <2> SUFFICES ASSUME TypeOK, Next, Reports
               PROVE  AllLiveIn(layerState', {"layerAssessmentFulfilled"})
    BY DEF vars
  <2>1. PICK l \in Layers : Finish(l)
    <3>1. ~ Intake
      BY IntakeRow, AcceptRow
      DEF Intake, CreateRequest, MoveRequest, AcceptRequest, EditRequest, IntakeStates
    <3>2. ~ Formation
      BY AuditorsStep DEF Formation, AddSAM, AddSupervisor, MoveListed
    <3>3. \A o \in Layers : ~ FinalizeSpec(o) /\ ~ AcceptReEvaluation(o)
      BY RequestAnalysisRows DEF FinalizeSpec, AcceptReEvaluation, RequestFollows
    <3>4. ~ Reinstate /\ ~ CloseRequest /\ ~ ReopenRequest
      BY RequestAnalysisRows DEF Reinstate, CloseRequest, ReopenRequest
    <3> QED
      BY <3>1, <3>2, <3>3, <3>4
      DEF Next, Analysis, ProvideTestCases, Review, IssueReport, RejectReEvaluation
  <2>2. layerState'[l] = "layerAssessmentFulfilled"
    BY <2>1, FinishRow DEF Finish, MoveLayer, TypeOK
  <2> QED  BY <2>1, <2>2 DEF Finish, RequestFollows
<1> QED  BY <1>1, Typing, PTL DEF Spec, ReportedOnlyWhenFulfilled

\* Whichever layer is last and however far the others got: the request of a
\* team that is ready goes under analysis with the last specs.
THEOREM LastSpecStarts == Spec => LastSpecStartsAnalysis
<1> DEFINE LastSpec == /\ requestState = "groupReady"
                       /\ \E l \in Layers : FinalizeSpec(l)
                       /\ AllLiveIn(layerState', EvaluationStates)
<1>1. EvaluationStates \subseteq
        ExpectedStates("pendingLayerTestcases", ActionsAfterSpecs)
  <2>1. ASSUME NEW row \in AnalysisTransitions, row[2] \in ActionsAfterSpecs
        PROVE  row[3] \in TargetsOf(ActionsAfterSpecs)
    BY <2>1 DEF TargetsOf, AllNextStates, LayerTransitions
  <2>2. \A s \in EvaluationStates \ {"pendingLayerTestcases"} :
          \E row \in AnalysisTransitions : row[2] \in ActionsAfterSpecs /\ row[3] = s
    BY DEF EvaluationStates, AnalysisTransitions, ActionsAfterSpecs
  <2> QED  BY <2>1, <2>2 DEF ExpectedStates
<1>2. TypeOK /\ [Next]_vars => [LastSpec => requestState' = "underAnalysis"]_vars
  <2> SUFFICES ASSUME TypeOK, LastSpec PROVE requestState' = "underAnalysis"
    BY DEF vars
  <2>1. PICK l \in Layers : FinalizeSpec(l)
    OBVIOUS
  <2>2. layerState'[l] = "pendingLayerTestcases"
    BY <2>1, OnboardingRow DEF FinalizeSpec, MoveLayer, TypeOK
  <2>3. AllLiveIn(layerState', ExpectedStates(layerState'[l], ActionsAfterSpecs))
    BY <1>1, <2>2 DEF AllLiveIn
  <2> QED  BY <2>1, <2>3, RequestAnalysisRows DEF FinalizeSpec, RequestFollows
<1> QED  BY <1>2, Typing, PTL DEF Spec, LastSpecStartsAnalysis

\* No work on a layer, no edit and no repeated step of the formation moves a
\* closed request: it is reopened or stays closed.
THEOREM ClosedIsReopened == Spec => ClosedIsLeftByReopening
<1> DEFINE Leaves == requestState = "closed" /\ requestState' # "closed"
           Reopens == requestState' = "statusReported" /\ UNCHANGED layerState
<1>1. TypeOK /\ PhaseInvariant /\ [Next]_vars => [Leaves => Reopens]_vars
  <2> SUFFICES ASSUME TypeOK, PhaseInvariant, Next, Leaves PROVE Reopens
    BY DEF vars
  <2>1. ~ Intake
    BY IntakeRow, AcceptRow
    DEF Intake, CreateRequest, MoveRequest, AcceptRequest, EditRequest, IntakeStates
  <2>2. ~ AddAuditors
    BY AuditorsStep DEF PhaseInvariant, AnalysedStates, AllLiveIn, EvaluationStates
  <2>3. ~ Formation
    BY <2>2 DEF Formation, AddSAM, AddSupervisor, MoveListed
  <2>4. \A l \in Layers :
          ~ FinalizeSpec(l) /\ ~ Finish(l) /\ ~ AcceptReEvaluation(l)
    BY RequestAnalysisRows DEF FinalizeSpec, Finish, AcceptReEvaluation, RequestFollows
  <2>5. ~ Reinstate /\ ~ CloseRequest
    BY RequestAnalysisRows DEF Reinstate, CloseRequest
  <2>6. CASE ReopenRequest
    BY <2>6, RequestAnalysisRows DEF ReopenRequest
  <2> QED
    BY <2>1, <2>3, <2>4, <2>5, <2>6
    DEF Next, Analysis, ProvideTestCases, Review, IssueReport, RejectReEvaluation
<1> QED  BY <1>1, Typing, Phases, PTL DEF Spec, ClosedIsLeftByReopening
=============================================================================
