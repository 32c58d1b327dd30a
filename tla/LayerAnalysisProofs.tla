------------------------ MODULE LayerAnalysisProofs ------------------------
(***************************************************************************)
(* What holds of the analysis phase for any number of layers and handlers: *)
(* its types, and three properties of every overlap of the endpoints; and, *)
(* of handlers that do not overlap, that they implement the analysis phase *)
(* of AssessmentWorkflow and that the phases of request and layers agree.  *)
(***************************************************************************)
EXTENDS LayerAnalysis, TLAPS

-----------------------------------------------------------------------------
(* The transition tables.                                                  *)

FormationActions ==
  { "InitiatedRegister", "ApprovedAssignSAM", "SAMAssignedAssignSAM",
    "SAMAssignedAddSupervise", "SupervisedAssignSupervisor",
    "SupervisedAssignOwnTeamAuditors", "SupervisedAssignAllTeamsAuditors",
    "GroupReadyAssignAuditor" }

\* A row of the formation is for an action of the formation.
LEMMA FormationRows ==
  ASSUME NEW row \in FormationTransitions
  PROVE  row[2] \in FormationActions
BY DEF FormationTransitions, FormationActions

\* Every endpoint of a layer leads to an evaluation state.
LEMMA EndpointTargets ==
  ASSUME NEW e \in LayerEndpoints, NEW a \in EndpointActions(e), NEW s,
         NEW n \in NextStates(LayerTransitions, a, s)
  PROVE  n \in EvaluationStates
<1>1. a \in ReviewActions \cup
            { "OnboardingFinalizeSpecs", "PendingLayerTestcasesSubmit",
              "LayerAssessmentReviewAccept", "LayerAssessmentReviewFinish",
              "LayerAssessmentFulfilledReinstate",
              "LayerReEvaluationRequestedAccept",
              "LayerReEvaluationRequestedReject" }
  BY DEF EndpointActions, LayerEndpoints
<1>2. PICK row \in LayerTransitions : row[2] = a /\ row[3] = n
  BY DEF NextStates
<1>3. row \notin FormationTransitions
  BY <1>1, <1>2, FormationRows DEF FormationActions, ReviewActions
<1>4. row \in AnalysisTransitions
  BY <1>3 DEF LayerTransitions
<1>5. QED
  BY <1>2, <1>4 DEF AnalysisTransitions, EvaluationStates

\* The states awaited when the specs of a layer become final are evaluation
\* states too.
LEMMA LaterTargets ==
  ASSUME NEW n \in TargetsOf(ActionsAfterSpecs)
  PROVE  n \in EvaluationStates
<1>1. PICK row \in LayerTransitions :
        row[2] \in ActionsAfterSpecs /\ row[3] = n
  BY DEF TargetsOf, AllNextStates
<1>2. row \notin FormationTransitions
  BY <1>1, FormationRows DEF FormationActions, ActionsAfterSpecs
<1>3. row \in AnalysisTransitions
  BY <1>2 DEF LayerTransitions
<1>4. QED
  BY <1>1, <1>3 DEF AnalysisTransitions, EvaluationStates

\* The table of the request leads to states of the request.
LEMMA RequestRows ==
  ASSUME NEW a, NEW s, NEW n \in NextStates(RequestTransitions, a, s)
  PROVE  n \in RequestStates
BY DEF NextStates, RequestTransitions, RequestStates

\* What updateRequestIfAllLayersAccepted, the reinstatement and the request's
\* own endpoints move the request to.
LEMMA RequestTargets ==
  ASSUME NEW a, NEW s, NEW n \in NextStates(RequestTransitions, a, s),
         a \in { "GroupReadyFinalizeSpecs", "UnderAnalysisWrapUp",
                 "LayerReEvaluationRequestedAccept",
                 "StatusReportedNeedChanges", "StatusReportedFinalize",
                 "ClosedReopen" }
  PROVE  /\ n \in AnalysedStates
         /\ n # "none"
         /\ a \in {"StatusReportedFinalize", "ClosedReopen"}
              => s \in AnalysedStates
<1>1. PICK row \in RequestTransitions : row[1] = s /\ row[2] = a /\ row[3] = n
  BY DEF NextStates
<1>2. QED
  BY <1>1 DEF RequestTransitions, AnalysedStates

-----------------------------------------------------------------------------
(* Type correctness.                                                       *)

\* Init establishes and every step keeps the types of the rows and of the
\* local variables of the handlers (handler records of all endpoints).
THEOREM Typing == Spec => []TypeOK
<1>1. Init => TypeOK
  BY MaxIterationAssumption
  DEF Init, TypeOK, Idle, HandlerType, Steps, RequestStates, LayerStates,
      FormationStates
<1>2. TypeOK /\ [Next]_vars => TypeOK'
  <2> SUFFICES ASSUME TypeOK, [Next]_vars PROVE TypeOK'
    OBVIOUS
  <2> USE DEF TypeOK
  <2>1. Idle \in HandlerType
    BY MaxIterationAssumption DEF Idle, HandlerType, Steps
  <2>1a. Idle.rows = {} /\ Idle.endpoint = "none"
    BY DEF Idle
  <2>2. CASE UNCHANGED vars
    BY <2>2 DEF vars
  <2>3. ASSUME NEW h \in Handlers, ReadLayer(h) PROVE TypeOK'
    <3>0. PICK e \in Endpoints \cap LayerEndpoints :
            \E a \in EndpointActions(e), rows \in SUBSET Layers :
              Read(h, e, a, rows)
      BY <2>3 DEF ReadLayer
    <3>1. PICK a \in EndpointActions(e), rows \in SUBSET Layers :
            Read(h, e, a, rows)
      BY <3>0
    <3>2. PICK l \in rows : \E next \in NextStates(LayerTransitions, a, layerState[l]) :
            handler' = [handler EXCEPT ![h] =
                 [ step |-> "read", endpoint |-> e, action |-> a, rows |-> rows,
                   next |-> next, request |-> "none",
                   seen |-> IF Follows(e, a) = "none" THEN "none" ELSE requestState,
                   count |-> IF e # "provideStatusReported" THEN 0
                             ELSE IF a = "LayerAssessmentReviewAccept"
                                  THEN iterationCount[l] + 1
                                  ELSE iterationCount[l] ]]
      BY <3>1 DEF Read
    <3>2a. PICK next \in NextStates(LayerTransitions, a, layerState[l]) :
            handler' = [handler EXCEPT ![h] =
                 [ step |-> "read", endpoint |-> e, action |-> a, rows |-> rows,
                   next |-> next, request |-> "none",
                   seen |-> IF Follows(e, a) = "none" THEN "none" ELSE requestState,
                   count |-> IF e # "provideStatusReported" THEN 0
                             ELSE IF a = "LayerAssessmentReviewAccept"
                                  THEN iterationCount[l] + 1
                                  ELSE iterationCount[l] ]]
      BY <3>2
    <3>3. next \in LayerStates
      BY <3>1, <3>2a, EndpointTargets DEF LayerStates
    <3>4. (IF e # "provideStatusReported" THEN 0
           ELSE IF a = "LayerAssessmentReviewAccept"
                THEN iterationCount[l] + 1 ELSE iterationCount[l])
            \in 0..MaxIteration
      BY <3>1, MaxIterationAssumption DEF Read
    <3>5. a \in Actions
      BY DEF Actions
    <3>6. handler' \in [Handlers -> HandlerType]
      BY <3>2a, <3>3, <3>4, <3>5 DEF HandlerType, Steps
    <3>7. QED
      BY <3>1, <3>2a, <3>3, <3>6 DEF Read, LayerEndpoints
  <2>4. ASSUME NEW h \in Handlers, ReadRequest(h) PROVE TypeOK'
    <3>0. PICK e \in Endpoints \cap RequestEndpoints :
            \E a \in EndpointActions(e) :
            \E request \in NextStates(RequestTransitions, a, requestState) :
              handler' = [handler EXCEPT ![h] =
                [ Idle EXCEPT !.step = "worked", !.endpoint = e, !.action = a,
                              !.request = request ]]
      BY <2>4 DEF ReadRequest
    <3>0a. PICK a \in EndpointActions(e) :
            \E request \in NextStates(RequestTransitions, a, requestState) :
              handler' = [handler EXCEPT ![h] =
                [ Idle EXCEPT !.step = "worked", !.endpoint = e, !.action = a,
                              !.request = request ]]
      BY <3>0
    <3>1. PICK request \in NextStates(RequestTransitions, a, requestState) :
              handler' = [handler EXCEPT ![h] =
                [ Idle EXCEPT !.step = "worked", !.endpoint = e, !.action = a,
                              !.request = request ]]
      BY <3>0a
    <3>2. request \in RequestStates
      BY RequestRows
    <3>3. a \in Actions
      BY DEF Actions
    <3>4. [ Idle EXCEPT !.step = "worked", !.endpoint = e, !.action = a,
                        !.request = request ] \in HandlerType
      BY <2>1, <3>2, <3>3 DEF HandlerType, Steps
    <3>5. QED
      BY <2>4, <3>1, <3>4 DEF ReadRequest, Idle, RequestEndpoints
  <2>5. ASSUME NEW h \in Handlers, Work(h) PROVE TypeOK'
    <3>1. PICK request \in RequestWrite(h) :
            handler' = [handler EXCEPT ![h].step = "worked",
                                       ![h].request = request]
      BY <2>5 DEF Work
    <3>2. request \in RequestStates \cup {"none"}
      BY RequestRows DEF RequestWrite
    <3>3. [handler[h] EXCEPT !.step = "worked", !.request = request]
            \in HandlerType
      BY <3>2 DEF HandlerType, Steps
    <3>4. QED
      BY <2>5, <3>1, <3>3 DEF Work, HandlerType
  <2>6. ASSUME NEW h \in Handlers, Throw(h) PROVE TypeOK'
    BY <2>1, <2>1a, <2>6 DEF Throw
  <2>7. ASSUME NEW h \in Handlers, Commit(h) PROVE TypeOK'
    <3>1. handler[h] \in HandlerType
      OBVIOUS
    <3>2. requestState' \in RequestStates
      BY <2>7, <3>1 DEF Commit, HandlerType
    <3>3. layerState' \in [Layers -> LayerStates \cup {"absent", "deleted"}]
      BY <2>7 DEF Commit
    <3>4. iterationCount' \in [Layers -> 0..MaxIteration]
      BY <2>7, <3>1 DEF Commit, HandlerType
    <3>5. QED
      BY <2>1, <2>1a, <2>7, <3>2, <3>3, <3>4 DEF Commit
  <2>8. ASSUME NEW h \in Handlers, Fail(h) PROVE TypeOK'
    BY <2>1, <2>1a, <2>8 DEF Fail
  <2>9. ASSUME NEW h \in Handlers, Edit(h) PROVE TypeOK'
    <3>1. handler[h] \in HandlerType
      OBVIOUS
    <3>2. CASE ReadEdit(h)
      <4>1. PICK next \in IF Live = {} THEN {"none"}
                          ELSE { layerState[l] : l \in Live },
                 removed \in SUBSET Live :
              handler' = [handler EXCEPT ![h] =
                [ Idle EXCEPT !.step = "read", !.endpoint = "edit",
                              !.rows = removed, !.seen = requestState,
                              !.next = next ]]
        BY <3>2 DEF ReadEdit
      <4>2. next \in LayerStates \cup {"none"} /\ (Live # {} => next \in LayerStates)
        BY DEF Live
      <4>3. [ Idle EXCEPT !.step = "read", !.endpoint = "edit", !.rows = removed,
                          !.seen = requestState, !.next = next ] \in HandlerType
        BY <2>1, <4>2 DEF HandlerType, Steps, Live
      <4>4. QED
        BY <3>2, <4>1, <4>2, <4>3 DEF ReadEdit, Idle
    <3>3. CASE SaveEdit(h)
      BY <3>1, <3>3 DEF SaveEdit, HandlerType
    <3>4. CASE RemoveLayer(h)
      <4>1. PICK l \in handler[h].rows :
              handler' = [handler EXCEPT ![h].step = "editing",
                                         ![h].rows = @ \ {l}]
        BY <3>4 DEF RemoveLayer
      <4>2. [handler[h] EXCEPT !.step = "editing", !.rows = @ \ {l}]
              \in HandlerType
        BY <3>1 DEF HandlerType, Steps
      <4>3. layerState' \in [Layers -> LayerStates \cup {"absent", "deleted"}]
        BY <3>4 DEF RemoveLayer
      <4>4. QED
        BY <3>1, <3>4, <4>1, <4>2, <4>3 DEF RemoveLayer, HandlerType
    <3>5. CASE AddLayer(h)
      <4>1. layerState' \in [Layers -> LayerStates \cup {"absent", "deleted"}]
        BY <3>1, <3>5 DEF AddLayer, HandlerType
      <4>2. [handler[h] EXCEPT !.step = "editing"] \in HandlerType
        BY <3>1 DEF HandlerType, Steps
      <4>3. QED
        BY <3>1, <3>5, <4>1, <4>2 DEF AddLayer, HandlerType
    <3>6. QED
      BY <2>9, <3>2, <3>3, <3>4, <3>5 DEF Edit
  <2>10. QED
    BY <2>2, <2>3, <2>4, <2>5, <2>6, <2>7, <2>8, <2>9 DEF Next, Handle
<1>3. QED
  BY <1>1, <1>2, PTL DEF Spec

-----------------------------------------------------------------------------
(* Safety of the analysis, for as long as nobody edits the request.        *)

Evaluated(S) == \A l \in Live \ S : layerState[l] \in EvaluationStates

(***************************************************************************)
(* What a handler carries from its reads to its commit.  A layer in an     *)
(* evaluation state only ever moves to another one, so a check of the      *)
(* siblings, however old, still tells the truth about the set of           *)
(* evaluation states; it need not about any one of them.                   *)
(***************************************************************************)
HandlerSound(h) ==
  /\ handler[h].endpoint # "edit"
  /\ handler[h].step = "read" => handler[h].rows # {}
  /\ handler[h].rows # {} => handler[h].next \in EvaluationStates
  /\ handler[h].request # "none" =>
       /\ handler[h].request \in AnalysedStates
       /\ Evaluated(handler[h].rows)

IndInv ==
  /\ \A h \in Handlers : HandlerSound(h)
  /\ AnalysedLayersEvaluated

\* The layers a commit writes become evaluated, the others stay as they were.
LEMMA CommitEvaluates ==
  ASSUME TypeOK, IndInv, NEW h \in Handlers, Commit(h)
  PROVE  /\ Live' = Live
         /\ \A l \in Live : \/ layerState'[l] = layerState[l]
                            \/ layerState'[l] \in EvaluationStates
         /\ \A l \in Live \cap handler[h].rows : layerState'[l] \in EvaluationStates
<1>1. \A l \in Layers : layerState'[l] = IF l \in handler[h].rows \cap Live
                                        THEN handler[h].next ELSE layerState[l]
  BY DEF Commit
<1>2. handler[h].rows # {} => handler[h].next \in EvaluationStates
  BY DEF IndInv, HandlerSound
<1>3. EvaluationStates \subseteq LayerStates
  BY DEF LayerStates
<1>4. QED
  BY <1>1, <1>2, <1>3 DEF Live

\* What Work decides to write to the request, its layers allow.
LEMMA WorkSound ==
  ASSUME TypeOK, IndInv, NEW h \in Handlers, InTransaction(h),
         NEW r \in RequestWrite(h), r # "none"
  PROVE  r \in AnalysedStates /\ Evaluated(handler[h].rows)
<1> DEFINE me == handler[h]
           target == Follows(me.endpoint, me.action)
           agreed == \A l \in Live : Visible(h, l) \in
                       ExpectedStates(me.next, LaterActions(me.endpoint))
<1>1. CASE target # "none" /\ agreed
  <2>1. r \in NextStates(RequestTransitions, target, me.seen)
    BY <1>1 DEF RequestWrite
  <2>2. target \in { "GroupReadyFinalizeSpecs", "UnderAnalysisWrapUp",
                     "LayerReEvaluationRequestedAccept" }
    BY <1>1 DEF Follows
  <2>3. r \in AnalysedStates
    BY <2>1, <2>2, RequestTargets
  <2>4. ASSUME NEW l \in Live \ me.rows PROVE layerState[l] \in EvaluationStates
    <3>1. layerState[l] \in ExpectedStates(me.next, LaterActions(me.endpoint))
      BY <1>1 DEF Visible
    <3>2. me.next \in EvaluationStates
      BY DEF IndInv, HandlerSound, InTransaction
    <3>3. \A s \in TargetsOf(LaterActions(me.endpoint)) : s \in EvaluationStates
      <4>1. CASE LaterActions(me.endpoint) = ActionsAfterSpecs
        BY <4>1, LaterTargets
      <4>2. CASE LaterActions(me.endpoint) = {}
        BY <4>2 DEF TargetsOf
      <4>3. QED
        BY <4>1, <4>2 DEF LaterActions
    <3>4. QED
      BY <3>1, <3>2, <3>3 DEF ExpectedStates
  <2>5. QED
    BY <2>3, <2>4 DEF Evaluated
<1>2. CASE ~(target # "none" /\ agreed)
  <2>1. /\ requestState = "statusReported"
        /\ r \in NextStates(RequestTransitions, "StatusReportedNeedChanges",
                            requestState)
    BY <1>2 DEF RequestWrite
  <2>2. QED
    BY <2>1, RequestTargets
    DEF IndInv, AnalysedLayersEvaluated, AnalysedStates, Evaluated
<1>3. QED
  BY <1>1, <1>2

\* A handler other than the one that steps is sound still.
LEMMA OthersSound ==
  ASSUME TypeOK, IndInv, NEW h \in Handlers, NEW other \in Handlers \ {h},
         handler'[other] = handler[other],
         Live' = Live,
         \A l \in Live : \/ layerState'[l] = layerState[l]
                         \/ layerState'[l] \in EvaluationStates
  PROVE  HandlerSound(other)'
BY DEF IndInv, HandlerSound, Evaluated

\* A step on the local variables alone, which leave h sound.
LEMMA LocalStep ==
  ASSUME TypeOK, IndInv, NEW h \in Handlers, NEW me,
         handler' = [handler EXCEPT ![h] = me],
         UNCHANGED <<requestState, layerState>>,
         me.endpoint # "edit",
         me.step = "read" => me.rows # {},
         me.rows # {} => me.next \in EvaluationStates,
         me.request # "none" => me.request \in AnalysedStates /\ Evaluated(me.rows)
  PROVE  IndInv'
<1>1. handler'[h] = me /\ \A o \in Handlers \ {h} : handler'[o] = handler[o]
  BY DEF TypeOK
<1>2. Live' = Live
  BY DEF Live
<1>3. HandlerSound(h)'
  BY <1>1, <1>2 DEF HandlerSound, Evaluated
<1>4. \A o \in Handlers \ {h} : HandlerSound(o)'
  BY <1>1, <1>2, OthersSound
<1>5. AnalysedLayersEvaluated'
  BY <1>2 DEF IndInv, AnalysedLayersEvaluated
<1>6. QED
  BY <1>3, <1>4, <1>5 DEF IndInv

\* No step of an endpoint other than the edit breaks the invariant.
LEMMA IndInvStep ==
  ASSUME "edit" \notin Endpoints, TypeOK, IndInv, [Next]_vars
  PROVE  IndInv'
<1>1. CASE UNCHANGED vars
  BY <1>1 DEF vars, IndInv, HandlerSound, Evaluated, AnalysedLayersEvaluated, Live
<1>2. ASSUME NEW h \in Handlers, ReadLayer(h) PROVE IndInv'
  <2>1. PICK e \in Endpoints \cap LayerEndpoints :
          \E a \in EndpointActions(e), rows \in SUBSET Layers :
            Read(h, e, a, rows)
    BY <1>2 DEF ReadLayer
  <2>2. PICK a \in EndpointActions(e), rows \in SUBSET Layers :
          Read(h, e, a, rows)
    BY <2>1
  <2>3. PICK l \in rows :
          \E next \in NextStates(LayerTransitions, a, layerState[l]) :
            \E seen, count :
              handler' = [handler EXCEPT ![h] =
                [ step |-> "read", endpoint |-> e, action |-> a, rows |-> rows,
                  next |-> next, request |-> "none", seen |-> seen,
                  count |-> count ]]
    BY <2>2 DEF Read
  <2> PICK next \in NextStates(LayerTransitions, a, layerState[l]) :
        \E seen, count :
          handler' = [handler EXCEPT ![h] =
            [ step |-> "read", endpoint |-> e, action |-> a, rows |-> rows,
              next |-> next, request |-> "none", seen |-> seen,
              count |-> count ]]
    BY <2>3
  <2>4. PICK seen, count :
          handler' = [handler EXCEPT ![h] =
            [ step |-> "read", endpoint |-> e, action |-> a, rows |-> rows,
              next |-> next, request |-> "none", seen |-> seen,
              count |-> count ]]
    OBVIOUS
  <2>5. next \in EvaluationStates
    BY EndpointTargets
  <2> DEFINE me == [ step |-> "read", endpoint |-> e, action |-> a, rows |-> rows,
                     next |-> next, request |-> "none", seen |-> seen,
                     count |-> count ]
  <2>6. /\ me.endpoint # "edit" /\ me.request = "none"
        /\ me.rows # {} /\ me.next \in EvaluationStates
    BY <2>2, <2>5 DEF Read, LayerEndpoints
  <2>7. UNCHANGED <<requestState, layerState>>
    BY <2>2 DEF Read
  <2>8. handler' = [handler EXCEPT ![h] = me]
    BY <2>4
  <2> HIDE DEF me
  <2>9. QED
    BY <2>6, <2>7, <2>8, LocalStep
<1>3. ASSUME NEW h \in Handlers, ReadRequest(h) PROVE IndInv'
  <2>1. PICK e \in Endpoints \cap RequestEndpoints :
          \E a \in EndpointActions(e) :
          \E request \in NextStates(RequestTransitions, a, requestState) :
            handler' = [handler EXCEPT ![h] =
              [ Idle EXCEPT !.step = "worked", !.endpoint = e, !.action = a,
                            !.request = request ]]
    BY <1>3 DEF ReadRequest
  <2>2. PICK a \in EndpointActions(e) :
          \E request \in NextStates(RequestTransitions, a, requestState) :
            handler' = [handler EXCEPT ![h] =
              [ Idle EXCEPT !.step = "worked", !.endpoint = e, !.action = a,
                            !.request = request ]]
    BY <2>1
  <2>3. PICK request \in NextStates(RequestTransitions, a, requestState) :
          handler' = [handler EXCEPT ![h] =
            [ Idle EXCEPT !.step = "worked", !.endpoint = e, !.action = a,
                          !.request = request ]]
    BY <2>2
  <2>4. a \in {"StatusReportedFinalize", "ClosedReopen"}
    BY DEF EndpointActions, RequestEndpoints
  <2>5. request \in AnalysedStates /\ requestState \in AnalysedStates
    BY <2>3, <2>4, RequestTargets
  <2>6. Evaluated({})
    BY <2>5 DEF IndInv, AnalysedLayersEvaluated, Evaluated
  <2> DEFINE me == [ Idle EXCEPT !.step = "worked", !.endpoint = e, !.action = a,
                                 !.request = request ]
  <2>7. /\ me.step = "worked" /\ me.endpoint # "edit"
        /\ me.rows = {} /\ me.request = request
    BY DEF Idle, RequestEndpoints
  <2>8. UNCHANGED <<requestState, layerState>>
    BY <1>3 DEF ReadRequest
  <2>9. handler' = [handler EXCEPT ![h] = me]
    BY <2>3
  <2> HIDE DEF me
  <2>10. QED
    BY <2>5, <2>6, <2>7, <2>8, <2>9, LocalStep
<1>4. ASSUME NEW h \in Handlers, Work(h) PROVE IndInv'
  <2>1. PICK request \in RequestWrite(h) :
          handler' = [handler EXCEPT ![h].step = "worked",
                                     ![h].request = request]
    BY <1>4 DEF Work
  <2>2. request # "none" =>
          request \in AnalysedStates /\ Evaluated(handler[h].rows)
    BY <1>4, WorkSound DEF Work
  <2> DEFINE me == [handler[h] EXCEPT !.step = "worked", !.request = request]
  <2>3. /\ me.step = "worked" /\ me.request = request
        /\ me.endpoint = handler[h].endpoint
        /\ me.rows = handler[h].rows /\ me.next = handler[h].next
    BY DEF TypeOK, HandlerType
  <2>4. handler' = [handler EXCEPT ![h] = me]
    BY <2>1 DEF TypeOK, HandlerType
  <2>5. UNCHANGED <<requestState, layerState>>
    BY <1>4 DEF Work
  <2>6. me.endpoint # "edit" /\ (me.rows # {} => me.next \in EvaluationStates)
    BY <2>3 DEF IndInv, HandlerSound
  <2> HIDE DEF me
  <2>7. QED
    BY <2>2, <2>3, <2>4, <2>5, <2>6, LocalStep
<1>5. ASSUME NEW h \in Handlers, Throw(h) \/ Fail(h) PROVE IndInv'
  <2>1. Idle.endpoint # "edit" /\ Idle.step = "idle" /\ Idle.rows = {}
          /\ Idle.request = "none"
    BY DEF Idle
  <2>2. QED
    BY <1>5, <2>1, LocalStep DEF Throw, Fail
<1>6. ASSUME NEW h \in Handlers, Commit(h) PROVE IndInv'
  <2>1. /\ handler'[h] = Idle
        /\ \A o \in Handlers \ {h} : handler'[o] = handler[o]
    BY <1>6 DEF Commit, TypeOK
  <2>2. /\ Live' = Live
        /\ \A l \in Live : \/ layerState'[l] = layerState[l]
                           \/ layerState'[l] \in EvaluationStates
        /\ \A l \in Live \cap handler[h].rows : layerState'[l] \in EvaluationStates
    BY <1>6, CommitEvaluates
  <2>3. \A o \in Handlers \ {h} : HandlerSound(o)'
    BY <2>1, <2>2, OthersSound
  <2>4. HandlerSound(h)'
    BY <2>1 DEF HandlerSound, Idle
  <2>5. AnalysedLayersEvaluated'
    <3>1. CASE handler[h].request = "none"
      BY <1>6, <2>2, <3>1 DEF Commit, IndInv, AnalysedLayersEvaluated
    <3>2. CASE handler[h].request # "none"
      BY <2>2, <3>2 DEF IndInv, HandlerSound, Evaluated, AnalysedLayersEvaluated
    <3>3. QED
      BY <3>1, <3>2
  <2>6. QED
    BY <2>3, <2>4, <2>5 DEF IndInv
<1>7. ASSUME NEW h \in Handlers, Edit(h) PROVE FALSE
  BY <1>7 DEF IndInv, HandlerSound, Edit, ReadEdit, SaveEdit, RemoveLayer, AddLayer
<1>8. QED
  BY <1>1, <1>2, <1>3, <1>4, <1>5, <1>6, <1>7 DEF Next, Handle

\* It holds before the first handler begins.
LEMMA IndInvInit == Init => IndInv
BY DEF Init, IndInv, HandlerSound, Idle, AnalysedLayersEvaluated, AnalysedStates

\* For any layers and any number of handlers, and as long as the request is
\* not edited: a request is under analysis, reported or closed only with the
\* specs of all its layers final (assessmentLayerFinalizeSpec against every
\* other endpoint, at every interleaving of their round trips).
THEOREM AnalysisSafety ==
  ASSUME "edit" \notin Endpoints
  PROVE  Spec => []AnalysedLayersEvaluated
<1>1. Init => IndInv
  BY IndInvInit
<1>2. TypeOK /\ IndInv /\ [Next]_vars => IndInv'
  BY IndInvStep
<1>3. IndInv => AnalysedLayersEvaluated
  BY DEF IndInv
<1>4. QED
  BY <1>1, <1>2, <1>3, Typing, PTL DEF Spec

\* Under the same conditions: whatever request state a handler read before its
\* transaction, what it commits never takes the request back to the filling of
\* the specs.
THEOREM AnalysisProgress ==
  ASSUME "edit" \notin Endpoints
  PROVE  Spec => AnalysisIsNotUndone
<1>1. TypeOK /\ IndInv /\ [Next]_vars =>
        ((requestState \in AnalysedStates) => (requestState' \in AnalysedStates))
  <2> SUFFICES ASSUME TypeOK, IndInv, [Next]_vars, requestState \in AnalysedStates
               PROVE  requestState' \in AnalysedStates
    OBVIOUS
  <2>1. CASE UNCHANGED vars
    BY <2>1 DEF vars
  <2>2. ASSUME NEW h \in Handlers, Commit(h)
        PROVE  requestState' \in AnalysedStates
    BY <2>2 DEF Commit, IndInv, HandlerSound
  <2>3. ASSUME NEW h \in Handlers, Edit(h) PROVE FALSE
    BY <2>3 DEF IndInv, HandlerSound, Edit, ReadEdit, SaveEdit, RemoveLayer,
                AddLayer
  <2>4. ASSUME NEW h \in Handlers,
               ReadLayer(h) \/ ReadRequest(h) \/ Work(h) \/ Throw(h) \/ Fail(h)
        PROVE  requestState' \in AnalysedStates
    BY <2>4 DEF ReadLayer, Read, ReadRequest, Work, Throw, Fail
  <2>5. QED
    BY <2>1, <2>2, <2>3, <2>4 DEF Next, Handle
<1>2. QED
  BY <1>1, IndInvInit, IndInvStep, Typing, PTL DEF Spec, AnalysisIsNotUndone

\* With every endpoint in use, the edit included: no write of a handler that
\* read a layer before its deletion brings the layer back.
THEOREM DeletionIsFinal == Spec => DeletedStaysDeleted
<1>1. TypeOK /\ [Next]_vars =>
        \A l \in Layers : layerState[l] = "deleted" => layerState'[l] = "deleted"
  <2> SUFFICES ASSUME TypeOK, [Next]_vars, NEW l \in Layers,
                      layerState[l] = "deleted"
               PROVE  layerState'[l] = "deleted"
    OBVIOUS
  <2>1. CASE UNCHANGED vars
    BY <2>1 DEF vars
  <2>2. ASSUME NEW h \in Handlers, Commit(h) PROVE layerState'[l] = "deleted"
    <3>1. l \notin Live
      BY DEF Live, LayerStates, FormationStates, EvaluationStates
    <3>2. QED
      BY <2>2, <3>1 DEF Commit
  <2>3. ASSUME NEW h \in Handlers, Edit(h) PROVE layerState'[l] = "deleted"
    BY <2>3 DEF Edit, ReadEdit, SaveEdit, RemoveLayer, AddLayer, TypeOK
  <2>4. ASSUME NEW h \in Handlers,
               ReadLayer(h) \/ ReadRequest(h) \/ Work(h) \/ Throw(h) \/ Fail(h)
        PROVE  layerState'[l] = "deleted"
    BY <2>4 DEF ReadLayer, Read, ReadRequest, Work, Throw, Fail
  <2>5. QED
    BY <2>1, <2>2, <2>3, <2>4 DEF Next, Handle
<1>2. QED
  BY <1>1, Typing, PTL DEF Spec, DeletedStaysDeleted

-----------------------------------------------------------------------------
\* The tables and look-ups of the workflow are those of this module.
LEMMA SameTables ==
  /\ Workflow!LayerTransitions = LayerTransitions
  /\ Workflow!RequestTransitions = RequestTransitions
  /\ \A t, a, s : Workflow!NextStates(t, a, s) = NextStates(t, a, s)
  /\ Workflow!LayerStates = LayerStates
  /\ \A n, S : Workflow!ExpectedStates(n, S) = ExpectedStates(n, S)
  /\ Workflow!ActionsAfterSpecs = ActionsAfterSpecs
<1>1. Workflow!LayerTransitions = LayerTransitions
  BY DEF Workflow!LayerTransitions, LayerTransitions,
     Workflow!FormationTransitions, FormationTransitions,
     Workflow!AnalysisTransitions, AnalysisTransitions
<1>2. Workflow!RequestTransitions = RequestTransitions
  BY DEF Workflow!RequestTransitions, RequestTransitions
<1>3. \A t, a, s : Workflow!NextStates(t, a, s) = NextStates(t, a, s)
  BY DEF Workflow!NextStates, NextStates
<1>4. Workflow!LayerStates = LayerStates
  BY DEF Workflow!LayerStates, LayerStates, Workflow!FormationStates, FormationStates,
     Workflow!EvaluationStates, EvaluationStates
<1>5. \A n, S : Workflow!ExpectedStates(n, S) = ExpectedStates(n, S)
  BY <1>1 DEF Workflow!ExpectedStates, ExpectedStates, Workflow!TargetsOf,
     TargetsOf, Workflow!AllNextStates, AllNextStates
<1>6. Workflow!ActionsAfterSpecs = ActionsAfterSpecs
  BY DEF Workflow!ActionsAfterSpecs, ActionsAfterSpecs
<1> QED  BY <1>1, <1>2, <1>3, <1>4, <1>5, <1>6

\* The table moves a request with the actions of its followers from one state
\* each, and there is no row for the acceptance of a re-evaluation.
LEMMA FollowingRows ==
  ASSUME NEW s
  PROVE  /\ \A n \in NextStates(RequestTransitions, "GroupReadyFinalizeSpecs", s) :
              s = "groupReady" /\ n = "underAnalysis"
         /\ \A n \in NextStates(RequestTransitions, "UnderAnalysisWrapUp", s) :
              s = "underAnalysis" /\ n = "statusReported"
         /\ NextStates(RequestTransitions, "LayerReEvaluationRequestedAccept", s)
              = {}
         /\ \A n \in NextStates(RequestTransitions, "StatusReportedNeedChanges", s) :
              s = "statusReported" /\ n = "underAnalysis"
         /\ \A n \in NextStates(RequestTransitions, "StatusReportedFinalize", s) :
              s = "statusReported" /\ n = "closed"
         /\ \A n \in NextStates(RequestTransitions, "ClosedReopen", s) :
              s = "closed" /\ n = "statusReported"
BY DEF NextStates, RequestTransitions

-----------------------------------------------------------------------------
(* One handler at a time.                                                  *)

\* What a handler read of its layers and of the request is what they are, and
\* what it will write is what the table says of that.
ReadHolds(h) ==
  LET me == handler[h] IN
  /\ me.endpoint \in LayerEndpoints
  /\ me.action \in EndpointActions(me.endpoint)
  /\ me.rows # {} /\ me.rows \subseteq Live
  /\ me.endpoint # "updateMultipleLayers" => \E l \in me.rows : me.rows = {l}
  /\ \A l, other \in me.rows : layerState[other] = layerState[l]
  /\ \A l \in me.rows :
       me.next \in NextStates(LayerTransitions, me.action, layerState[l])
  /\ Follows(me.endpoint, me.action) # "none" => me.seen = requestState
  /\ me.endpoint = "provideStatusReported" => \A l \in me.rows :
       IF me.action = "LayerAssessmentReviewAccept"
       THEN iterationCount[l] < MaxIteration /\ me.count = iterationCount[l] + 1
       ELSE me.count = iterationCount[l]

\* ... and what it decided to write to the request is what Work would decide
\* once more.
WorkHolds(h) ==
  LET me == handler[h] IN
  \/ ReadHolds(h) /\ me.request \in RequestWrite(h)
  \/ /\ me.endpoint \in RequestEndpoints
     /\ me.action \in EndpointActions(me.endpoint)
     /\ me.rows = {}
     /\ me.request \in NextStates(RequestTransitions, me.action, requestState)

SerialInv ==
  \A h \in Handlers :
    /\ handler[h].step \in {"idle", "read", "worked"}
    /\ handler[h].endpoint # "edit"
    /\ handler[h].step = "read" => ReadHolds(h)
    /\ handler[h].step = "worked" => WorkHolds(h)

\* A handler that is the only one and stops leaves nothing to hold.
LEMMA SerialIdle ==
  ASSUME TypeOK, NEW h \in Handlers, \A g \in Handlers : g = h,
         handler' = [handler EXCEPT ![h] = Idle]
  PROVE  SerialInv'
<1>1. handler'[h] = Idle
  BY DEF TypeOK
<1>2. QED
  BY <1>1 DEF SerialInv, Idle

\* Alone, a handler finds what it read unchanged until it commits.
LEMMA SerialStep ==
  ASSUME "edit" \notin Endpoints, \A g, h \in Handlers : g = h,
         TypeOK, SerialInv, [Next]_vars
  PROVE  SerialInv'
<1>1. CASE UNCHANGED vars
  BY <1>1 DEF vars, SerialInv, ReadHolds, WorkHolds, RequestWrite, Live, Visible
<1>2. ASSUME NEW h \in Handlers, ReadLayer(h) PROVE SerialInv'
  <2>1. PICK e \in Endpoints \cap LayerEndpoints :
          \E a \in EndpointActions(e), rows \in SUBSET Layers :
            Read(h, e, a, rows)
    BY <1>2 DEF ReadLayer
  <2>2. PICK a \in EndpointActions(e), rows \in SUBSET Layers :
          Read(h, e, a, rows)
    BY <2>1
  <2>3. PICK l \in rows :
          /\ \A other \in rows : layerState[other] = layerState[l]
          /\ \E next \in NextStates(LayerTransitions, a, layerState[l]) :
               handler' = [handler EXCEPT ![h] =
                 [ step |-> "read", endpoint |-> e, action |-> a,
                   rows |-> rows, next |-> next, request |-> "none",
                   seen |-> IF Follows(e, a) = "none" THEN "none" ELSE requestState,
                   count |-> IF e # "provideStatusReported" THEN 0
                             ELSE IF a = "LayerAssessmentReviewAccept"
                                  THEN iterationCount[l] + 1
                                  ELSE iterationCount[l] ]]
    BY <2>2 DEF Read
  <2>4. PICK next \in NextStates(LayerTransitions, a, layerState[l]) :
          handler' = [handler EXCEPT ![h] =
                 [ step |-> "read", endpoint |-> e, action |-> a,
                   rows |-> rows, next |-> next, request |-> "none",
                   seen |-> IF Follows(e, a) = "none" THEN "none" ELSE requestState,
                   count |-> IF e # "provideStatusReported" THEN 0
                             ELSE IF a = "LayerAssessmentReviewAccept"
                                  THEN iterationCount[l] + 1
                                  ELSE iterationCount[l] ]]
    BY <2>3
  <2>5. /\ handler'[h].step = "read" /\ handler'[h].endpoint = e
        /\ handler'[h].action = a /\ handler'[h].rows = rows
        /\ handler'[h].next = next
        /\ Follows(e, a) # "none" => handler'[h].seen = requestState
        /\ e = "provideStatusReported" =>
             handler'[h].count = IF a = "LayerAssessmentReviewAccept"
                                 THEN iterationCount[l] + 1
                                 ELSE iterationCount[l]
    BY <2>4 DEF TypeOK
  <2>6. UNCHANGED <<requestState, layerState, iterationCount>> /\ Live' = Live
    BY <2>2 DEF Read, Live
  <2>7. /\ rows # {} /\ rows \subseteq Live
        /\ e # "updateMultipleLayers" => \E m \in rows : rows = {m}
        /\ a = "LayerAssessmentReviewAccept" =>
             \A m \in rows : iterationCount[m] < MaxIteration
    BY <2>2 DEF Read
  <2>8. \A m, other \in rows : layerState[other] = layerState[m]
    BY <2>3
  <2>9. \A m \in rows :
          next \in NextStates(LayerTransitions, a, layerState[m])
    BY <2>3, <2>4
  <2>10. e = "provideStatusReported" => rows = {l}
    BY <2>7
  <2>11. ReadHolds(h)'
    BY <2>5, <2>6, <2>7, <2>8, <2>9, <2>10 DEF ReadHolds
  <2>12. e # "edit"
    BY DEF LayerEndpoints
  <2>13. QED
    BY <2>5, <2>11, <2>12 DEF SerialInv
<1>3. ASSUME NEW h \in Handlers, ReadRequest(h) PROVE SerialInv'
  <2>1. PICK e \in Endpoints \cap RequestEndpoints :
          \E a \in EndpointActions(e) :
          \E request \in NextStates(RequestTransitions, a, requestState) :
            handler' = [handler EXCEPT ![h] =
              [ Idle EXCEPT !.step = "worked", !.endpoint = e, !.action = a,
                            !.request = request ]]
    BY <1>3 DEF ReadRequest
  <2>2. PICK a \in EndpointActions(e) :
          \E request \in NextStates(RequestTransitions, a, requestState) :
            handler' = [handler EXCEPT ![h] =
              [ Idle EXCEPT !.step = "worked", !.endpoint = e, !.action = a,
                            !.request = request ]]
    BY <2>1
  <2>3. PICK request \in NextStates(RequestTransitions, a, requestState) :
          handler' = [handler EXCEPT ![h] =
            [ Idle EXCEPT !.step = "worked", !.endpoint = e, !.action = a,
                          !.request = request ]]
    BY <2>2
  <2>4. /\ handler'[h].step = "worked" /\ handler'[h].endpoint = e
        /\ handler'[h].action = a /\ handler'[h].rows = {}
        /\ handler'[h].request = request
    BY <2>3 DEF TypeOK, Idle
  <2>5. UNCHANGED requestState
    BY <1>3 DEF ReadRequest
  <2>6. WorkHolds(h)'
    BY <2>4, <2>5 DEF WorkHolds
  <2>7. e # "edit"
    BY DEF RequestEndpoints
  <2>8. QED
    BY <2>4, <2>6, <2>7 DEF SerialInv
<1>4. ASSUME NEW h \in Handlers, Work(h) PROVE SerialInv'
  <2>1. PICK request \in RequestWrite(h) :
          handler' = [handler EXCEPT ![h].step = "worked",
                                     ![h].request = request]
    BY <1>4 DEF Work
  <2>2. /\ handler'[h].step = "worked" /\ handler'[h].request = request
        /\ handler'[h].endpoint = handler[h].endpoint
        /\ handler'[h].action = handler[h].action
        /\ handler'[h].rows = handler[h].rows
        /\ handler'[h].next = handler[h].next
        /\ handler'[h].seen = handler[h].seen
        /\ handler'[h].count = handler[h].count
    BY <2>1 DEF TypeOK, HandlerType
  <2>3. UNCHANGED <<requestState, layerState, iterationCount>> /\ Live' = Live
    BY <1>4 DEF Work, Live
  <2>4. ReadHolds(h)
    BY <1>4 DEF Work, InTransaction, SerialInv
  <2>5. ReadHolds(h)'
    BY <2>2, <2>3, <2>4 DEF ReadHolds
  <2>6. \A l \in Live : Visible(h, l)' = Visible(h, l)
    BY <2>2, <2>3 DEF Visible
  <2>7. RequestWrite(h)' = RequestWrite(h)
    BY <2>2, <2>3, <2>6 DEF RequestWrite
  <2>8. WorkHolds(h)'
    BY <2>1, <2>2, <2>5, <2>7 DEF WorkHolds
  <2>9. handler[h].endpoint # "edit"
    BY DEF SerialInv
  <2>10. QED
    BY <2>2, <2>8, <2>9 DEF SerialInv
<1>5. ASSUME NEW h \in Handlers, Throw(h) \/ Commit(h) \/ Fail(h)
      PROVE  SerialInv'
  BY <1>5, SerialIdle DEF Throw, Commit, Fail
<1>6. ASSUME NEW h \in Handlers, Edit(h) PROVE FALSE
  BY <1>6 DEF SerialInv, Edit, ReadEdit, SaveEdit, RemoveLayer, AddLayer
<1>7. QED
  BY <1>1, <1>2, <1>3, <1>4, <1>5, <1>6 DEF Next, Handle

\* It holds before the first handler begins.
LEMMA SerialInit == Init => SerialInv
BY DEF Init, SerialInv, Idle

-----------------------------------------------------------------------------
(* The refinement of AssessmentWorkflow.                                   *)

\* The first states of the two specifications are the same.
LEMMA FormedFirst == Init => Workflow!FormedInit
<1> SUFFICES ASSUME Init PROVE Workflow!FormedInit
  OBVIOUS
<1>1. PICK created \in (SUBSET Layers) \ {{}} :
        layerState = [l \in Layers |-> IF l \in created THEN "onboarding"
                                       ELSE "absent"]
  BY DEF Init
<1>2. layerState
        = Workflow!SetAll([l \in Layers |-> "absent"], created, "onboarding")
  BY <1>1 DEF Workflow!SetAll
<1>3. QED
  BY <1>1, <1>2 DEF Init, Workflow!FormedInit

\* The layers of a commit, when they are still what the handler read.
LEMMA CommitLayers ==
  ASSUME TypeOK, NEW h \in Handlers, ReadHolds(h), Commit(h)
  PROVE  /\ layerState' = [l \in Layers |-> IF l \in handler[h].rows
                                           THEN handler[h].next
                                           ELSE layerState[l]]
         /\ handler[h].next \in EvaluationStates
         /\ Live' = Live
         /\ \A l \in Live : Visible(h, l) = layerState'[l]
<1> PICK me : me = handler[h]
  OBVIOUS
<1>1. me.rows # {} /\ me.rows \subseteq Live
  BY DEF ReadHolds
<1>2. me.endpoint \in LayerEndpoints /\ me.action \in EndpointActions(me.endpoint)
  BY DEF ReadHolds
<1>3. PICK l \in me.rows :
        me.next \in NextStates(LayerTransitions, me.action, layerState[l])
  BY <1>1 DEF ReadHolds
<1>4. me.next \in EvaluationStates
  BY <1>2, <1>3, EndpointTargets
<1>5. me.rows \cap Live = me.rows
  BY <1>1
<1>6. layerState' = [m \in Layers |-> IF m \in me.rows THEN me.next
                                      ELSE layerState[m]]
  BY <1>5 DEF Commit
<1>7. Live' = Live
  BY <1>1, <1>4, <1>6 DEF Live, LayerStates
<1>8. \A m \in Live : Visible(h, m) = layerState'[m]
  BY <1>6 DEF Visible, Live
<1>9. QED
  BY <1>4, <1>6, <1>7, <1>8

\* A commit of one layer is the move of that layer.
LEMMA CommitMoves ==
  ASSUME TypeOK, NEW h \in Handlers, ReadHolds(h), Commit(h),
         NEW l \in handler[h].rows, handler[h].rows = {l}
  PROVE  /\ l \in Layers /\ l \in Live
         /\ Workflow!MoveLayer(l, handler[h].action)
         /\ layerState'[l] = handler[h].next
<1>1. l \in Live /\ l \in Layers
  BY DEF ReadHolds, Live
<1>2. handler[h].next
        \in NextStates(LayerTransitions, handler[h].action, layerState[l])
  BY DEF ReadHolds
<1>3. layerState' = [m \in Layers |-> IF m = l THEN handler[h].next
                                      ELSE layerState[m]]
  BY CommitLayers
<1>4. layerState' = [layerState EXCEPT ![l] = handler[h].next]
  BY <1>1, <1>3 DEF TypeOK
<1>5. handler[h].next \in Workflow!NextStates(Workflow!LayerTransitions,
                            handler[h].action, layerState[l])
  BY <1>2, SameTables
<1>6. QED
  BY <1>1, <1>3, <1>4, <1>5 DEF Workflow!MoveLayer

\* A commit that counts no iteration leaves the counters alone.
LEMMA CommitCounts ==
  ASSUME TypeOK, NEW h \in Handlers, ReadHolds(h), Commit(h)
  PROVE  /\ handler[h].action # "LayerAssessmentReviewAccept"
              => UNCHANGED iterationCount
         /\ \A l : /\ handler[h].endpoint = "provideStatusReported"
                   /\ handler[h].action = "LayerAssessmentReviewAccept"
                   /\ handler[h].rows = {l}
              => /\ iterationCount[l] < MaxIteration
                 /\ iterationCount' = [iterationCount EXCEPT ![l] = @ + 1]
<1> PICK me : me = handler[h]
  OBVIOUS
<1>1. iterationCount' = [l \in Layers |-> IF /\ me.endpoint = "provideStatusReported"
                                             /\ l \in me.rows
                                          THEN me.count ELSE iterationCount[l]]
  BY DEF Commit
<1>2. iterationCount = [l \in Layers |-> iterationCount[l]]
  BY DEF TypeOK
<1>3. me.action # "LayerAssessmentReviewAccept" => UNCHANGED iterationCount
  <2> SUFFICES ASSUME me.action # "LayerAssessmentReviewAccept"
               PROVE  UNCHANGED iterationCount
    OBVIOUS
  <2>1. me.endpoint = "provideStatusReported" =>
          \A l \in me.rows : me.count = iterationCount[l]
    BY DEF ReadHolds
  <2>2. iterationCount' = [l \in Layers |-> iterationCount[l]]
    BY <1>1, <2>1
  <2>3. QED
    BY <1>2, <2>2
<1>4. ASSUME NEW l, me.endpoint = "provideStatusReported",
             me.action = "LayerAssessmentReviewAccept", me.rows = {l}
      PROVE  /\ iterationCount[l] < MaxIteration
             /\ iterationCount' = [iterationCount EXCEPT ![l] = @ + 1]
  <2>1. iterationCount[l] < MaxIteration /\ me.count = iterationCount[l] + 1
    BY <1>4 DEF ReadHolds
  <2>2. iterationCount' = [m \in Layers |-> IF m = l THEN iterationCount[l] + 1
                                            ELSE iterationCount[m]]
    BY <1>1, <1>4, <2>1
  <2>3. QED
    BY <1>2, <2>1, <2>2
<1>5. QED
  BY <1>3, <1>4

\* A commit that follows the layers moves the request when all layers, as it
\* leaves them, are where the request waits for them.
LEMMA CommitFollows ==
  ASSUME TypeOK, NEW h \in Handlers, ReadHolds(h), Commit(h),
         handler[h].request \in RequestWrite(h),
         handler[h].action # "LayerAssessmentFulfilledReinstate"
  PROVE  /\ Follows(handler[h].endpoint, handler[h].action) = "none"
              => UNCHANGED requestState
         /\ Follows(handler[h].endpoint, handler[h].action) # "none"
              => Workflow!RequestFollows(
                   ExpectedStates(handler[h].next, LaterActions(handler[h].endpoint)),
                   Follows(handler[h].endpoint, handler[h].action))
<1> PICK me : me = handler[h]
  OBVIOUS
<1> DEFINE target == Follows(me.endpoint, me.action)
           expected == ExpectedStates(me.next, LaterActions(me.endpoint))
           agreed == \A l \in Live : Visible(h, l) \in expected
<1>1. me.request \in IF target # "none" /\ agreed
                     THEN NextStates(RequestTransitions, target, me.seen)
                     ELSE {"none"}
  BY DEF RequestWrite
<1>2. requestState' = IF me.request = "none" THEN requestState ELSE me.request
  BY DEF Commit
<1>3. agreed <=> Workflow!AllLiveIn(layerState', expected)
  <2>1. Workflow!Live(layerState') = Live
    BY CommitLayers, SameTables DEF Workflow!Live, Live
  <2>2. \A l \in Live : Visible(h, l) = layerState'[l]
    BY CommitLayers
  <2> HIDE DEF expected
  <2>3. QED
    BY <2>1, <2>2 DEF Workflow!AllLiveIn
<1>4. CASE target = "none"
  BY <1>1, <1>2, <1>4
<1>5. CASE target # "none"
  <2>1. me.seen = requestState
    BY <1>5 DEF ReadHolds
  <2>2. CASE agreed
    <3>1. me.request \in NextStates(RequestTransitions, target, requestState)
      BY <1>1, <1>5, <2>1, <2>2
    <3>2. me.request \in RequestStates /\ me.request # "none"
      BY <3>1, RequestRows DEF RequestStates
    <3>3. requestState' \in Workflow!NextStates(Workflow!RequestTransitions,
                              target, requestState)
      BY <1>2, <3>1, <3>2, SameTables
    <3> HIDE DEF target, expected
    <3>4. Workflow!RequestFollows(expected, target)
      BY <1>3, <2>2, <3>3 DEF Workflow!RequestFollows
    <3>5. QED
      BY <1>5, <3>4 DEF target, expected
  <2>3. CASE ~ agreed
    <3>1. requestState' = requestState
      BY <1>1, <1>2, <2>3
    <3>2. ~ Workflow!AllLiveIn(layerState', expected)
      BY <1>3, <2>3
    <3> HIDE DEF target, expected
    <3>3. Workflow!RequestFollows(expected, target)
      BY <3>1, <3>2 DEF Workflow!RequestFollows
    <3>4. QED
      BY <1>5, <3>3 DEF target, expected
  <2>4. QED
    BY <2>2, <2>3
<1>6. QED
  BY <1>4, <1>5

\* A commit of a layer's endpoint is that endpoint's step of the workflow.
LEMMA CommitOfLayer ==
  ASSUME TypeOK, NEW h \in Handlers, ReadHolds(h), Commit(h),
         handler[h].request \in RequestWrite(h)
  PROVE  Workflow!Analysis
<1> PICK e, a : e = handler[h].endpoint /\ a = handler[h].action
  OBVIOUS
<1>1. e \in LayerEndpoints /\ a \in EndpointActions(e)
  BY DEF ReadHolds
<1>2. ASSUME NEW l \in handler[h].rows, handler[h].rows = {l},
             a # "LayerAssessmentFulfilledReinstate"
      PROVE  Workflow!Analysis
  <2>1. /\ l \in Layers
        /\ Workflow!MoveLayer(l, a)
        /\ layerState'[l] = handler[h].next
    BY <1>2, CommitMoves
  <2>2. Follows(e, a) = "none" => UNCHANGED requestState
    BY <1>2, CommitFollows
  <2>3. Follows(e, a) # "none" => Workflow!RequestFollows(
          ExpectedStates(layerState'[l], LaterActions(e)), Follows(e, a))
    BY <1>2, <2>1, CommitFollows
  <2>4. a # "LayerAssessmentReviewAccept" => UNCHANGED iterationCount
    BY CommitCounts
  <2>5. CASE e = "finalizeSpec"
    <3>1. a = "OnboardingFinalizeSpecs"
      BY <1>1, <2>5 DEF EndpointActions
    <3>2. Follows(e, a) = "GroupReadyFinalizeSpecs"
            /\ LaterActions(e) = ActionsAfterSpecs
      BY <2>5 DEF Follows, LaterActions
    <3>3. Workflow!RequestFollows(
            ExpectedStates(layerState'[l], ActionsAfterSpecs),
            "GroupReadyFinalizeSpecs")
      BY <2>3, <3>2
    <3>4. ExpectedStates(layerState'[l], ActionsAfterSpecs)
            = Workflow!ExpectedStates(layerState'[l], Workflow!ActionsAfterSpecs)
      BY SameTables
    <3>5. Workflow!FinalizeSpec(l)
      BY <2>1, <2>4, <3>1, <3>3, <3>4 DEF Workflow!FinalizeSpec
    <3>6. QED
      BY <2>1, <3>5 DEF Workflow!Analysis
  <2>6. CASE e = "provideTestCases"
    <3>1. a = "PendingLayerTestcasesSubmit" /\ Follows(e, a) = "none"
      BY <1>1, <2>6 DEF EndpointActions, Follows
    <3>2. Workflow!ProvideTestCases(l)
      BY <2>1, <2>2, <2>4, <3>1 DEF Workflow!ProvideTestCases
    <3>3. QED
      BY <2>1, <3>2 DEF Workflow!Analysis
  <2>7. CASE e = "provideStatusReported"
    <3>1. a \in ReviewActions \cup { "LayerAssessmentReviewAccept",
                                     "LayerAssessmentReviewFinish" }
      BY <1>1, <1>2, <2>7 DEF EndpointActions
    <3>2. CASE a \in ReviewActions
      <4>1. /\ a # "LayerAssessmentReviewAccept"
            /\ a # "LayerAssessmentReviewFinish"
            /\ a \in Workflow!ReviewActions
        BY <3>2 DEF ReviewActions, Workflow!ReviewActions
      <4>2. Follows(e, a) = "none"
        BY <2>7, <4>1 DEF Follows
      <4>3. Workflow!Review(l)
        BY <2>1, <2>2, <2>4, <4>1, <4>2 DEF Workflow!Review
      <4>4. QED
        BY <2>1, <4>3 DEF Workflow!Analysis
    <3>3. CASE a = "LayerAssessmentReviewAccept"
      <4>1. Follows(e, a) = "none"
        BY <2>7, <3>3 DEF Follows
      <4>2. /\ iterationCount[l] < MaxIteration
            /\ iterationCount' = [iterationCount EXCEPT ![l] = @ + 1]
        BY <1>2, <2>7, <3>3, CommitCounts
      <4>3. Workflow!IssueReport(l)
        BY <2>1, <2>2, <3>3, <4>1, <4>2 DEF Workflow!IssueReport
      <4>4. QED
        BY <2>1, <4>3 DEF Workflow!Analysis
    <3>4. CASE a = "LayerAssessmentReviewFinish"
      <4>1. Follows(e, a) = "UnderAnalysisWrapUp" /\ LaterActions(e) = {}
        BY <2>7, <3>4 DEF Follows, LaterActions
      <4>2. ExpectedStates(layerState'[l], {}) = {layerState'[l]}
        BY DEF ExpectedStates, TargetsOf
      <4>3. Workflow!RequestFollows({layerState'[l]}, "UnderAnalysisWrapUp")
        BY <2>3, <4>1, <4>2
      <4>4. Workflow!Finish(l)
        BY <2>1, <2>4, <3>4, <4>3 DEF Workflow!Finish
      <4>5. QED
        BY <2>1, <4>4 DEF Workflow!Analysis
    <3>5. QED
      BY <3>1, <3>2, <3>3, <3>4
  <2>8. CASE e = "reEvaluation"
    <3>1. a \in { "LayerReEvaluationRequestedAccept",
                  "LayerReEvaluationRequestedReject" }
      BY <1>1, <2>8 DEF EndpointActions
    <3>2. CASE a = "LayerReEvaluationRequestedReject"
      <4>1. Follows(e, a) = "none"
        BY <2>8, <3>2 DEF Follows
      <4>2. Workflow!RejectReEvaluation(l)
        BY <2>1, <2>2, <2>4, <3>2, <4>1 DEF Workflow!RejectReEvaluation
      <4>3. QED
        BY <2>1, <4>2 DEF Workflow!Analysis
    <3>3. CASE a = "LayerReEvaluationRequestedAccept"
      <4>1. Follows(e, a) = a /\ LaterActions(e) = {}
        BY <2>8, <3>3 DEF Follows, LaterActions
      <4>2. ExpectedStates(layerState'[l], {}) = {layerState'[l]}
        BY DEF ExpectedStates, TargetsOf
      <4>3. Workflow!RequestFollows({layerState'[l]}, a)
        BY <2>3, <3>3, <4>1, <4>2
      <4>4. Workflow!AcceptReEvaluation(l)
        BY <2>1, <2>4, <3>3, <4>3 DEF Workflow!AcceptReEvaluation
      <4>5. QED
        BY <2>1, <4>4 DEF Workflow!Analysis
    <3>4. QED
      BY <3>1, <3>2, <3>3
  <2>9. e # "updateMultipleLayers"
    BY <1>1, <1>2 DEF EndpointActions
  <2>10. QED
    BY <1>1, <2>5, <2>6, <2>7, <2>8, <2>9 DEF LayerEndpoints
<1>3. CASE a = "LayerAssessmentFulfilledReinstate"
  <2> PICK me : me = handler[h]
    OBVIOUS
  <2>1. PICK l \in me.rows :
          /\ \A other \in me.rows : layerState[other] = layerState[l]
          /\ me.next \in NextStates(LayerTransitions, a, layerState[l])
    BY DEF ReadHolds
  <2>2. me.rows \in (SUBSET Live) \ {{}} /\ layerState[l] \in LayerStates
    BY DEF ReadHolds, Live
  <2>3. layerState' = Workflow!SetAll(layerState, me.rows, me.next)
    BY CommitLayers DEF Workflow!SetAll
  <2>4. Workflow!Live(layerState) = Live
    BY SameTables DEF Workflow!Live, Live
  <2>5. me.next \in Workflow!NextStates(Workflow!LayerTransitions,
                      "LayerAssessmentFulfilledReinstate", layerState[l])
    BY <1>3, <2>1, SameTables
  <2>5a. e # "finalizeSpec"
    BY <1>1, <1>3 DEF EndpointActions
  <2>6. Follows(e, a) = "none"
    BY <1>3, <2>5a DEF Follows
  <2>7. me.request \in IF requestState = "statusReported"
                       THEN NextStates(RequestTransitions,
                              "StatusReportedNeedChanges", requestState)
                       ELSE {"none"}
    BY <1>3, <2>6 DEF RequestWrite
  <2>8. requestState' = IF me.request = "none" THEN requestState ELSE me.request
    BY DEF Commit
  <2>9. IF requestState = "statusReported"
        THEN requestState' \in Workflow!NextStates(Workflow!RequestTransitions,
                                 "StatusReportedNeedChanges", requestState)
        ELSE UNCHANGED requestState
    <3>1. CASE requestState = "statusReported"
      <4>1. me.request \in NextStates(RequestTransitions,
                             "StatusReportedNeedChanges", requestState)
        BY <2>7, <3>1
      <4>2. me.request # "none"
        BY <4>1, FollowingRows
      <4>3. QED
        BY <2>8, <3>1, <4>1, <4>2, SameTables
    <3>2. CASE requestState # "statusReported"
      BY <2>7, <2>8, <3>2
    <3>3. QED
      BY <3>1, <3>2
  <2>10. UNCHANGED iterationCount
    BY <1>3, CommitCounts
  <2>11. Workflow!Reinstate
    <3>1. me.rows \in (SUBSET Workflow!Live(layerState)) \ {{}}
      BY <2>2, <2>4
    <3>2. layerState[l] \in Workflow!LayerStates
      BY <2>2, SameTables
    <3>3. \A other \in me.rows : layerState[other] = layerState[l]
      BY <2>1
    <3>4. QED
      BY <2>3, <2>5, <2>9, <2>10, <3>1, <3>2, <3>3 DEF Workflow!Reinstate
  <2>12. QED
    BY <2>11 DEF Workflow!Analysis
<1>4. e = "updateMultipleLayers" => a = "LayerAssessmentFulfilledReinstate"
  BY <1>1 DEF EndpointActions
<1>5. e # "updateMultipleLayers" => \E l \in handler[h].rows : handler[h].rows = {l}
  BY DEF ReadHolds
<1>6. QED
  BY <1>2, <1>3, <1>4, <1>5

\* ... and a commit of an endpoint of the request is one of its two.
LEMMA CommitOfRequest ==
  ASSUME TypeOK, NEW h \in Handlers, WorkHolds(h), ~ ReadHolds(h), Commit(h)
  PROVE  Workflow!Analysis
<1> PICK me : me = handler[h]
  OBVIOUS
<1>1. /\ me.endpoint \in RequestEndpoints
      /\ me.action \in EndpointActions(me.endpoint)
      /\ me.rows = {}
      /\ me.request \in NextStates(RequestTransitions, me.action, requestState)
  BY DEF WorkHolds
<1>2. me.request # "none"
  BY <1>1, RequestRows DEF RequestStates
<1>3. layerState' = [l \in Layers |-> layerState[l]]
  BY <1>1 DEF Commit
<1>4. iterationCount' = [l \in Layers |-> iterationCount[l]]
  BY <1>1 DEF Commit
<1>5. UNCHANGED <<layerState, iterationCount>>
  BY <1>3, <1>4 DEF TypeOK
<1>6. requestState' \in Workflow!NextStates(Workflow!RequestTransitions,
                          me.action, requestState)
  BY <1>1, <1>2, SameTables DEF Commit
<1>7. me.action \in {"StatusReportedFinalize", "ClosedReopen"}
  BY <1>1 DEF RequestEndpoints, EndpointActions
<1>8. QED
  BY <1>5, <1>6, <1>7
  DEF Workflow!Analysis, Workflow!CloseRequest, Workflow!ReopenRequest

\* Every step of a handler that is alone is a step of the workflow, or none.
LEMMA SerialImplements ==
  ASSUME "edit" \notin Endpoints, TypeOK, SerialInv, [Next]_vars
  PROVE  [Workflow!Analysis]_(Workflow!vars)
<1>1. CASE UNCHANGED vars
  BY <1>1 DEF vars, Workflow!vars
<1>2. ASSUME NEW h \in Handlers, Commit(h)
      PROVE  Workflow!Analysis
  <2>1. WorkHolds(h)
    BY <1>2 DEF Commit, SerialInv
  <2>2. CASE ReadHolds(h) /\ handler[h].request \in RequestWrite(h)
    BY <1>2, <2>2, CommitOfLayer
  <2>3. CASE ~ ReadHolds(h)
    BY <1>2, <2>1, <2>3, CommitOfRequest
  <2>4. ASSUME ReadHolds(h), handler[h].request \notin RequestWrite(h)
        PROVE  FALSE
    BY <2>1, <2>4 DEF WorkHolds, ReadHolds, LayerEndpoints, RequestEndpoints
  <2>5. QED
    BY <2>2, <2>3, <2>4
<1>3. ASSUME NEW h \in Handlers, Edit(h) PROVE FALSE
  BY <1>3 DEF SerialInv, Edit, ReadEdit, SaveEdit, RemoveLayer, AddLayer
<1>4. ASSUME NEW h \in Handlers,
             ReadLayer(h) \/ ReadRequest(h) \/ Work(h) \/ Throw(h) \/ Fail(h)
      PROVE  UNCHANGED Workflow!vars
  BY <1>4 DEF ReadLayer, Read, ReadRequest, Work, Throw, Fail, Workflow!vars
<1>5. QED
  BY <1>1, <1>2, <1>3, <1>4 DEF Next, Handle

\* For any set of layers: as long as no two handlers overlap and nobody edits
\* the request, the round trips of the analysis endpoints, their failures
\* included, implement the analysis phase of the workflow: reading, working
\* and failing change nothing, and a commit is the atomic step of its endpoint.
THEOREM SerialRefinement ==
  ASSUME "edit" \notin Endpoints, \A g, h \in Handlers : g = h
  PROVE  Spec => ImplementsWorkflow
<1>1. Init => SerialInv /\ Workflow!FormedInit
  BY SerialInit, FormedFirst
<1>2. TypeOK /\ SerialInv /\ [Next]_vars => SerialInv'
  BY SerialStep
<1>3. TypeOK /\ SerialInv /\ [Next]_vars => [Workflow!Analysis]_(Workflow!vars)
  BY SerialImplements
<1>4. QED
  BY <1>1, <1>2, <1>3, Typing, PTL
  DEF Spec, ImplementsWorkflow, Workflow!AnalysisSpec

-----------------------------------------------------------------------------
(* What the workflow keeps, and so a handler that is alone.                *)

\* The states awaited when the specs of a layer become final are all the
\* evaluation states: the later actions leave none of them out but the first,
\* which is that of the layer itself.
LEMMA LaterTargetsAreAll ==
  EvaluationStates \subseteq ExpectedStates("pendingLayerTestcases", ActionsAfterSpecs)
<1>1. ASSUME NEW row \in AnalysisTransitions, row[2] \in ActionsAfterSpecs
      PROVE  row[3] \in TargetsOf(ActionsAfterSpecs)
  BY <1>1 DEF TargetsOf, AllNextStates, LayerTransitions
<1>2. \A s \in EvaluationStates \ {"pendingLayerTestcases"} :
        \E row \in AnalysisTransitions : row[2] \in ActionsAfterSpecs /\ row[3] = s
  BY DEF EvaluationStates, AnalysisTransitions, ActionsAfterSpecs
<1>3. QED
  BY <1>1, <1>2 DEF ExpectedStates

\* The actions of the analysis on a layer but the first stay in the evaluation,
\* and only Finish fulfils a layer.
LEMMA EvaluationMove ==
  ASSUME NEW a \in ReviewActions \cup
               { "PendingLayerTestcasesSubmit", "LayerAssessmentReviewAccept",
                 "LayerAssessmentReviewFinish",
                 "LayerAssessmentFulfilledReinstate" },
         NEW s, NEW n \in NextStates(LayerTransitions, a, s)
  PROVE  /\ s \in EvaluationStates /\ n \in EvaluationStates
         /\ n = "layerAssessmentFulfilled" <=> a = "LayerAssessmentReviewFinish"
<1>1. PICK row \in LayerTransitions : row[1] = s /\ row[2] = a /\ row[3] = n
  BY DEF NextStates
<1>2. row \notin FormationTransitions
  BY <1>1 DEF FormationTransitions, ReviewActions
<1>3. row \in AnalysisTransitions /\ row[2] # "OnboardingFinalizeSpecs"
  BY <1>1, <1>2 DEF LayerTransitions, ReviewActions
<1>4. QED
  BY <1>1, <1>3 DEF AnalysisTransitions, EvaluationStates

\* Specs are finalized by a layer in onboarding only.
LEMMA OnboardingMove ==
  ASSUME NEW s, NEW n \in NextStates(LayerTransitions, "OnboardingFinalizeSpecs", s)
  PROVE  s = "onboarding" /\ n = "pendingLayerTestcases"
BY DEF NextStates, LayerTransitions, FormationTransitions, AnalysisTransitions

(***************************************************************************)
(* The invariant of the workflow's analysis: the request and its layers    *)
(* are in the same phase, in both directions.                              *)
(***************************************************************************)
PhasesAgree ==
  /\ requestState \in {"groupReady"} \cup AnalysedStates
  /\ Live # {}
  /\ AnalysedLayersEvaluated
  /\ GroupReadyAwaitsSpecs
  /\ FulfilledRequestIsReported

\* A layer that moves within the evaluation, to another state than fulfilled,
\* breaks no agreement, whether its request stays or is taken up again.
LEMMA EvaluationAgrees ==
  ASSUME TypeOK, PhasesAgree, Live' = Live,
         NEW moved \in (SUBSET Live) \ {{}},
         \A l \in moved : /\ layerState[l] \in EvaluationStates
                          /\ layerState'[l] \in EvaluationStates
                          /\ layerState'[l] # "layerAssessmentFulfilled",
         \A l \in Live \ moved : layerState'[l] = layerState[l],
         \/ UNCHANGED requestState
         \/ requestState \in AnalysedStates /\ requestState' = "underAnalysis"
  PROVE  PhasesAgree'
<1>1. AnalysedLayersEvaluated'
  BY DEF PhasesAgree, AnalysedLayersEvaluated, AnalysedStates
<1>2. GroupReadyAwaitsSpecs'
  BY DEF PhasesAgree, GroupReadyAwaitsSpecs
<1>3. FulfilledRequestIsReported'
  BY DEF FulfilledRequestIsReported
<1>4. QED
  BY <1>1, <1>2, <1>3 DEF PhasesAgree, AnalysedStates

\* The move of a layer by an action of the layer table, in the words of this
\* module.
LEMMA MoveInOwnWords ==
  ASSUME TypeOK, NEW l \in Layers, NEW a, Workflow!MoveLayer(l, a)
  PROVE  /\ layerState'[l] \in NextStates(LayerTransitions, a, layerState[l])
         /\ \A o \in Layers \ {l} : layerState'[o] = layerState[o]
BY SameTables DEF Workflow!MoveLayer, TypeOK

\* No step of the workflow's analysis lets the phases part.
LEMMA AgreementStep ==
  ASSUME TypeOK, PhasesAgree, Workflow!Analysis
  PROVE  PhasesAgree'
<1>0. EvaluationStates \subseteq LayerStates /\ "onboarding" \in LayerStates
        /\ "onboarding" \notin EvaluationStates
        /\ "pendingLayerTestcases" \in EvaluationStates
  BY DEF LayerStates, FormationStates, EvaluationStates
<1>1. ASSUME NEW l \in Layers, Workflow!FinalizeSpec(l) PROVE PhasesAgree'
  <2>1. /\ layerState'[l] \in NextStates(LayerTransitions,
                                "OnboardingFinalizeSpecs", layerState[l])
        /\ \A o \in Layers \ {l} : layerState'[o] = layerState[o]
    BY <1>1, MoveInOwnWords DEF Workflow!FinalizeSpec
  <2>2. layerState[l] = "onboarding" /\ layerState'[l] = "pendingLayerTestcases"
    BY <2>1, OnboardingMove
  <2>3. Live' = Live /\ l \in Live
    BY <1>0, <2>1, <2>2 DEF Live
  <2>4. requestState = "groupReady"
    BY <1>0, <2>2, <2>3 DEF PhasesAgree, AnalysedLayersEvaluated
  <2> DEFINE expected == ExpectedStates("pendingLayerTestcases", ActionsAfterSpecs)
  <2>5. Workflow!ExpectedStates("pendingLayerTestcases", Workflow!ActionsAfterSpecs)
          = expected
    BY SameTables
  <2> HIDE DEF expected
  <2>6. Workflow!RequestFollows(expected, "GroupReadyFinalizeSpecs")
    BY <1>1, <2>2, <2>5 DEF Workflow!FinalizeSpec
  <2>7. Workflow!AllLiveIn(layerState', expected)
          <=> \A o \in Live' : layerState'[o] \in expected
    BY SameTables DEF Workflow!AllLiveIn, Workflow!Live, Live
  <2>8. FulfilledRequestIsReported'
    BY <2>2, <2>3 DEF FulfilledRequestIsReported
  <2>9. EvaluationStates \subseteq expected /\ expected \subseteq EvaluationStates
    BY <1>0, LaterTargetsAreAll, LaterTargets DEF expected, ExpectedStates
  <2>10. CASE Workflow!AllLiveIn(layerState', expected)
    <3>1. requestState' = "underAnalysis"
      BY <2>6, <2>10, SameTables, FollowingRows DEF Workflow!RequestFollows
    <3>2. QED
      BY <2>3, <2>7, <2>8, <2>9, <2>10, <3>1
      DEF PhasesAgree, AnalysedLayersEvaluated, GroupReadyAwaitsSpecs, AnalysedStates
  <2>11. CASE ~ Workflow!AllLiveIn(layerState', expected)
    <3>1. requestState' = "groupReady"
      BY <2>4, <2>6, <2>11 DEF Workflow!RequestFollows
    <3>2. GroupReadyAwaitsSpecs'
      BY <2>7, <2>9, <2>11 DEF GroupReadyAwaitsSpecs
    <3>3. QED
      BY <2>3, <2>8, <3>1, <3>2
      DEF PhasesAgree, AnalysedLayersEvaluated, AnalysedStates
  <2>12. QED
    BY <2>10, <2>11
<1>2. ASSUME NEW l \in Layers,
             NEW a \in ReviewActions \cup { "PendingLayerTestcasesSubmit",
                                            "LayerAssessmentReviewAccept" },
             Workflow!MoveLayer(l, a), UNCHANGED requestState
      PROVE  PhasesAgree'
  <2>1. /\ layerState'[l] \in NextStates(LayerTransitions, a, layerState[l])
        /\ \A o \in Layers \ {l} : layerState'[o] = layerState[o]
    BY <1>2, MoveInOwnWords
  <2>2. a # "LayerAssessmentReviewFinish"
    BY DEF ReviewActions
  <2>3. /\ layerState[l] \in EvaluationStates /\ layerState'[l] \in EvaluationStates
        /\ layerState'[l] # "layerAssessmentFulfilled"
    BY <2>1, <2>2, EvaluationMove
  <2>4. Live' = Live /\ l \in Live
    BY <1>0, <2>1, <2>3 DEF Live
  <2>5. {l} \in (SUBSET Live) \ {{}} /\ \A o \in Live \ {l} : layerState'[o] = layerState[o]
    BY <2>1, <2>4 DEF Live
  <2>6. QED
    BY <1>2, <2>3, <2>4, <2>5, EvaluationAgrees
<1>3. ASSUME NEW l \in Layers, Workflow!Finish(l) PROVE PhasesAgree'
  <2>1. /\ layerState'[l] \in NextStates(LayerTransitions,
                                "LayerAssessmentReviewFinish", layerState[l])
        /\ \A o \in Layers \ {l} : layerState'[o] = layerState[o]
    BY <1>3, MoveInOwnWords DEF Workflow!Finish
  <2>2. /\ layerState[l] \in EvaluationStates
        /\ layerState'[l] = "layerAssessmentFulfilled"
        /\ layerState'[l] \in EvaluationStates
    BY <2>1, EvaluationMove
  <2>3. Live' = Live /\ l \in Live
    BY <1>0, <2>1, <2>2 DEF Live
  <2>4. Workflow!RequestFollows({"layerAssessmentFulfilled"}, "UnderAnalysisWrapUp")
    BY <1>3, <2>2 DEF Workflow!Finish
  <2>5. Workflow!AllLiveIn(layerState', {"layerAssessmentFulfilled"})
          <=> \A o \in Live' : layerState'[o] = "layerAssessmentFulfilled"
    BY SameTables DEF Workflow!AllLiveIn, Workflow!Live, Live
  <2>6. \A o \in Live : \/ layerState'[o] = layerState[o]
                        \/ /\ layerState[o] \in EvaluationStates
                           /\ layerState'[o] \in EvaluationStates
    BY <2>1, <2>2 DEF Live
  <2>7. CASE Workflow!AllLiveIn(layerState', {"layerAssessmentFulfilled"})
    <3>1. requestState = "underAnalysis" /\ requestState' = "statusReported"
      BY <2>4, <2>7, SameTables, FollowingRows DEF Workflow!RequestFollows
    <3>2. QED
      BY <2>3, <2>6, <3>1
      DEF PhasesAgree, AnalysedLayersEvaluated, GroupReadyAwaitsSpecs,
          FulfilledRequestIsReported, AnalysedStates
  <2>8. CASE ~ Workflow!AllLiveIn(layerState', {"layerAssessmentFulfilled"})
    <3>1. UNCHANGED requestState
      BY <2>4, <2>8 DEF Workflow!RequestFollows
    <3>2. FulfilledRequestIsReported'
      BY <2>5, <2>8 DEF FulfilledRequestIsReported
    <3>3. QED
      BY <2>3, <2>6, <3>1, <3>2
      DEF PhasesAgree, AnalysedLayersEvaluated, GroupReadyAwaitsSpecs
  <2>9. QED
    BY <2>7, <2>8
<1>4. ASSUME NEW l \in Layers, Workflow!AcceptReEvaluation(l) PROVE PhasesAgree'
  <2>1. UNCHANGED requestState
    BY <1>4, SameTables, FollowingRows
    DEF Workflow!AcceptReEvaluation, Workflow!RequestFollows
  <2>2. Workflow!MoveLayer(l, "LayerReEvaluationRequestedAccept")
    BY <1>4 DEF Workflow!AcceptReEvaluation
  <2>3. QED
    BY <1>2, <2>1, <2>2 DEF ReviewActions
<1>5. CASE Workflow!Reinstate
  <2>1. PICK listed \in (SUBSET Workflow!Live(layerState)) \ {{}},
             state \in Workflow!LayerStates :
          /\ \A l \in listed : layerState[l] = state
          /\ \E next \in Workflow!NextStates(Workflow!LayerTransitions,
                           "LayerAssessmentFulfilledReinstate", state) :
               layerState' = Workflow!SetAll(layerState, listed, next)
    BY <1>5 DEF Workflow!Reinstate
  <2>2. PICK next \in NextStates(LayerTransitions,
                        "LayerAssessmentFulfilledReinstate", state) :
          layerState' = Workflow!SetAll(layerState, listed, next)
    BY <2>1, SameTables
  <2>3. /\ state \in EvaluationStates /\ next \in EvaluationStates
        /\ next # "layerAssessmentFulfilled"
    BY <2>2, EvaluationMove
  <2>4. listed \in (SUBSET Live) \ {{}}
    BY SameTables DEF Workflow!Live, Live
  <2>5. \A l \in Layers : layerState'[l] = IF l \in listed THEN next ELSE layerState[l]
    BY <2>2 DEF Workflow!SetAll
  <2>6. Live' = Live
    BY <1>0, <2>3, <2>4, <2>5 DEF Live
  <2>7. \/ UNCHANGED requestState
        \/ requestState \in AnalysedStates /\ requestState' = "underAnalysis"
    BY <1>5, SameTables, FollowingRows DEF Workflow!Reinstate, AnalysedStates
  <2>8. /\ \A l \in listed : /\ layerState[l] \in EvaluationStates
                             /\ layerState'[l] \in EvaluationStates
                             /\ layerState'[l] # "layerAssessmentFulfilled"
        /\ \A l \in Live \ listed : layerState'[l] = layerState[l]
    BY <2>1, <2>3, <2>4, <2>5 DEF Live
  <2>9. QED
    BY <2>4, <2>6, <2>7, <2>8, EvaluationAgrees
<1>6. CASE Workflow!CloseRequest \/ Workflow!ReopenRequest
  <2>1. /\ requestState \in {"statusReported", "closed"}
        /\ requestState' \in {"statusReported", "closed"}
        /\ UNCHANGED layerState
    BY <1>6, SameTables, FollowingRows
    DEF Workflow!CloseRequest, Workflow!ReopenRequest
  <2>2. Live' = Live
    BY <2>1 DEF Live
  <2>3. QED
    BY <2>1, <2>2
    DEF PhasesAgree, AnalysedLayersEvaluated, GroupReadyAwaitsSpecs,
        FulfilledRequestIsReported, AnalysedStates
<1>7. ASSUME NEW l \in Layers,
             \/ Workflow!ProvideTestCases(l) \/ Workflow!Review(l)
             \/ Workflow!IssueReport(l) \/ Workflow!RejectReEvaluation(l)
      PROVE  PhasesAgree'
  <2>1. /\ UNCHANGED requestState
        /\ \E a \in ReviewActions \cup { "PendingLayerTestcasesSubmit",
                                         "LayerAssessmentReviewAccept" } :
             Workflow!MoveLayer(l, a)
    BY <1>7
    DEF Workflow!ProvideTestCases, Workflow!Review, Workflow!IssueReport,
        Workflow!RejectReEvaluation, ReviewActions, Workflow!ReviewActions
  <2>2. QED
    BY <1>2, <2>1
<1>8. QED
  BY <1>1, <1>3, <1>4, <1>5, <1>6, <1>7 DEF Workflow!Analysis

\* It holds of a request whose team was just formed.
LEMMA AgreementInit == Init => PhasesAgree
<1> SUFFICES ASSUME Init PROVE PhasesAgree
  OBVIOUS
<1>1. PICK created \in (SUBSET Layers) \ {{}} :
        layerState = [l \in Layers |-> IF l \in created THEN "onboarding"
                                       ELSE "absent"]
  BY DEF Init
<1>2. Live = created
  BY <1>1 DEF Live, LayerStates, FormationStates, EvaluationStates
<1>3. \A l \in Live : layerState[l] = "onboarding"
  BY <1>1, <1>2
<1>4. requestState = "groupReady"
  BY DEF Init
<1>5. QED
  BY <1>2, <1>3, <1>4
  DEF PhasesAgree, AnalysedLayersEvaluated, GroupReadyAwaitsSpecs,
      FulfilledRequestIsReported, AnalysedStates, EvaluationStates

\* With one handler at a time, the phases agree throughout.
LEMMA SerialAgreement ==
  ASSUME "edit" \notin Endpoints, \A g, h \in Handlers : g = h
  PROVE  Spec => []PhasesAgree
<1>1. Init => SerialInv /\ PhasesAgree
  BY SerialInit, AgreementInit
<1>2. TypeOK /\ SerialInv /\ [Next]_vars => SerialInv'
  BY SerialStep
<1>3. TypeOK /\ SerialInv /\ PhasesAgree /\ [Next]_vars => PhasesAgree'
  <2> SUFFICES ASSUME TypeOK, SerialInv, PhasesAgree, [Next]_vars
               PROVE  PhasesAgree'
    OBVIOUS
  <2>1. CASE Workflow!Analysis
    BY <2>1, AgreementStep
  <2>2. CASE UNCHANGED Workflow!vars
    <3>1. UNCHANGED <<requestState, layerState>>
      BY <2>2 DEF Workflow!vars
    <3>2. QED
      BY <3>1 DEF PhasesAgree, AnalysedLayersEvaluated, GroupReadyAwaitsSpecs,
         FulfilledRequestIsReported, Live
  <2>3. QED
    BY <2>1, <2>2, SerialImplements
<1>4. QED
  BY <1>1, <1>2, <1>3, Typing, PTL DEF Spec

\* For any set of layers, with one handler at a time: the Finish that fulfils
\* the last layer reports the request, and nothing leaves a request whose
\* layers are all fulfilled unreported (updateRequestIfAllLayersAccepted, the
\* reinstatement and the closure).
THEOREM FulfilledIsReported ==
  ASSUME "edit" \notin Endpoints, \A g, h \in Handlers : g = h
  PROVE  Spec => []FulfilledRequestIsReported
<1>1. PhasesAgree => FulfilledRequestIsReported
  BY DEF PhasesAgree
<1>2. QED
  BY <1>1, SerialAgreement, PTL

\* ... and the finalizeSpec that completes the specs of the last layer starts
\* the analysis, however far the other layers went in the meantime.
THEOREM GroupReadyAwaits ==
  ASSUME "edit" \notin Endpoints, \A g, h \in Handlers : g = h
  PROVE  Spec => []GroupReadyAwaitsSpecs
<1>1. PhasesAgree => GroupReadyAwaitsSpecs
  BY DEF PhasesAgree
<1>2. QED
  BY <1>1, SerialAgreement, PTL

\* ... and the request moves along rows of its own table only.
THEOREM RequestMovesByTable ==
  ASSUME "edit" \notin Endpoints, \A g, h \in Handlers : g = h
  PROVE  Spec => RequestFollowsTable
<1> DEFINE ByTable == requestState' # requestState =>
                        \E row \in RequestTransitions :
                          row[1] = requestState /\ row[3] = requestState'
<1>1. ASSUME NEW a, requestState' \in Workflow!NextStates(
                                         Workflow!RequestTransitions, a, requestState)
      PROVE  ByTable
  BY <1>1, SameTables DEF NextStates
<1>2. Workflow!Analysis => ByTable
  <2> SUFFICES ASSUME Workflow!Analysis PROVE ByTable
    OBVIOUS
  <2>1. \/ UNCHANGED requestState
        \/ \E a : requestState' \in Workflow!NextStates(
                                      Workflow!RequestTransitions, a, requestState)
    BY DEF Workflow!Analysis, Workflow!FinalizeSpec, Workflow!ProvideTestCases,
       Workflow!Review, Workflow!IssueReport, Workflow!Finish,
       Workflow!RejectReEvaluation, Workflow!AcceptReEvaluation,
       Workflow!Reinstate, Workflow!CloseRequest, Workflow!ReopenRequest,
       Workflow!RequestFollows
  <2>2. QED
    BY <1>1, <2>1
<1>3. TypeOK /\ SerialInv /\ [Next]_vars => [ByTable]_vars
  <2> SUFFICES ASSUME TypeOK, SerialInv, [Next]_vars PROVE ByTable
    OBVIOUS
  <2>1. CASE UNCHANGED Workflow!vars
    BY <2>1 DEF Workflow!vars
  <2> HIDE DEF ByTable
  <2>2. QED
    BY <1>2, <2>1, SerialImplements
<1>4. TypeOK /\ SerialInv /\ [Next]_vars => SerialInv'
  BY SerialStep
<1>5. QED
  BY <1>3, <1>4, SerialInit, Typing, PTL DEF Spec, RequestFollowsTable
=============================================================================
