--------------------------- MODULE LayerAnalysis ---------------------------
(***************************************************************************)
(* The analysis phase of one assessment request at the grain of its        *)
(* database round trips, with any number of handlers in flight.            *)
(*                                                                         *)
(* An endpoint that moves a layer works in three steps.                    *)
(*   Read    before the transaction, it reads the layer and the request    *)
(*           and looks the action up in the transition table;              *)
(*   Work    in a READ COMMITTED transaction, it updates the layer row     *)
(*           (which it holds locked from then on) and reads, through the   *)
(*           transaction, what decides whether the request moves too;      *)
(*   Commit  both rows change at once.                                     *)
(* Nothing is compared or locked between Read and Work.  A handler may     *)
(* fail at any point before Commit (an exception, a lost connection, a     *)
(* crash of the process): the transaction rolls back.                      *)
(*                                                                         *)
(* The request row is updated after the last read of a handler, so that    *)
(* update and its lock are part of Commit.                                 *)
(***************************************************************************)
EXTENDS Naturals, StateMachine

CONSTANTS
  Layers,        \* the layers of the request
  Handlers,      \* the HTTP handlers that may be in flight together
  Endpoints,     \* the endpoints clients call
  MaxIteration   \* bound on iterationCount, in the guard of Read

ASSUME MaxIterationAssumption == MaxIteration \in Nat

VARIABLES
  requestState,    \* committed AssessmentRequest.stateId
  layerState,      \* committed AssessmentLayer.stateId; "deleted" is soft-deleted
  iterationCount,  \* committed AssessmentLayer.iterationCount
  handler          \* local variables of each handler

vars == <<requestState, layerState, iterationCount, handler>>

-----------------------------------------------------------------------------
\* The actions of provide-status-reported/:id that move one layer only.
ReviewActions ==
  { "LayerAssessmentReviewNeedModifications", "LayerAssessmentCompletedAccept",
    "LayerAssessmentCompletedFeedback", "LayerReportIssuedRemark",
    "LayerReportIssuedRefer", "RemediateLayerVulnerabilitiesDecline",
    "RemediateLayerVulnerabilitiesFinalize", "ReviewLayerRemediatesReject",
    "ReviewLayerRemediatesApprove", "LayerReEvaluationRequestedReject",
    "LayerReEvaluationRequestedAccept", "LayerAssessmentReviewAcceptBySAM",
    "LayerAssessmentReviewNeedModificationsBySAM" }

LayerEndpoints ==
  { "finalizeSpec", "provideTestCases", "provideStatusReported",
    "updateMultipleLayers", "reEvaluation" }

RequestEndpoints == {"closure", "reopen"}

ASSUME EndpointsAssumption ==
  Endpoints \subseteq LayerEndpoints \cup RequestEndpoints \cup {"edit"}

\* The actions the controllers let through to each endpoint.
EndpointActions(endpoint) ==
  CASE endpoint = "finalizeSpec" -> {"OnboardingFinalizeSpecs"}
    [] endpoint = "provideTestCases" -> {"PendingLayerTestcasesSubmit"}
    [] endpoint = "provideStatusReported" ->
         ReviewActions \cup { "LayerAssessmentReviewAccept",
                              "LayerAssessmentReviewFinish",
                              "LayerAssessmentFulfilledReinstate" }
    [] endpoint = "updateMultipleLayers" -> {"LayerAssessmentFulfilledReinstate"}
    [] endpoint = "reEvaluation" -> { "LayerReEvaluationRequestedAccept",
                                      "LayerReEvaluationRequestedReject" }
    [] endpoint = "closure" -> {"StatusReportedFinalize"}
    [] endpoint = "reopen" -> {"ClosedReopen"}

Actions ==
  UNION { EndpointActions(e) : e \in LayerEndpoints \cup RequestEndpoints }

\* What updateRequestIfAllLayersAccepted is asked for, by endpoint and action:
\* the request action, and the later layer actions whose targets also count.
Follows(endpoint, action) ==
  CASE endpoint = "finalizeSpec" -> "GroupReadyFinalizeSpecs"
    [] /\ endpoint = "provideStatusReported"
       /\ action = "LayerAssessmentReviewFinish" -> "UnderAnalysisWrapUp"
    [] /\ endpoint = "reEvaluation"
       /\ action = "LayerReEvaluationRequestedAccept" -> action
    [] OTHER -> "none"

LaterActionsNone(endpoint) == {}   \* mutant: no nextActions

LaterActions(endpoint) ==
  IF endpoint = "finalizeSpec" THEN ActionsAfterSpecs ELSE {}

-----------------------------------------------------------------------------
(***************************************************************************)
(* A handler.  "step" is where it is; "rows" are the layers it works on;   *)
(* "seen" is the request state it read before its transaction; "next" and  *)
(* "count" are what it will write to the layers (for edit, what new layers *)
(* start with); "request" is what it will write to the request, or "none". *)
(***************************************************************************)
Steps == {"idle", "read", "worked", "editing"}

HandlerType ==
  [ step     : Steps,
    endpoint : LayerEndpoints \cup RequestEndpoints \cup {"edit", "none"},
    action   : Actions \cup {"none"},
    rows     : SUBSET Layers,
    seen     : RequestStates \cup {"none"},
    next     : LayerStates \cup {"none"},
    count    : 0..MaxIteration,
    request  : RequestStates \cup {"none"} ]

Idle == [ step |-> "idle", endpoint |-> "none", action |-> "none",
          rows |-> {}, seen |-> "none", next |-> "none", count |-> 0,
          request |-> "none" ]

TypeOK ==
  /\ requestState \in RequestStates
  /\ layerState \in [Layers -> LayerStates \cup {"absent", "deleted"}]
  /\ iterationCount \in [Layers -> 0..MaxIteration]
  /\ handler \in [Handlers -> HandlerType]
  /\ \A h \in Handlers :
       /\ handler[h].rows # {} => handler[h].next \in LayerStates
       /\ handler[h].endpoint = "edit" => handler[h].seen \in RequestStates

Live == { l \in Layers : layerState[l] \in LayerStates }

\* Mutant of Visible: the layers are read outside the transaction.
VisibleOutside(h, l) == layerState[l]

\* The live layers as the transaction of h reads them: its own update, and
\* whatever is committed.
Visible(h, l) == IF l \in handler[h].rows THEN handler[h].next ELSE layerState[l]

\* Row locks: the rows an open transaction has updated.
LockedByOthers(h) ==
  UNION { handler[other].rows :
            other \in { o \in Handlers \ {h} : handler[o].step = "worked" } }

\* What addAuditors leaves when it has formed the team of every layer.
Init ==
  /\ requestState = "groupReady"
  /\ \E created \in (SUBSET Layers) \ {{}} :
       layerState = [l \in Layers |-> IF l \in created THEN "onboarding"
                                     ELSE "absent"]
  /\ iterationCount = [l \in Layers |-> 0]
  /\ handler = [h \in Handlers |-> Idle]

-----------------------------------------------------------------------------
(* The endpoints of a layer, assessment-layer.service.ts.                  *)

\* The pre-transaction half.  The layers read must share a state (there is
\* one, except for updateMultipleLayers), and the action must have a row.
\* The request state is kept by those that pass it on to Work; the iteration
\* count only by provideStatusReported.
Read(h, endpoint, action, rows) ==
  /\ handler[h].step = "idle"
  /\ rows # {} /\ rows \subseteq Live
  /\ endpoint # "updateMultipleLayers" => \E l \in rows : rows = {l}
  /\ action = "LayerAssessmentReviewAccept" =>
       \A l \in rows : iterationCount[l] < MaxIteration
  /\ \E l \in rows :
       /\ \A other \in rows : layerState[other] = layerState[l]
       /\ \E next \in NextStates(LayerTransitions, action, layerState[l]) :
            handler' = [handler EXCEPT ![h] =
              [ step |-> "read", endpoint |-> endpoint, action |-> action,
                rows |-> rows, next |-> next, request |-> "none",
                seen |-> IF Follows(endpoint, action) = "none"
                         THEN "none" ELSE requestState,
                count |-> IF endpoint # "provideStatusReported" THEN 0
                          ELSE IF action = "LayerAssessmentReviewAccept"
                               THEN iterationCount[l] + 1
                               ELSE iterationCount[l] ]]
  /\ UNCHANGED <<requestState, layerState, iterationCount>>

ReadLayer(h) ==
  \E endpoint \in Endpoints \cap LayerEndpoints :
    \E action \in EndpointActions(endpoint), rows \in SUBSET Layers :
      Read(h, endpoint, action, rows)

\* Mutants of RequestWrite: the state of the other layers is not looked at ...
RequestWriteAlone(h) ==
  LET target == Follows(handler[h].endpoint, handler[h].action)
  IN  IF target # "none"
      THEN NextStates(RequestTransitions, target, handler[h].seen)
      ELSE {"none"}

\* What Work decides to write to the request: updateRequestIfAllLayersAccepted
\* with the layers as the transaction sees them but the request state of Read,
\* or, to reinstate a layer, the request state as it is now.  The empty set is
\* the look-up that finds no row and throws.
RequestWrite(h) ==
  LET me     == handler[h]
      target == Follows(me.endpoint, me.action)
      agreed == \A l \in Live : Visible(h, l) \in
                  ExpectedStates(me.next, LaterActions(me.endpoint))
  IN  IF target # "none" /\ agreed
      THEN NextStates(RequestTransitions, target, me.seen)
      ELSE IF /\ me.action = "LayerAssessmentFulfilledReinstate"
              /\ requestState = "statusReported"
           THEN NextStates(RequestTransitions, "StatusReportedNeedChanges",
                           requestState)
           ELSE {"none"}

\* The row locks its update needs are free.
InTransaction(h) ==
  /\ handler[h].step = "read"
  /\ handler[h].endpoint \in LayerEndpoints
  /\ handler[h].rows \cap LockedByOthers(h) = {}

Work(h) ==
  /\ InTransaction(h)
  /\ \E request \in RequestWrite(h) :
       handler' = [handler EXCEPT ![h].step = "worked", ![h].request = request]
  /\ UNCHANGED <<requestState, layerState, iterationCount>>

Throw(h) ==
  /\ InTransaction(h)
  /\ RequestWrite(h) = {}
  /\ handler' = [handler EXCEPT ![h] = Idle]
  /\ UNCHANGED <<requestState, layerState, iterationCount>>

\* The request's endpoints: the state to write is looked up in what they read.
ReadRequest(h) ==
  /\ handler[h].step = "idle"
  /\ \E endpoint \in Endpoints \cap RequestEndpoints :
       \E action \in EndpointActions(endpoint) :
       \E request \in NextStates(RequestTransitions, action, requestState) :
         handler' = [handler EXCEPT ![h] =
           [ Idle EXCEPT !.step = "worked", !.endpoint = endpoint,
                         !.action = action, !.request = request ]]
  /\ UNCHANGED <<requestState, layerState, iterationCount>>

\* Mutants of Commit: the iteration count is written by every endpoint ...
CommitCount(h) ==
  LET me == handler[h] IN
  /\ me.step = "worked"
  /\ layerState' =
       [l \in Layers |-> IF l \in me.rows \cap Live THEN me.next ELSE layerState[l]]
  /\ requestState' = IF me.request = "none" THEN requestState ELSE me.request
  /\ iterationCount' =
       [l \in Layers |-> IF l \in me.rows THEN me.count ELSE iterationCount[l]]
  /\ handler' = [handler EXCEPT ![h] = Idle]

\* ... the request is saved as it was read, with all its columns ...
CommitSeen(h) ==
  LET me == handler[h] IN
  /\ me.step = "worked"
  /\ layerState' =
       [l \in Layers |-> IF l \in me.rows \cap Live THEN me.next ELSE layerState[l]]
  /\ requestState' = CASE me.request # "none" -> me.request
                       [] me.request = "none" /\ me.seen # "none" -> me.seen
                       [] OTHER -> requestState
  /\ UNCHANGED iterationCount
  /\ handler' = [handler EXCEPT ![h] = Idle]

\* ... or the layer is saved as a whole, which brings a deleted row back.
CommitWhole(h) ==
  LET me == handler[h] IN
  /\ me.step = "worked"
  /\ layerState' =
       [l \in Layers |-> IF l \in me.rows THEN me.next ELSE layerState[l]]
  /\ requestState' = IF me.request = "none" THEN requestState ELSE me.request
  /\ UNCHANGED iterationCount
  /\ handler' = [handler EXCEPT ![h] = Idle]

\* A soft-deleted row is updated too, to no effect.
Commit(h) ==
  LET me == handler[h] IN
  /\ me.step = "worked"
  /\ layerState' =
       [l \in Layers |-> IF l \in me.rows \cap Live THEN me.next ELSE layerState[l]]
  /\ requestState' = IF me.request = "none" THEN requestState ELSE me.request
  /\ iterationCount' =
       [l \in Layers |-> IF /\ me.endpoint = "provideStatusReported"
                            /\ l \in me.rows
                         THEN me.count ELSE iterationCount[l]]
  /\ handler' = [handler EXCEPT ![h] = Idle]

\* An exception, a lost connection or a crash: nothing was committed, and an
\* edit keeps what it did so far.
Fail(h) ==
  /\ handler[h].step # "idle"
  /\ handler' = [handler EXCEPT ![h] = Idle]
  /\ UNCHANGED <<requestState, layerState, iterationCount>>

-----------------------------------------------------------------------------
(* updateAssessmentRequest, the PATCH of a request: not one transaction.   *)

\* It reads the request and its layers; "rows" become the layers to delete,
\* "next" the state new layers get, that of the first layer.
ReadEdit(h) ==
  /\ "edit" \in Endpoints
  /\ handler[h].step = "idle"
  /\ \E next \in IF Live = {} THEN {"none"} ELSE { layerState[l] : l \in Live },
        removed \in SUBSET Live :
       handler' = [handler EXCEPT ![h] =
         [ Idle EXCEPT !.step = "read", !.endpoint = "edit", !.rows = removed,
                       !.seen = requestState, !.next = next ]]
  /\ UNCHANGED <<requestState, layerState, iterationCount>>

\* save(request), for a new environment or info: the entity is compared with
\* the row as it is by then, and its old state is written back with the rest.
SaveEdit(h) ==
  /\ handler[h].step = "read"
  /\ handler[h].endpoint = "edit"
  /\ requestState' = handler[h].seen
  /\ UNCHANGED <<layerState, iterationCount, handler>>

RemoveLayer(h) ==
  /\ handler[h].step \in {"read", "editing"}
  /\ handler[h].endpoint = "edit"
  /\ \E l \in handler[h].rows \ LockedByOthers(h) :
       /\ \/ layerState' = [layerState EXCEPT ![l] = "deleted"]
          \/ UNCHANGED layerState   \* a failed deletion is logged and passed over
       /\ handler' = [handler EXCEPT ![h].step = "editing", ![h].rows = @ \ {l}]
  /\ UNCHANGED <<requestState, iterationCount>>

\* Mutant of AddLayer: the new layer gets the state of the request.
AddLayerRequestState(h) ==
  /\ handler[h].step \in {"read", "editing"}
  /\ handler[h].endpoint = "edit"
  /\ handler[h].rows = {}
  /\ \E l \in Layers :
       /\ layerState[l] = "absent"
       /\ layerState' = [layerState EXCEPT ![l] = handler[h].seen]
       /\ handler' = [handler EXCEPT ![h].step = "editing"]
  /\ UNCHANGED <<requestState, iterationCount>>

AddLayer(h) ==
  /\ handler[h].step \in {"read", "editing"}
  /\ handler[h].endpoint = "edit"
  /\ handler[h].rows = {}
  /\ handler[h].next # "none"
  /\ \E l \in Layers :
       /\ layerState[l] = "absent"
       /\ layerState' = [layerState EXCEPT ![l] = handler[h].next]
       /\ handler' = [handler EXCEPT ![h].step = "editing"]
  /\ UNCHANGED <<requestState, iterationCount>>

-----------------------------------------------------------------------------
Edit(h) == ReadEdit(h) \/ SaveEdit(h) \/ RemoveLayer(h) \/ AddLayer(h)

Handle(h) ==
  \/ ReadLayer(h)
  \/ ReadRequest(h)
  \/ Work(h)
  \/ Throw(h)
  \/ Commit(h)
  \/ Fail(h)
  \/ Edit(h)

Next == \E h \in Handlers : Handle(h)

Spec == Init /\ [][Next]_vars

-----------------------------------------------------------------------------
(* Properties.                                                             *)

AnalysedStates == {"underAnalysis", "statusReported", "closed"}

\* With any overlap of handlers: once the request is under analysis, the specs
\* of all its layers are final.  The check that moves the request runs on rows
\* that may be stale when it commits, and any layer may be written over by a
\* handler that read it long before; neither can bring an unevaluated layer
\* back.
AnalysedLayersEvaluated ==
  requestState \in AnalysedStates =>
    \A l \in Live : layerState[l] \in EvaluationStates

\* With any overlap of handlers: the analysis, once begun, does not fall back
\* to the filling of the specs, although request states read before the
\* transaction are written after it.
AnalysisIsNotUndone ==
  [][ (requestState \in AnalysedStates) => (requestState' \in AnalysedStates) ]_vars

\* With any overlap of handlers, edits included: a layer deleted under a
\* handler that is already working on it is not brought back by its update.
DeletedStaysDeleted ==
  [][ \A l \in Layers :
        layerState[l] = "deleted" => layerState'[l] = "deleted" ]_vars

\* With one handler at a time: a request all of whose layers are fulfilled is
\* reported (updateRequestIfAllLayersAccepted, called by the last Finish).
FulfilledRequestIsReported ==
  (\A l \in Live : layerState[l] = "layerAssessmentFulfilled")
    => requestState \in {"statusReported", "closed"}

\* With one handler at a time: a request waits for specs only while a layer
\* still has to complete them (the call by the last finalizeSpec).
GroupReadyAwaitsSpecs ==
  requestState = "groupReady" =>
    \E l \in Live : layerState[l] \notin EvaluationStates

\* The request moves along rows of its transition table only.
RequestFollowsTable ==
  [][ requestState' # requestState =>
        \E row \in RequestTransitions :
          row[1] = requestState /\ row[3] = requestState' ]_vars

\* The rows of the Modify actions are commented "self-loop"
\* (state-transition.ts): to edit a request does not change its state.
EditIsSelfLoop ==
  [][ (\E h \in Handlers : SaveEdit(h)) => UNCHANGED requestState ]_vars

\* With one handler at a time the analysis phase of AssessmentWorkflow is
\* implemented: reading, working and failing change nothing, and Commit is the
\* endpoint's atomic step.
Workflow == INSTANCE AssessmentWorkflow WITH
  requestState <- requestState, layerState <- layerState,
  iterationCount <- iterationCount, Layers <- Layers,
  MaxIteration <- MaxIteration

ImplementsWorkflow == Workflow!AnalysisSpec
=============================================================================
