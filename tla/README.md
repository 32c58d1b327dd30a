# Verification of sampa and asset

TLA+ models, model-checking runs and machine-checked proofs kept beside the two
NestJS services of this repository:

* `src/sampa` runs security assessments: an applicant asks for the assessment of
  an asset, a team is formed for each *layer* of it, the layers are assessed, and
  the *request* follows its layers to its closure.
* `src/asset` (DARFA) keeps the assets, their types and their versions.

The core of the system, and of this development, is the first: a state machine
kept in two tables of PostgreSQL rows, driven by HTTP handlers that run
concurrently, many of them without a transaction around what they read. Around it
lie the records sampa keeps (contents, action log, request numbers, members and
groups) and the second service: asset versions with their search index and the
register of log sources, asset types, the scope of a user, and file imports.

## The system

| Part | State | Operations | What is hard |
|---|---|---|---|
| Transition tables (`state-transition.ts`, `state-transition.service.ts`) | two fixed tables | `getNextStatus`, `getAllNextStatus` | every handler relies on them as guard and as result |
| Assessment workflow (`assessment-request.service.ts`, `assessment-layer.service.ts`) | `AssessmentRequest.stateId`, `AssessmentLayer.stateId`, `iterationCount` | create, approve, accept, edit, finalize specs, provide test cases, review, finish, reinstate, re-evaluate, close, reopen | handlers read before their transaction and write inside it; the request follows all its layers |
| Team formation (`assessment-layer.repository.ts`) | `assessment_team` rows, layer and request states | `addSAM`, `addSupervisor`, `addAuditors` | lists of layers whose elements name an action each, validation of the first only, a save that is not awaited, many rows locked one after the other by a transaction that takes further connections |
| Request intake (`assessment-request.service.ts`, `.repository.ts`) | request, layers, request number | `createAssessmentRequest`, status by action, PATCH | several transactions per handler, a bulk update that is not awaited |
| Contents, buffer and action log (`request-spec-content.service.ts`, `action-log-buffer.service.ts`) | spec contents, pending changes, action log | save a content, `addChange`, `flushToActionLog`, clean-up job | a content and its change are two statements; flushes run inside and outside of transactions; a null key matches everything |
| Request numbers (`assessment-request.repository.ts`) | the number of a request | draw the next one in a transaction | row locks on rows that may not exist yet |
| Members and groups (`rabbitmq.service.ts`, `group-membership.service.ts`) | copies of the members of the identity provider, groups, memberships | one consumer per queue; create, extend, replace and remove a group | two channels and several handlers write the same row; rejection, redelivery |
| Assets and versions (`asset.service.ts`, `asset.repository.ts`) | asset, version, baseline, search index, register of log sources | create, import, update, change status, remove, reindex | entities read before the transaction and saved whole after it; a second service and the index are written outside of it |
| Asset types (`asset-type.service.ts`) | type, type versions, relations | create, update, remove | several statements without a transaction |
| User scope and guard (`asset.service.ts`, `asset-modification-access.guard.ts`) | none of its own: departments and reporting lines of the identity provider | two graph walks, a look-up of ids, guard, search filter | cycles in foreign data, calls that fail and are passed over |
| File imports (`file.service.ts`) | uploaded files, assets | validate, apply | row by row, repeated, overlapping, broken half way |
| The rest of both services | rows of their own, files, caches | CRUD, exports, cron | input and output |

A client calls one endpoint at a time on a request or a layer; several clients do
so together. All communication between handlers goes through the rows. The
transactions are PostgreSQL's READ COMMITTED ones: an update locks its row until
the end of the transaction, a read takes no lock.

What makes the workflow correct:

* no layer gets into a phase its request has not reached: onboarding and evaluation
  before the team is ready, or back out of the evaluation once the analysis began,
  whatever part of a handler took effect and whatever actions a list names;
* the request moves when, and only when, the last layer gets to where it is
  expected, whichever layer that is;
* it moves along the rows of its table only;
* a step never undoes what a later one has done;
* a call comes to an end, whatever rows and connections others hold.

What makes the rest correct:

* no change of a content is lost on its way to the log, and none is in the log of
  another layer or request;
* numbers run on without gaps, whatever creates overlap or roll back;
* a member never falls back to roles older than an acknowledged list, and an update
  of a group leaves the members it lists;
* an asset's baselines have no gap, it keeps a current version, what was removed
  stays removed, and an approval here is an approval in the register;
* relations between asset types keep their mirror images unless editors overtake each
  other, and lead to versions that exist;
* failures only narrow what a user sees, and nobody changes what it cannot see;
* an import accounts for each row, duplicates nothing it could see, and repeating it
  completes it.

## Modules

| Module | Models |
|---|---|
| `StateMachine` | the seeded tables, the states, `getNextStatus`, `getAllNextStatus`, and the states `updateRequestIfAllLayersAccepted` waits for |
| `AssessmentWorkflow` | one request from creation to closure; each endpoint is one action with the effect, or any of the partial effects, a whole handler leaves |
| `LayerAnalysis` | the analysis phase at the grain of database round trips, any number of handlers in flight |
| `TeamAssignment` | `addSAM`, `addSupervisor` and the bulk update of layers at the grain of row locks and pooled connections, with the database's deadlock detection |
| `ContentLog` | spec contents, the buffer of pending changes and the action log, with handlers that overlap and fail |
| `RequestNumber` | the transaction that draws a request's number: snapshot, row locks, unique index, overflow |
| `MemberSync` | the two queues of the identity provider and their consumers: save, acknowledge, reject, redeliver |
| `Groups` | extends `MemberSync`: groups and memberships, edited next to the consumers, and the restart of the process |
| `AssetVersions` | assets, versions, search index and register of log sources, at the grain of statements and external calls |
| `AssetTypeVersions` | asset types, their versions and the relations between versions, statement by statement |
| `UserScope` | the collection of a user's scope, the guard of changes and the filter of searches |
| `AssetImport` | upload, validation and row-by-row application of a file |
| `MCAssessmentWorkflow`, `MCLayerAnalysis`, `MCAssetVersions`, `MCTeamAssignment` | symmetry, sets of endpoints, regimes and lists of layers for TLC |
| `MCRecords` | `ContentLog`, `Groups` (with `MemberSync`) and `RequestNumber` for one run |
| `MCCatalogue` | `AssetTypeVersions`, `UserScope` and `AssetImport` for one run |
| `AssessmentWorkflowProofs`, `LayerAnalysisProofs` | theorems about the assessment |
| `ContentLogProofs`, `GroupsProofs`, `RecordsProofs` | theorems about the records; the last also about the numbers and the composition `MCRecords` |
| `AssetVersionsProofs`, `AssetSafetyProofs` | theorems about types, and safety, of `AssetVersions` |
| `CatalogueProofs` | theorems about asset types, scopes and imports, and the composition `MCCatalogue` |

### AssessmentWorkflow

`requestState` and `layerState` are the names of the states of the rows, with
`"none"`, `"absent"` and `"deleted"` for rows that do not exist, do not exist yet,
or are soft-deleted. `iterationCount` is the column of that name. One action per
endpoint, named for it. A look-up that finds no row makes the code throw, so
`next \in NextStates(...)` is guard and result at once.

Where a handler is not one transaction, the action chooses what of it took effect:
`CreateRequest` any subset of the layers, `AcceptRequest` the request with or
without its layers, `AddAuditors` any subset of the layer rows of the un-awaited
save.

`AddSAM` and `AddSupervisor` are one definition, `MoveListed`: each element of the list
names an action of its own, which the guard does not look at (it compares a `body.action`
these bodies do not have), so each listed layer takes any row of the layer table from its
state, in any state of the request and without it. What `PhaseInvariant` still says rests
on the table: no row leads to onboarding, which only `addAuditors` writes, together with
the request. A list may bring layers into the evaluation while the request stays in
groupReady, and `LastSpecStartsAnalysis` says of the next `finalizeSpec` that it starts
the analysis all the same. The controller documents the two endpoints as two actions each.

Left out: who may call (roles, membership of teams), the contents that complete the
specs and test cases (`FinalizeSpec` and `ProvideTestCases` may always happen),
comments, logs and notifications. A request keeps its set of potential layer rows,
`Layers`.

### LayerAnalysis

A handler that moves a layer has three steps, which are where the code's
`await`s separate what it reads from what it writes:

* `ReadLayer`: the reads in front of `startTransaction`, up to `getNextStatus`. The
  handler keeps the next state of the layer, the state of the request and, for
  `provideStatusReported`, the iteration count.
* `Work`: the update of the layer row, which waits for its lock and holds it, and
  the reads of the transaction: the sibling layers as committed, or, to
  reinstate, the request as committed. `Throw` is the look-up inside the
  transaction that finds no row.
* `Commit`: both rows change.

`Fail` is any exception, lost connection or crash in between; a transaction rolls
back. Closure and reopening read the request (`ReadRequest`) and write it
(`Commit`). The PATCH of a request is a chain of single statements: `ReadEdit`,
`SaveEdit` (which writes back the state it read), `RemoveLayer`, `AddLayer`.

Merged steps: the update of the layer row and the reads that follow it in the same
transaction are one step, which is sound because the update is invisible to others
and the lock only delays others; the update of the request row, after the last read
of its handler, is part of `Commit` for the same reason. A bulk update takes its
locks at once: PostgreSQL breaks a cycle of lock waits by failing one of the
transactions, which `Fail` is. The locks themselves are the matter of `TeamAssignment`.

### TeamAssignment

A transaction of `addSAM` or `addSupervisor` goes through its list: it looks the layer up
(`FindLayer`), deletes rows of its team (`DropTeam`), looks up the transition
(`FindTransition`), updates the layer (`MoveLayer`) and flushes its pending changes
(`Flush`, `FindLabels`). The writes take a row lock each, held to the end; the look-ups go
through repositories and so take a second connection from the pool. The bulk update reads
before its transaction (`ReadLayers`), then locks its layers one by one in an order of its
own, and may reopen the request (`ReadRequest`, `FindReopening`, `ReopenRequest`). Any
statement may fail (`Throw`); `Deadlock` is the database failing a statement of a circle of
waiting transactions. Each way out frees the locks and the connection. What is written is
left out: `AssessmentWorkflow` has that.

### ContentLog

A row of `request_spec_content` is looked up by item and request (`FindContent`),
read again for the log (`ReadBefore`), saved (`SaveContent`) or created
(`CreateContent`), and then its change is added (`AddSpecChange`), each a statement
of its own. Edits of spec items, test cases and remediations add a change per request
(`EditForRequests`, `AddRequestChange`). A flush is one transaction over some
layers and possibly the request (`BeginFlush`, `FlushKey`, `CommitFlush`): it finds the
pending rows of a key, logs and marks them. `PendingOf` keeps what the query does
with a null layer: it matches every layer. `Cleanup` soft-deletes flushed rows. A
failure rolls a flush back and leaves what single statements did.

### RequestNumber

`SelectLatest` is the snapshot of `SELECT ... FOR UPDATE`, `LockRows` the wait for
rows another open transaction holds, `InsertNumber` the insert under the unique
index (it waits while an open transaction holds the same number), `RefuseNumber` an
overflow or a number taken meanwhile, then `CommitNumber` or `RollBack`.

### MemberSync and Groups

A queue is the sequence `sent[q]` with the number of `settled` messages; prefetch 1
means that one message is in work per channel. A save is a select and then an insert
or update (`Deliver`, `SaveUser`, `SaveRoles`): the insert collides when somebody
else inserted the row since. A failed message is `Reject`ed without requeue; a
`Restart` before the acknowledgement brings a message back. `Groups` adds the handlers of
a group: POST saves all members and then inserts memberships together, PATCH drops
the unlisted ones and then saves one user and its membership after the other, or removes
the group when the list is empty (a missing list drops all members instead). `isLead` and
`isMember` are the client's in both: `InsertMembers` inserts any flags, and PATCH looks for
a member row of the user (`FindBelong`) and saves any flags to it, or inserts a row
(`WriteBelong`). The row a group was created with is told apart by the history field `own`.

### AssetVersions

The row of a version keeps asset, baseline, status, `archived` and `deletedAt`. A
handler keeps the entity it read (`row`), because TypeORM's save writes back every
column in which that entity differs from the row as it is by then, `deletedAt`
included. An update is `ReadBase` (before the transaction), `Open` (the row of the
asset is updated and locked; the index is written before the commit) and
`CommitUpdate` (the new version in, the old one saved as archived). Creation
registers a log source first, commits, then indexes (`Register`, `CommitCreate`,
`IndexCreated`); an import indexes first. `Remove` is three statements.
`changeAssetStatus` is `ReadForStatus`, `Decide` (the call of the register),
`SaveStatus` and, for a declined version, `LandDeletion`, in any order since neither
is awaited. When the row of the asset is deleted, the join gives no asset: the register is
not asked, and the save detaches the version (`detached`, a null `assetId`), after which a
removal does not find it (`Attached`). `Reindex` empties the index and indexes page by page. `Fail` may end a
handler at any step.

Left out: relations between assets, tags, the contents of documents, and the pool
of database connections.

### AssetTypeVersions, UserScope, AssetImport

`AssetTypeVersions` has one action per statement of `create`, `update` and `remove`,
and `EndEdit` may end a handler after any of them. Time order is the order of ids, as
`createdAt` is. A relation is a row `<<parent, child, kind, id>>`: nothing in the database
keeps two rows from saying the same. `InverseOf` is the inverse of a kind: itself for a
bidirectional one, that of `INVERSE_RELATION_MAP`, or none, in which case create makes no
row and an update only the forward one. create looks for its rows one by one (`CompareRow`)
and inserts those it did not find; an update reads all of them (`ReadRelations`), compares
by what they say, of which it remembers one row each (`OneOfEach`), and deletes and creates
the differences. `overtaken` is history: another handler wrote rows of the version since.

`UserScope` walks departments a level at a time and reporting lines a person at a
time; in each round any of the calls may fail and is passed over, or makes the
request throw where the code lets it. `MayChange` is the guard, `Sees` the filter of
the searches.

`AssetImport` takes each row through the searches for twins (`CheckRow`), the
look-ups of users, location and related assets (`LookUpRow`), and the create (`CreateRow`,
`RefuseRow`). The four templates differ in their type, in the scope of the exact search
and in what they relate; the template is that of the file, where the code takes it from the
request that applies it. The import of the SOC template is not modelled: it creates
versions of types by passing a type's id for a type version's, and what then happens
depends on the data.

## Runs

| Run | Bounds | Shows |
|---|---|---|
| `workflow` | 3 layers, 1 counted iteration | `PhaseInvariant`, `ReportedOnlyWhenFulfilled`, `LastSpecStartsAnalysis`, `ClosedIsLeftByReopening` over the whole life of a request |
| `serial` | 3 layers, 1 handler, 1 iteration, all endpoints but edit | handlers that do not overlap, failing anywhere, implement `AssessmentWorkflow` (`ImplementsWorkflow`), and the request never lags behind (`FulfilledRequestIsReported`, `GroupReadyAwaitsSpecs`) |
| `race` | 2 layers, 2 handlers, 1 iteration, all endpoints but edit | what survives every overlap: `AnalysedLayersEvaluated`, `AnalysisIsNotUndone` |
| `edit` | 3 layers, 2 handlers, edit and the first two layer endpoints | `DeletedStaysDeleted` with edits in the middle of the work on layers |
| `lists` | 3 layers, 3 handlers; 4 connections and 4 calls, three of which can wait for each other in a circle, or 3 connections and lists of the same layers in both orders, and a bulk update | `HandlersFinish`, `OnlyPoolStops` |
| `records` | 2 requests, 2 layers, 1 item, up to 3 changes, 1 or 2 handlers; 2 users, 2 roles, 1 group; 3 messages, or 1 and a handler, or 1 or 2 handlers on up to 3 memberships; 4 creates on one base, numbers up to 3 | `NoChangeLost`, `LoggedOnce`, `LayerLogsOwnChanges`, `HistoryIsComplete`; `RolesArrive`, `UpdateSetsMembers`; `NumbersRunOn` |
| `assets` | 1 asset, up to 4 versions, 1 or 2 handlers, pages of 1 | `BaselinesHaveNoGap`, `LiveAssetHasCurrent`, `ForksOnlyFromStaleEntities`, `RemovedStaysRemoved`, `ApprovedIsApprovedThere`, `QuietReindexRestores` |
| `catalogue` | 2 types; 1 editor with 3 versions and a kind that has an inverse, or 2 versions, a further kind without one and lists that repeat a pair; or 2 editors with 2 versions; 3 people, 3 departments, every graph of either; 3 files, 3 imports | `MirrorsBreakByOverlap`, `OneLine`, `RelationsLeadToVersions`; `FailuresOnlyNarrow`, `ScopeIsComplete`, `WalksAdvance`, `ChangesOnlyWhatItSees`; `TwinsFromOverlap`, `EveryRowAnswered`, `RetryCompletes` |
| `skew` (violation) | 2 layers, 2 handlers | two overlapping `finalizeSpec` strand the request in groupReady |
| `stale` (violation) | 2 layers, 2 handlers | a stale look-up moves the request along no row of its table |
| `edit_any_state` (violation) | 2 layers | the PATCH changes layers outside of draft, submitted and approved |
| `edit_stale` (violation) | 2 layers, 2 handlers | the save of an edit writes an old request state back |

Why the bounds are enough. All checks on several layers are "for all layers of the
request": with three there is an acting layer, one that lags and one that is ahead,
and a deletion still leaves two. Overlap is a matter of two handlers: every stale
value a handler writes was read before one other commit, and a handler may run any
number of times while the other waits. `MaxIteration` bounds `iterationCount`,
which no guard of the code reads; one increment shows whether it is kept or lost.
The proofs below lift every safety property of the passing runs from these bounds. Layers and handlers
are symmetric in every run that checks safety; `lists` uses no symmetry.
Three transactions make circles of two and of three, and a layer named twice shows that a
transaction does not wait for itself; with more handlers the circles get longer. One more
connection than handlers leaves a free one in every state, as many as handlers may not.

`records` and `catalogue` check three parts each that share no state: a behaviour is one
of a single part, chosen at the start, while the other two rest. Several bounds trade
against each other, so their constants `Crews`, `Loads`, `Regimes`, `ClientModes` and `Limits` name
combinations: more handlers with fewer rows, or one handler with more. One asset is
enough for `assets`, whose handlers touch no other one; two current versions, a fork
and a version after the fork need three ids. Of the three departments and people a
cycle may leave out the user, hold it, or be reached from it. Four creates show a
second collision after a rollback, and a last number of 3 the overflow.

Some properties hold only for handlers one at a time, which may still stop or fail
anywhere: `LoggedOnce`, `OneLine`, `RelationsLeadToVersions`, `QuietReindexRestores`, and
(without failures too) `HistoryIsComplete`. The code has no protection against the
overlap, as the comments of these properties say; the regimes with two handlers run
the overlaps for the other properties of the same parts.

`workflow`, `edit_any_state`, `catalogue` and `records` do not check for deadlock because
the system really stops there: an accepted request whose layers were never created has
no further step, and imports, messages and creates are used up. All other runs do.

Fairness (`lists` only): a handler in flight goes on. Its next statement may be
enabled and disabled again as others take the row's lock or the last connection; PostgreSQL
grants a row lock, and the pool its connections, in the order of their queues, so a waiting
handler is not overtaken for ever (strong fairness of `Go`). A circle of waiting
transactions is found (weak fairness of `Deadlock`). Clients owe nothing, and other failures
are not required to happen.

## Findings

Four runs exhibit behaviours of the code that its own tests and comments contradict.

* `skew`: the check of the sibling layers is a write skew. Two layers whose specs
  are finalized at the same time leave the request in groupReady for good: no layer
  is left in onboarding to call the check again.
* `stale`: the transition is looked up on a state read before the transaction and
  written without comparing it again. A closed request goes back to underAnalysis,
  or underAnalysis becomes closed.
* `edit_any_state`: the PATCH is documented as the Modify actions of three states but
  looks at no state.
* `edit_stale`: the PATCH saves the whole entity it read and undoes a transition that
  was committed in between.

## Proofs

Every property of a passing run is a theorem, but the two liveness properties of
`TeamAssignment`, which the run `lists` checks.
The theorems hold for any set of layers, assets, types, people, departments, contents,
files, groups, creates and handlers, and any bound. What they assume of the constants are
the named `ASSUME`s of the modules, which TLC evaluates on the runs:

| Assumption | Says |
|---|---|
| `MaxIterationAssumption`, `EndpointsAssumption` | the bound is a number, the endpoints are among those modelled |
| `ContentConstantsAssumption` | each layer is of one request, ids are numbers from one up, the null values are no values |
| `SyncAssumption`, `GroupAssumption` | the seeded roles are roles, a group has one creator, bounds and ids are numbers, the null group is no group |
| `NumberAssumption`, `BaseAssumption` | the last number is at least one, the null base is no base |
| `ConstantsAssumption` (`AssetVersions`) | finitely many version ids from one up, a page holds at least one, a regime says which assets are log sources |
| `TypeConstantsAssumption` | ids from one up; an inverse of a kind is a kind, in any shape; modes are of the form the handlers look at |
| `ScopeConstantsAssumption` | the identity provider's data are functions over people and departments, in any shape |
| `ImportAssumption` | the rows of a file, and the assets there before (made by no import), are sequences; a name and an address contain themselves |

The properties of handlers that do not overlap say so themselves (`editors = 1`,
`crew.clerks = 1`, `regime.handlers = 1`), or the theorem does (`LayerAnalysisProofs`:
all handlers are one, and no endpoint is `edit`), because with two of them the code breaks
them; see the runs of the findings.

Each proof has the same outline: an invariant that is stronger than the property, a lemma
that the initial states satisfy it, a lemma with a case per action that every step keeps
it, and one temporal step.

### AssessmentWorkflowProofs

* `Typing`: `Spec => []TypeOK`.
* `Phases`: `Spec => []PhaseInvariant`. The invariant is inductive as it stands,
  relative to `TypeOK`. The lemma `RowPhases` is what holds of lists with any actions: no
  row of the layer table leads to onboarding, out of the evaluation, or from the formation
  into it. The lemmas about rows (`IntakeRow`, `EvaluationRow`, `AnalysisRow`) say in which states an action of each phase may
  happen and where it leads; `PhaseOfRequest` turns the state of a single live layer
  into the phase of its request, which is what makes the endpoints safe that never
  look at the request.
* `ReportsAreFulfilled`: `ReportedOnlyWhenFulfilled`. Of the rows of the request only
  those that `Finish` uses lead from the analysis to the report (`RequestAnalysisRows`),
  and `Finish` waits for all layers.
* `LastSpecStarts`: `LastSpecStartsAnalysis`. The layer that `FinalizeSpec` moves ends in
  the state it looks up, and the 17 later actions lead to every other state of the
  evaluation, so wherever the others got, and by whatever endpoint, they are expected there.
* `ClosedIsReopened`: `ClosedIsLeftByReopening`, from the rows of a closed request; that no part
  of an un-awaited save of `addAuditors` reaches it is `PhaseInvariant`.

### LayerAnalysisProofs

For any overlap:

* `Typing`: `Spec => []TypeOK`.
* `AnalysisSafety`: without edits, `Spec => []AnalysedLayersEvaluated` for any overlap.
  The invariant alone is not inductive: what a handler will write counts too.
  `IndInv` adds that a handler past its reads holds an evaluation state for its
  layers, and that a request state it is about to write lies among the analysed
  ones only when all layers are evaluated, or are about to be by itself.
  Layers never return from the evaluation to the formation along any row
  (`EndpointTargets`), so a stale "all layers agree" stays true.
* `AnalysisProgress`: `AnalysisIsNotUndone`, from the same invariant.
* `DeletionIsFinal`: `DeletedStaysDeleted`, with any endpoints, edits included.

For handlers one at a time, other than edits, that may fail anywhere:

* `SerialRefinement`: `Spec => ImplementsWorkflow`, the refinement of
  `AssessmentWorkflow`'s analysis. `SerialInv` says that nothing a handler read is out of
  date: after its reads, its layers are live and in one state, and its next state is what
  the table says of that (`ReadHolds`); after its work, what it will write to the request
  is what `Work` would decide once more (`WorkHolds`). Reads, work and failures are then
  stutters, and each `Commit` is the action of its endpoint.
* `FulfilledIsReported`, `GroupReadyAwaits`: `FulfilledRequestIsReported` and
  `GroupReadyAwaitsSpecs`, conjuncts of the invariant `PhasesAgree` of the abstract
  actions, which the refinement carries over.
* `RequestMovesByTable`: `RequestFollowsTable`, through the refinement: every abstract
  action looks its request state up. The run `stale` breaks it by an overlap.

### ContentLogProofs

* `ContentsAreTyped`: `[]ContentTypeOK`. Added: what a transaction has written is finite,
  and a handler holds a row of its own key from the read to the change (`HoldsContent`).
* `ChangesAreKept`: `[]NoChangeLost`. `IndInv` adds that what a transaction
  has marked as flushed is in an entry which that transaction has written (`Covered`);
  both become visible in one commit, and the clean-up takes only what is flushed.
* `EntriesHoldTheirOwn`: `[]LayerLogsOwnChanges`, for any overlap. An entry not yet
  committed holds changes of its own request and layer, too (`EntriesOwned`), and no
  statement alters what a change says of itself (`ChangesStay`).
* `NothingLoggedTwice`: `[]LoggedOnce`. With one handler, what is in the log is not
  pending, what the open transaction has marked still is, and no two of its entries share
  a change (`OneAtATime`). So a second key, or a repeated flush, finds nothing twice.
* `HistoriesAreComplete`: `[]HistoryIsComplete`. `HistoryInv` adds what the handler at work
  knows of its row (`Knows`: the value before is the present one, and after the save the
  changes end where it began) and that ids of changes are handed out in order, by which
  the latest change is the greatest one (`NextIsFree`, `AddedIsLast`).

### GroupsProofs

* `GroupsAreTyped`: `[]GroupsTypeOK`. `GroupsInv` adds what each step of a handler has
  seen to before it refers to it: the group is there, whoever is not to do is saved
  (`AdminOK`), the row a group was made with is never a member's (`RowOK`), and the row a handler holds is one of the user it saves. Neither a member's
  row nor a group's is ever taken away (`Lasting`).
* `RolesArriveInOrder`: `[]RolesArrive`. The property speaks of a consumer that waits;
  `RolesInv` has it at each step, and adds that between save and acknowledgement the given
  list is in the row, which makes a redelivery harmless.
* `UpdatesSetMembers`: `UpdateSetsMembers`. `Joined` says what an update that is alone has
  done so far: all members are listed, and each one it has saved as a member (`marked`) is
  one. The lead's row stays because a handler writes member rows only (`LeadStays`).

### RecordsProofs

* `NumbersTyping` (types) and `NumbersRun`: `NumbersSpec => []NumbersRunOn`. Alone it is
  not inductive. `NumbersInv` adds that what an open transaction has seen is a run from 1
  of committed numbers, and all of them while it is alone (`SeenSound`), and that an
  inserted number is the next one and nobody else's (`InsertSound`).
* `RecordsAreTyped`: `Spec => []RecordsTypeOK` of the composition `MCRecords`. A behaviour
  of it is one of each part (`EachRecord`), so the theorems about the parts hold of it.

### AssetVersionsProofs, AssetSafetyProofs

* `Typing`: `Spec => []TypeOK`, through `IndInv`, which ties what a handler holds to the
  rows: an entity is of a row that is still there, with its asset and baseline
  (`EntitySound`); a drawn id is its drawer's alone (`NewSound`); and each step says what
  a handler at it must hold (`StepSound`). The lemma `StepKeepsInv` takes `Next` apart
  once, through `StepOf`, a description of what any step does to the rest.
* `NoGap`: `[]BaselinesHaveNoGap`, from `IndInv`: the next baseline is counted from an
  entity whose row is still there, and no save changes a baseline. Only versions of deleted
  assets are ever detached (`TypeOK`).
* `CurrentRemains`: `[]LiveAssetHasCurrent`. The invariant `LiveInv` names a witness: a
  current version that nobody holds as archived. An update that archives one leaves its
  new version as the next witness.
* `RemovalLasts`: `RemovedStaysRemoved`: a handler writes a row of a removed asset only
  from an entity it read before, and deleted rows are not read.
* `ApprovalHonest`: `[]ApprovedIsApprovedThere`. Added (`ApprovalSound`): an entity that
  says approved, held by a handler that may still save it, is covered by the register while
  its asset is live; an entity read without its asset is of one that never comes back.
* `ForksAreStale`: `ForksOnlyFromStaleEntities`, from `IndInv`. A step adds no current
  version (`NoneAdded`), or archives a current one for the one it adds (`OneForOne`),
  unless it saves an entity that is not current.
* `ReindexRestores`: `[]QuietReindexRestores`. `QuietInv` has the index after n pages hold
  the versions whose rank, the number of newer current ones, is below n pages
  (`FirstPages`). That the pages are disjoint, and the last one ends with the last rank, is
  the arithmetic of `Ranks`, `PageBounds` and `PagesInTurn`.

### CatalogueProofs

Asset types:

* `TypesAreTyped`: `[]TypesTypeOK`. `TypesInv` adds that versions are inserted in the
  order of their ids (`RowsInv`), and that those a handler holds are inserted ones of its
  type (`HoldsVersions`).
* `MirrorsStay`: `MirrorsBreakByOverlap`. `MirrorsInv` says of a handler that is not
  overtaken (`Judged`) that what it found is still so: what it is going to create says what
  no row says, for a relation and its mirror image alike (`CreatesBoth`), and it is going to
  delete as many rows of the one as of the other (`DeletesBoth`). While it looks, nobody else
  wrote rows between its version and others (`Untouched`, `JudgedStays`), and rows elsewhere
  it does not touch. Counting the copies is `OneLess`, `IdsLeft` and `IdsMade`.
* `VersionsInOneLine`, `RelationsLead`: `[]OneLine` and `[]RelationsLeadToVersions`. With one
  editor, `AloneInv` adds that of the live versions of a type all but the last are
  archived and their numbers grow with their ids (`InOneLine`), and what is true of the
  rows at each step of the editor (`EditAlone`); both survive an editor that stops.

User scope:

* `ScopeInvariant`: `[]ScopeInv`. What is reachable in a graph is the least set closed under
  its edges, which needs no induction over paths: what a walk reached lies in every closed
  set (`WalkSound`, `LineSound`), and, when no call failed, it is a closed set itself up to
  the level or the people it still has to follow (`WalkComplete`, `LineComplete`).
* `FailuresNarrow`, `ScopeCompleteness`, `ChangesAreSeen`: `[]FailuresOnlyNarrow`,
  `[]ScopeIsComplete`, `[]ChangesOnlyWhatItSees`, from that invariant.
* `WalksNeverStall`: `WalksAdvance`, for graphs with any cycles.

Imports:

* `ImportsAreTyped`: `[]ImportTypeOK`.
* `ImportsAnswerEveryRow`: `[]EveryRowAnswered`. `ImportInv` adds that the rows
  before the one an import is at are saved or reported (`Answered`), and that what it
  saved is in the stock, to which every import only appends (`Stocked`, `AppendKeeps`).
  The theorem also covers files with headers only, which the run has none of.
* `TwinsComeFromOverlap`: `[]TwinsFromOverlap`. `TwinInv` adds that imports running at the
  same time are known to (`OverlapsKnown`), and that a twin which came after an import
  searched for it is of an import that overlaps (`TwinsAwaited`). The proof needed a clause
  the bounds of the run did not: two of the assets that were there before may be twins.
* `ImportsMayBeRepeated`: `[]RetryCompletes`. `RetryInv` says of each row an import is past
  that its asset, or one with its address, is in the stock, or what it needs is missing.

`CatalogueIsTyped`: `Spec => []CatalogueTypeOK` of the composition `MCCatalogue`, a behaviour
of which is one of each part (`EachPart`).

### Model-checked only

`HandlersFinish` and `OnlyPoolStops`: liveness under fairness, and the enabledness it rests
on, are out of the provers' reach. What a violation run shows is a counterexample, which needs no proof.

## Not modelled

* Late landing of un-awaited updates of layers (`updateManyStateByAssessmentRequestId`,
  `addAuditors`): the workflow lets any part of them be lost, but not land later.
* What is in the rows of `assessment_team`, and bulk actions over layers of several requests.
* The detaching of layers by `save(request)` with the layers loaded, a reconnect of a
  consumer while its old handler still runs, and an edit of a relation type that changes its
  direction between two edits of asset types.
* Connections returned in use: `updateTransaction` and
  `createAssetWithVersionsFromFile` return in places with a transaction open, and what the next
  user of that connection then does is outside of every module.
* The SOC template of the imports, relations between assets, tags, filters, locations,
  categories; contents of test cases, remediations and comments.
* The wording of log entries, and log entries that carry no changes.
* Cartables, dashboards, reports and exports (read-only queries), notifications and
  other calls of external services, cron reports, configuration, vault, logger, i18n
  and the seeders other than the tables.

Not caught, although the hazard is in the code: `ImplementsWorkflow` and
`HistoryIsComplete` are about one handler at a time and say nothing of the increment of
`iterationCount`, or the value, that two lose; `RelationsLeadToVersions` and `LoggedOnce`
likewise say nothing of the relation made during a removal, or the change that two flushes
log.

## Possible extensions

The late landing of the un-awaited updates, at the grain of statements, as a refinement of
the intake and the formation in `AssessmentWorkflow`, with proofs like those of
`LayerAnalysisProofs`; connections that come back to the pool inside a transaction.
