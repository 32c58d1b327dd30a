--------------------------- MODULE TeamAssignment ---------------------------
(***************************************************************************)
(* The handlers that write many rows in one transaction: addSAM and        *)
(* addSupervisor, which go through a list of layers, and the bulk update   *)
(* by action.  A transaction holds a connection of the pool and the locks  *)
(* of the rows it wrote until it ends; a repository called inside it takes *)
(* another connection for its query.  What is written is not modelled: see *)
(* AssessmentWorkflow for that.                                            *)
(***************************************************************************)
EXTENDS Naturals, Sequences, FiniteSets

CONSTANTS
  Layers,
  Handlers,
  NoHandler,
  Limits      \* what is settled at the start: the connections of the pool, for
              \* which a query waits as long as it takes, and what is called

\* A call: the layers in the order it comes to their rows, those with rows of
\* the team that it deletes, and whether a bulk update is a reinstatement.  (A
\* call with no layer waits for nobody.)
CallType == [ op : {"list", "bulk"}, layers : Seq(Layers), drops : SUBSET Layers,
              reinstates : BOOLEAN ]

ASSUME TeamAssumption ==
  /\ NoHandler \notin Handlers
  /\ \A m \in Limits :
       /\ m.connections \in Nat
       /\ \A c \in m.calls : c \in CallType /\ Len(c.layers) > 0

\* The rows that are locked: those of the team of a layer are one.
Rows == { <<table, l>> : table \in {"assessment_team", "assessment_layer"}, l \in Layers }
          \cup { <<"assessment_request">> }

NoCall == [op |-> "none"]

VARIABLES
  step,    \* where each handler is
  call,    \* what it was called with
  at,      \* the place in its list
  locked,  \* the handler whose transaction has written the row
  free,    \* connections in the pool
  limits   \* one of Limits; never changes

vars == <<step, call, at, locked, free, limits>>

Init ==
  /\ step = [h \in Handlers |-> "idle"]
  /\ call = [h \in Handlers |-> NoCall]
  /\ at = [h \in Handlers |-> 1]
  /\ locked = [r \in Rows |-> NoHandler]
  /\ limits \in Limits
  /\ free = limits.connections

-----------------------------------------------------------------------------
Layer(h) == call[h].layers[at[h]]

\* The row the next statement of h writes.
Wanted(h) ==
  CASE step[h] = "dropping" -> <<"assessment_team", Layer(h)>>
    [] step[h] = "moving" -> <<"assessment_layer", Layer(h)>>
    [] step[h] = "reopening" -> <<"assessment_request">>

Writes(h) == step[h] \in {"dropping", "moving", "reopening"}

InTransaction(h) == step[h] \notin {"idle", "reading", "connecting"}

GoTo(h, next) == step' = [step EXCEPT ![h] = next]

\* The handler answers or throws.
Answer(h) ==
  /\ GoTo(h, "idle")
  /\ call' = [call EXCEPT ![h] = NoCall]
  /\ at' = [at EXCEPT ![h] = 1]

\* The statement gets the lock of its row unless another transaction has it.
Lock(h) ==
  /\ locked[Wanted(h)] \in {h, NoHandler}
  /\ locked' = [locked EXCEPT ![Wanted(h)] = h]

\* A query of a repository: on a connection of its own, back at once.
Query == free > 0

\* Mutant of FreeLocks: the rows of the teams stay locked.
FreeLayerLocks(h) ==
  locked' = [r \in Rows |-> IF locked[r] = h /\ r[1] # "assessment_team"
                            THEN NoHandler ELSE locked[r]]

FreeLocks(h) == locked' = [r \in Rows |-> IF locked[r] = h THEN NoHandler ELSE locked[r]]

FreeConnection(h) == free' = free + 1

-----------------------------------------------------------------------------
\* A client calls.
Call(h) ==
  /\ step[h] = "idle"
  /\ \E c \in limits.calls :
       /\ call' = [call EXCEPT ![h] = c]
       /\ GoTo(h, IF c.op = "bulk" THEN "reading" ELSE "connecting")
  /\ UNCHANGED <<at, locked, free>>

\* The bulk update reads its layers and the transition before the transaction,
\* or throws.
ReadLayers(h) ==
  /\ step[h] = "reading" /\ Query
  /\ \/ GoTo(h, "connecting") /\ UNCHANGED <<call, at>>
     \/ Answer(h)
  /\ UNCHANGED <<locked, free>>

\* createQueryRunner, connect and startTransaction.
Connect(h) ==
  /\ step[h] = "connecting" /\ free > 0
  /\ free' = free - 1
  /\ GoTo(h, IF call[h].op = "bulk" THEN "moving" ELSE "finding")
  /\ UNCHANGED <<call, at, locked>>

\* this.findOne for the next layer of the list: by a connection of its own.
FindLayer(h) ==
  /\ step[h] = "finding" /\ Query
  /\ GoTo(h, IF Layer(h) \in call[h].drops THEN "dropping" ELSE "choosing")
  /\ UNCHANGED <<call, at, locked, free>>

\* findAndDeleteTransactionable; what it then inserts into the team of the layer
\* waits for nobody.
DropTeam(h) ==
  /\ step[h] = "dropping" /\ Lock(h)
  /\ GoTo(h, "choosing")
  /\ UNCHANGED <<call, at, free>>

\* Process, action and transition: three such queries, each by a connection of
\* its own.
FindTransition(h) ==
  /\ step[h] = "choosing" /\ Query
  /\ GoTo(h, "moving")
  /\ UNCHANGED <<call, at, locked, free>>

More(h) == at[h] < Len(call[h].layers)

\* The update of a row of assessment_layer: by id, or one of those the bulk
\* update comes to.
MoveLayer(h) ==
  /\ step[h] = "moving" /\ Lock(h)
  /\ IF call[h].op = "bulk" /\ More(h)
     THEN /\ at' = [at EXCEPT ![h] = @ + 1]
          /\ UNCHANGED step
     ELSE /\ GoTo(h, IF call[h].reinstates THEN "reporting" ELSE "logging")
          /\ UNCHANGED at
  /\ UNCHANGED <<call, free>>

\* A reinstatement reads the request in the transaction: it is reported or not.
ReadRequest(h) ==
  /\ step[h] = "reporting"
  /\ \E next \in {"asking", "logging"} : GoTo(h, next)
  /\ UNCHANGED <<call, at, locked, free>>

\* Process, action and transition of the request: as for a layer.
FindReopening(h) ==
  /\ step[h] = "asking" /\ Query
  /\ GoTo(h, "reopening")
  /\ UNCHANGED <<call, at, locked, free>>

ReopenRequest(h) ==
  /\ step[h] = "reopening" /\ Lock(h)
  /\ GoTo(h, "logging")
  /\ UNCHANGED <<call, at, free>>

\* The move is logged: on to the next layer of the list, or to the end.
Logged(h) ==
  IF call[h].op = "list" /\ More(h)
  THEN at' = [at EXCEPT ![h] = @ + 1] /\ GoTo(h, "finding")
  ELSE UNCHANGED at /\ GoTo(h, "committing")

\* flushToActionLog in the transaction, for a bulk update once for all layers:
\* whoever moved a layer has its pending changes to himself.  When there are
\* any ...
Flush(h) ==
  /\ step[h] = "logging"
  /\ \/ Logged(h)
     \/ GoTo(h, "labelling") /\ UNCHANGED at
  /\ UNCHANGED <<call, locked, free>>

\* ... what they show is looked up by a connection of its own.
FindLabels(h) ==
  /\ step[h] = "labelling" /\ Query
  /\ Logged(h)
  /\ UNCHANGED <<call, locked, free>>

Commit(h) ==
  /\ step[h] = "committing"
  /\ FreeLocks(h) /\ FreeConnection(h) /\ Answer(h)

\* Mutant of Rollback: the connection is released without a rollback.
ReleaseOnly(h) == FreeConnection(h) /\ Answer(h) /\ UNCHANGED locked

\* catch and finally: rollbackTransaction, then release.
Rollback(h) == FreeLocks(h) /\ FreeConnection(h) /\ Answer(h)

\* No layer, no transition, or a statement fails.
Throw(h) == InTransaction(h) /\ Rollback(h)

-----------------------------------------------------------------------------
(* PostgreSQL finds the transactions that wait for each other's locks in a *)
(* circle, and lets the statement of one fail.                             *)

WaitsFor(h) ==
  IF Writes(h) /\ locked[Wanted(h)] # h THEN locked[Wanted(h)] ELSE NoHandler

InCircle(h) ==
  \E circle \in SUBSET Handlers : h \in circle /\ { WaitsFor(g) : g \in circle } = circle

Deadlock(h) == InCircle(h) /\ Rollback(h)

-----------------------------------------------------------------------------
Go(h) ==
  \/ ReadLayers(h) \/ Connect(h) \/ FindLayer(h) \/ DropTeam(h) \/ FindTransition(h)
  \/ MoveLayer(h) \/ ReadRequest(h) \/ FindReopening(h) \/ ReopenRequest(h)
  \/ Flush(h) \/ FindLabels(h) \/ Commit(h)

Next ==
  /\ UNCHANGED limits
  /\ \E h \in Handlers : Call(h) \/ Go(h) \/ Throw(h) \/ Deadlock(h)

Spec == Init /\ [][Next]_vars

\* The database and the pool serve who waits in turn, and circles are found.
\* That a statement fails otherwise is never due.
Fairness ==
  /\ \A h \in Handlers : SF_vars(Go(h) /\ UNCHANGED limits)
  /\ WF_vars((\E h \in Handlers : Deadlock(h)) /\ UNCHANGED limits)

FairSpec == Spec /\ Fairness

-----------------------------------------------------------------------------
\* With more connections than handlers each call comes to an end, in whatever
\* order the lists name the layers: a circle of locks loses one of its
\* transactions, and each transaction gives its locks and its connection back
\* however it ends.
HandlersFinish ==
  \A h \in Handlers :
    step[h] # "idle" /\ limits.connections > Cardinality(Handlers) ~> step[h] = "idle"

\* A transaction that waits for a second connection.
Starved(h) == step[h] \in {"finding", "choosing", "asking", "labelling"} /\ ~ Query

\* When the pool is no larger than the number of calls in flight, only the pool
\* stops them, and for good: no connection is left, and a transaction that holds
\* one waits for another, which PostgreSQL does not see as a deadlock.  Locks
\* alone never do.
OnlyPoolStops ==
  \/ \A h \in Handlers : []<>(step[h] = "idle")
  \/ <>[](\E h \in Handlers : Starved(h))
=============================================================================
