------------------------- MODULE AssetSafetyProofs -------------------------
(***************************************************************************)
(* The safety properties of AssetVersions, from its inductive invariant.   *)
(***************************************************************************)
EXTENDS AssetVersionsProofs

-----------------------------------------------------------------------------
(* What the steps do, as far as the properties tell them apart.            *)

\* The other handlers are left alone.
Alone(h) == \A o \in Handlers \ {h} : handler'[o] = handler[o]

\* The handler ends, or keeps the entity it read.
Keeps(h) ==
  \/ handler'[h].base = 0 /\ handler'[h].asset = "none"
  \/ /\ handler'[h].op = handler[h].op
     /\ handler'[h].asset = handler[h].asset
     /\ handler'[h].base = handler[h].base
     /\ handler'[h].row = handler[h].row

Beginning(h) ==
  \/ Create(h) \/ Import(h) \/ ReadBase(h) \/ Remove(h) \/ ReadForStatus(h)
  \/ Reindex(h)

\* Steps that change neither table.
Quiet(h) ==
  \/ Register(h) \/ IndexCreated(h) \/ Open(h) \/ LeaveVersions(h)
  \/ FindVersions(h) \/ Decide(h) \/ IndexPage(h) \/ EndReindex(h)
  \/ Log(h) \/ Fail(h)

LEMMA StepKinds ==
  ASSUME Next
  PROVE  \E h \in Handlers :
           \/ Beginning(h) \/ Quiet(h)
           \/ CommitCreate(h) \/ CommitImport(h) \/ CommitUpdate(h)
           \/ DeleteAsset(h) \/ DeleteVersions(h)
           \/ SaveStatus(h) \/ LandDeletion(h)
BY DEF Next, Creating, Updating, Removing, ChangingStatus, Reindexing, Beginning, Quiet

\* A handler that begins knows no version, or the one it just read.
LEMMA BeginningEffect ==
  ASSUME IndInv, NEW h \in Handlers, Beginning(h)
  PROVE  /\ asset' = asset /\ version' = version /\ register' = register
         /\ regime' = regime
         /\ Alone(h)
         /\ \/ /\ handler'[h].base = 0
               /\ \/ handler'[h].asset = "none" \/ handler'[h].op = "remove"
                  \/ New(handler'[h].asset)
            \/ /\ handler'[h].base \in Versions
               /\ Readable(handler'[h].base)
               /\ handler'[h].asset = version[handler'[h].base].asset
               /\ handler'[h].row.archived => version[handler'[h].base].archived
               /\ \/ handler'[h].row = version[handler'[h].base]
                  \/ handler'[h].asset \notin LogSources
                  \/ handler'[h].step = "deciding"
                  \/ asset[handler'[h].asset] # "live"
<1>1. handler \in [Handlers -> HandlerType] /\ version \in [Versions -> RowType]
  BY DEF IndInv, TypeOK
<1>2. /\ asset' = asset /\ version' = version /\ register' = register
      /\ regime' = regime
  BY DEF Beginning, Create, Import, ReadBase, Remove, ReadForStatus, Reindex
<1>3. Alone(h)
  BY <1>1 DEF Beginning, Create, Import, ReadBase, Remove, ReadForStatus, Reindex,
              Start, Alone
<1>4. Idle.base = 0 /\ Idle.asset = "none"
  BY DEF Idle
<1>5. CASE Create(h) \/ Import(h)
  <2>1. PICK a \in Assets : New(a) /\ handler'[h].base = 0 /\ handler'[h].asset = a
    <3>1. CASE Create(h)
      <4>1. PICK a \in Assets :
              /\ New(a)
              /\ handler' = [handler EXCEPT ![h] =
                   [ Idle EXCEPT !.op = "create", !.asset = a,
                      !.step = IF a \in LogSources THEN "registering" ELSE "creating" ]]
        BY <3>1 DEF Create, Start
      <4>2. handler'[h].base = 0 /\ handler'[h].asset = a
        BY <1>1, <4>1 DEF Idle
      <4>3. QED
        BY <4>1, <4>2
    <3>2. CASE Import(h)
      <4>1. PICK a \in Assets, v \in Versions :
              /\ New(a)
              /\ handler' = [handler EXCEPT ![h] =
                   [ Idle EXCEPT !.op = "import", !.asset = a, !.new = v,
                                 !.step = "open" ]]
        BY <3>2 DEF Import, Start
      <4>2. handler'[h].base = 0 /\ handler'[h].asset = a
        BY <1>1, <4>1 DEF Idle
      <4>3. QED
        BY <4>1, <4>2
    <3>3. QED
      BY <1>5, <3>1, <3>2
  <2>2. QED
    BY <1>2, <1>3, <2>1
<1>6. CASE Remove(h) \/ Reindex(h)
  <2>1. CASE Remove(h)
    <3>1. PICK a \in Assets : handler' = [handler EXCEPT ![h] =
             [ Idle EXCEPT !.op = "remove", !.asset = a, !.step = "removing" ]]
      BY <2>1 DEF Remove, Start
    <3>2. handler'[h].base = 0 /\ handler'[h].op = "remove"
      BY <1>1, <3>1 DEF Idle
    <3>3. QED
      BY <1>2, <1>3, <3>2
  <2>2. CASE Reindex(h)
    <3>1. handler'[h].base = 0 /\ handler'[h].asset = "none"
      BY <1>1, <2>2 DEF Reindex, Start, Idle
    <3>2. QED
      BY <1>2, <1>3, <3>1
  <2>3. QED
    BY <1>6, <2>1, <2>2
<1>7. CASE ReadBase(h)
  BY <1>1, <1>2, <1>3, <1>7 DEF ReadBase, Start, Idle
<1>8. CASE ReadForStatus(h)
  <2>1. PICK v \in Versions, status \in {"inService", "approved", "declined"} :
          /\ Readable(v)
          /\ handler' = [handler EXCEPT ![h] = StatusHandler(v, status)]
    BY <1>8, StatusBegun
  <2>2. handler'[h] = StatusHandler(v, status)
    BY <1>1, <2>1
  <2>3. /\ handler'[h].base = v /\ handler'[h].asset = version[v].asset
        /\ handler'[h].row.archived = version[v].archived
        /\ handler'[h].step = IF Asked(v) THEN "deciding" ELSE "saving"
    BY <2>1, <2>2, StatusHandlerType
  <2>4. QED
    BY <1>2, <1>3, <2>1, <2>3 DEF Asked
<1>9. QED
  BY <1>5, <1>6, <1>7, <1>8 DEF Beginning

LEMMA QuietEffect ==
  ASSUME IndInv, NEW h \in Handlers, Quiet(h)
  PROVE  asset' = asset /\ version' = version /\ regime' = regime
         /\ Alone(h) /\ Keeps(h)
<1>1. handler \in [Handlers -> HandlerType]
  BY DEF IndInv, TypeOK
<1>2. asset' = asset /\ version' = version /\ regime' = regime
  BY DEF Quiet, Register, IndexCreated, Open, LeaveVersions, FindVersions, Decide,
         IndexPage, EndReindex, Log, Fail
<1>3. Alone(h)
  BY <1>1 DEF Quiet, Register, IndexCreated, Open, LeaveVersions, FindVersions,
              Decide, IndexPage, EndReindex, Log, Fail, GoTo, Alone
<1>4. Keeps(h)
  <2>1. CASE handler' = [handler EXCEPT ![h] = Idle]
    BY <1>1, <2>1 DEF Keeps, Idle
  <2>2. CASE Register(h) \/ IndexCreated(h) \/ Open(h) \/ FindVersions(h)
    BY <1>1, <2>2 DEF Keeps, HandlerType, Register, IndexCreated, Open, FindVersions,
                      GoTo
  <2>3. CASE Decide(h) \/ IndexPage(h) \/ EndReindex(h)
    BY <1>1, <2>3 DEF Keeps, HandlerType, Decide, IndexPage, EndReindex, GoTo
  <2>4. CASE Fail(h)
    BY <1>1, <2>1, <2>4 DEF Keeps, HandlerType, Fail, GoTo
  <2>5. QED
    BY <2>1, <2>2, <2>3, <2>4 DEF Quiet, LeaveVersions, Log
<1>5. QED
  BY <1>2, <1>3, <1>4

\* The first version of an asset that only this handler knows of.
LEMMA CreateEffect ==
  ASSUME IndInv, NEW h \in Handlers, CommitCreate(h) \/ CommitImport(h)
  PROVE  /\ register' = register /\ regime' = regime
         /\ Alone(h) /\ Keeps(h) /\ OwnAsset(h)
         /\ handler[h].op \in {"create", "import"}
         /\ asset' = [asset EXCEPT ![handler[h].asset] = "live"]
         /\ \E v \in Versions, status \in Status \ {"approved"} :
              /\ version[v] = NoRow
              /\ version' = [version EXCEPT ![v] = Row(handler[h].asset, 1, status)]
<1>1. handler \in [Handlers -> HandlerType] /\ StepSound(h) /\ NewSound(h)
  BY DEF IndInv, TypeOK
<1>2. CASE CommitCreate(h)
  <2>1. handler[h].op = "create" /\ OwnAsset(h)
    BY <1>1, <1>2 DEF StepSound, CommitCreate, At
  <2>2. Alone(h) /\ Keeps(h)
    <3>1. PICK v \in Versions :
            handler' = [handler EXCEPT ![h].step = "indexing", ![h].new = v,
                                       ![h].ok = TRUE]
      BY <1>2 DEF CommitCreate
    <3>2. QED
      BY <1>1, <3>1 DEF Alone, Keeps, HandlerType
  <2>3. PICK v \in Versions :
          /\ Fresh(v)
          /\ version' = [version EXCEPT ![v] = Row(handler[h].asset, 1,
               IF handler[h].asset \in LogSources THEN "pending" ELSE "inService")]
    BY <1>2 DEF CommitCreate
  <2>4. version[v] = NoRow
    BY <2>3 DEF Fresh
  <2>5. (IF handler[h].asset \in LogSources THEN "pending" ELSE "inService")
           \in Status \ {"approved"}
    BY DEF Status
  <2>6. QED
    BY <1>2, <2>1, <2>2, <2>3, <2>4, <2>5 DEF CommitCreate
<1>3. CASE CommitImport(h)
  <2>1. handler[h].op = "import" /\ OwnAsset(h)
    BY <1>1, <1>3 DEF StepSound, CommitImport, At
  <2>2. Alone(h) /\ Keeps(h)
    BY <1>1, <1>3 DEF CommitImport, Alone, Keeps, Idle
  <2>3. handler[h].new \in Versions /\ version[handler[h].new] = NoRow
    BY <1>1, <1>3 DEF CommitImport, At, NewSound, HandlerType
  <2>4. "inService" \in Status \ {"approved"}
    BY DEF Status
  <2>5. QED
    BY <1>3, <2>1, <2>2, <2>3, <2>4 DEF CommitImport
<1>4. QED
  BY <1>2, <1>3

\* The next version of an asset, and the one it was made from.
LEMMA UpdateEffect ==
  ASSUME IndInv, NEW h \in Handlers, CommitUpdate(h)
  PROVE  /\ asset' = asset /\ register' = register /\ regime' = regime
         /\ Alone(h) /\ Keeps(h)
         /\ handler[h].op = "update" /\ handler[h].step = "open"
         /\ handler[h].asset \in Assets
         /\ handler[h].base \in Versions /\ handler[h].base # 0
         /\ version[handler[h].base] # NoRow
         /\ version[handler[h].base].asset = handler[h].asset
         /\ handler[h].row \in RowType /\ handler[h].row.asset = handler[h].asset
         /\ handler[h].row.baseline = version[handler[h].base].baseline
         /\ handler[h].new \in Versions /\ version[handler[h].new] = NoRow
         /\ \E status \in Status \ {"approved"} :
              \A u \in Versions : version'[u] =
                IF u = handler[h].base THEN [handler[h].row EXCEPT !.archived = TRUE]
                ELSE IF u = handler[h].new
                THEN Row(handler[h].asset, handler[h].row.baseline + 1, status)
                ELSE version[u]
<1>1. /\ handler \in [Handlers -> HandlerType] /\ version \in [Versions -> RowType]
      /\ StepSound(h) /\ NewSound(h) /\ EntitySound(h)
  BY DEF IndInv, TypeOK
<1>2. handler[h].op = "update" /\ handler[h].step = "open"
  BY DEF CommitUpdate, At
<1>3. /\ handler[h].base # 0 /\ handler[h].base \in Versions
      /\ handler[h].asset \in Assets
      /\ version[handler[h].base].asset = handler[h].asset
      /\ handler[h].row \in RowType /\ handler[h].row.asset = handler[h].asset
      /\ handler[h].row.baseline = version[handler[h].base].baseline
      /\ handler[h].new \in Versions /\ version[handler[h].new] = NoRow
  BY <1>1, <1>2 DEF StepSound, EntitySound, HandlerType, NewSound
<1>4. version[handler[h].base] # NoRow
  BY <1>3, ConstantsAssumption DEF NoRow
<1>5. Alone(h) /\ Keeps(h)
  BY <1>1 DEF CommitUpdate, Alone, Keeps, HandlerType
<1> DEFINE status == IF handler[h].asset \in LogSources THEN "pending" ELSE "inService"
<1>6. status \in Status \ {"approved"}
  BY DEF Status
<1>7. version' = [[version EXCEPT ![handler[h].new] =
                     Row(handler[h].asset, handler[h].row.baseline + 1, status)]
                   EXCEPT ![handler[h].base] =
                     [handler[h].row EXCEPT !.archived = TRUE]]
  BY DEF CommitUpdate, SaveBase, NextBaseline
<1> HIDE DEF status
<1>8. \A u \in Versions : version'[u] =
        IF u = handler[h].base THEN [handler[h].row EXCEPT !.archived = TRUE]
        ELSE IF u = handler[h].new
        THEN Row(handler[h].asset, handler[h].row.baseline + 1, status)
        ELSE version[u]
  BY <1>1, <1>3, <1>4, <1>7
<1>9. QED
  BY <1>2, <1>3, <1>4, <1>5, <1>6, <1>8 DEF CommitUpdate

\* The versions of a removed asset are marked deleted.
LEMMA DeletionEffect ==
  ASSUME IndInv, NEW h \in Handlers, DeleteVersions(h)
  PROVE  /\ asset' = asset /\ register' = register /\ regime' = regime
         /\ Alone(h) /\ Keeps(h)
         /\ handler[h].asset \in Assets /\ asset[handler[h].asset] = "deleted"
         /\ \A u \in Versions :
              \/ version'[u] = version[u]
              \/ /\ version[u].asset = handler[h].asset
                 /\ version'[u] = [version[u] EXCEPT !.deleted = TRUE]
<1>1. handler \in [Handlers -> HandlerType] /\ StepSound(h) /\ OwnSound(h)
  BY HandlerKnown DEF IndInv, TypeOK
<1>2. handler[h].asset \in Assets /\ asset[handler[h].asset] = "deleted"
  BY <1>1 DEF DeleteVersions, At, StepSound
<1>3. Alone(h) /\ Keeps(h)
  BY <1>1 DEF DeleteVersions, Alone, Keeps, HandlerType
<1>4. \A u \in handler[h].doomed : version[u].asset = handler[h].asset
  BY <1>1 DEF OwnSound, Rows
<1>5. QED
  BY <1>2, <1>3, <1>4 DEF DeleteVersions

\* A status is saved with the rest of the entity, or its version deleted.
LEMMA StatusEffect ==
  ASSUME IndInv, NEW h \in Handlers, SaveStatus(h) \/ LandDeletion(h)
  PROVE  /\ asset' = asset /\ register' = register /\ regime' = regime
         /\ Alone(h) /\ Keeps(h)
         /\ handler[h].op = "status" /\ handler[h].asset \in Assets
         /\ handler[h].base \in Versions /\ handler[h].base # 0
         /\ version[handler[h].base] # NoRow
         /\ version[handler[h].base].asset = handler[h].asset
         /\ \E row \in RowType :
              /\ version' = [version EXCEPT ![handler[h].base] = row]
              /\ row.asset = handler[h].asset
              /\ row.baseline = version[handler[h].base].baseline
              /\ \/ /\ row = handler[h].row /\ handler[h].step = "saving"
                    /\ ~ row.deleted
                 \/ /\ handler[h].asset \in LogSources
                    /\ row.status = version[handler[h].base].status
<1>1. /\ handler \in [Handlers -> HandlerType] /\ version \in [Versions -> RowType]
      /\ StepSound(h) /\ EntitySound(h)
  BY DEF IndInv, TypeOK
<1>2. /\ handler[h].op = "status" /\ handler[h].base # 0
      /\ handler[h].base \in Versions
  BY <1>1 DEF SaveStatus, LandDeletion, At, StepSound, HandlerType
<1>3. /\ handler[h].asset \in Assets
      /\ version[handler[h].base].asset = handler[h].asset
      /\ version[handler[h].base] # NoRow
      /\ handler[h].row \in RowType /\ ~ handler[h].row.deleted
      /\ handler[h].row.asset = handler[h].asset
      /\ handler[h].row.baseline = version[handler[h].base].baseline
  BY <1>1, <1>2, ConstantsAssumption DEF EntitySound, NoRow, HandlerType
<1>4. asset' = asset /\ register' = register /\ regime' = regime
  BY DEF SaveStatus, LandDeletion
<1>5. Alone(h)
  BY <1>1 DEF SaveStatus, LandDeletion, GoTo, Alone
<1>6. Keeps(h)
  <2>1. CASE handler' = [handler EXCEPT ![h] = Idle]
    BY <1>1, <2>1 DEF Keeps, Idle
  <2>2. CASE GoTo(h, "landing")
    BY <1>1, <2>2 DEF Keeps, GoTo, HandlerType
  <2>3. CASE handler' = [handler EXCEPT ![h] = [handler[h] EXCEPT !.doomed = {}]]
    BY <1>1, <2>3 DEF Keeps, HandlerType
  <2>4. QED
    BY <2>1, <2>2, <2>3 DEF SaveStatus, LandDeletion
<1>7. CASE SaveStatus(h)
  <2>1. version' = [version EXCEPT ![handler[h].base] = handler[h].row]
        /\ handler[h].step = "saving"
    BY <1>7 DEF SaveStatus, At
  <2>2. QED
    BY <1>2, <1>3, <1>4, <1>5, <1>6, <2>1
<1>8. CASE LandDeletion(h)
  <2> DEFINE row == [version[handler[h].base] EXCEPT !.deleted = TRUE]
  <2>1. version' = [version EXCEPT ![handler[h].base] = row]
        /\ handler[h].asset \in LogSources
    BY <1>1, <1>8 DEF LandDeletion, StepSound
  <2>2. /\ row \in RowType /\ row.asset = handler[h].asset
        /\ row.baseline = version[handler[h].base].baseline
        /\ row.status = version[handler[h].base].status
    BY <1>1, <1>2, <1>3 DEF RowType
  <2> HIDE DEF row
  <2>3. QED
    BY <1>2, <1>3, <1>4, <1>5, <1>6, <2>1, <2>2
<1>9. QED
  BY <1>7, <1>8

-----------------------------------------------------------------------------
(* Baselines.                                                              *)

\* A row keeps its asset and its baseline, and a new row has baseline 1 or
\* the one after that of an older row.
LEMMA RowsLast ==
  ASSUME IndInv, Next, NEW u \in Versions
  PROVE  /\ version[u] # NoRow => /\ version'[u].asset = version[u].asset
                                  /\ version'[u].baseline = version[u].baseline
         /\ version[u] = NoRow =>
              \/ version'[u] = NoRow
              \/ version'[u].baseline = 1
              \/ \E w \in Versions :
                   /\ version[w] # NoRow
                   /\ version[w].asset = version'[u].asset
                   /\ version[w].baseline + 1 = version'[u].baseline
<1>1. PICK h \in Handlers :
        \/ Beginning(h) \/ Quiet(h)
        \/ CommitCreate(h) \/ CommitImport(h) \/ CommitUpdate(h)
        \/ DeleteAsset(h) \/ DeleteVersions(h)
        \/ SaveStatus(h) \/ LandDeletion(h)
  BY StepKinds
<1>2. version \in [Versions -> RowType]
  BY DEF IndInv, TypeOK
<1>3. CASE Beginning(h) \/ Quiet(h) \/ DeleteAsset(h)
  <2>1. version' = version
    BY <1>3, BeginningEffect, QuietEffect DEF DeleteAsset
  <2>2. QED
    BY <2>1
<1>4. CASE CommitCreate(h) \/ CommitImport(h)
  <2>1. PICK v \in Versions, status \in Status :
          /\ version[v] = NoRow
          /\ version' = [version EXCEPT ![v] = Row(handler[h].asset, 1, status)]
    BY <1>4, CreateEffect
  <2>2. version'[u] = version[u] \/ (u = v /\ version'[u].baseline = 1)
    BY <1>2, <2>1 DEF Row
  <2>3. QED
    BY <2>1, <2>2
<1>5. CASE CommitUpdate(h)
  <2> DEFINE me == handler[h]
  <2>1. /\ me.base \in Versions /\ version[me.base] # NoRow
        /\ version[me.base].asset = me.asset
        /\ me.row \in RowType /\ me.row.asset = me.asset
        /\ me.row.baseline = version[me.base].baseline
        /\ version[me.new] = NoRow
    BY <1>5, UpdateEffect
  <2>2. PICK status \in Status :
          version'[u] =
            IF u = me.base THEN [me.row EXCEPT !.archived = TRUE]
            ELSE IF u = me.new
            THEN Row(me.asset, me.row.baseline + 1, status)
            ELSE version[u]
    BY <1>5, UpdateEffect
  <2>3. CASE u = me.base
    BY <2>1, <2>2, <2>3 DEF RowType
  <2>4. CASE u = me.new
    <3>1. /\ version'[u].baseline = version[me.base].baseline + 1
          /\ version'[u].asset = version[me.base].asset
      BY <2>1, <2>2, <2>4 DEF Row
    <3>2. QED
      BY <2>1, <2>4, <3>1
  <2>5. CASE u \notin {me.base, me.new}
    BY <2>2, <2>5
  <2>6. QED
    BY <2>3, <2>4, <2>5
<1>6. CASE DeleteVersions(h)
  <2>1. version[u] \in RowType /\ version[u] = NoRow => version[u].asset \notin Assets
    BY <1>2, ConstantsAssumption DEF NoRow
  <2>2. \/ version'[u] = version[u]
        \/ /\ version[u].asset \in Assets
           /\ version'[u] = [version[u] EXCEPT !.deleted = TRUE]
    BY <1>6, DeletionEffect
  <2>3. QED
    BY <1>2, <2>1, <2>2 DEF RowType
<1>7. CASE SaveStatus(h) \/ LandDeletion(h)
  <2>1. PICK row \in RowType :
          /\ version' = [version EXCEPT ![handler[h].base] = row]
          /\ version[handler[h].base] # NoRow
          /\ row.asset = version[handler[h].base].asset
          /\ row.baseline = version[handler[h].base].baseline
    BY <1>7, StatusEffect
  <2>2. version'[u] = IF u = handler[h].base THEN row ELSE version[u]
    BY <1>2, <2>1
  <2>3. QED
    BY <2>1, <2>2
<1>8. QED
  BY <1>1, <1>3, <1>4, <1>5, <1>6, <1>7

\* The same of the asset a row was inserted for, removed or not.
CountedInv ==
  \A a \in Assets : \A v \in Rows(a) :
    version[v].baseline > 1 =>
      \E u \in Rows(a) : version[u].baseline + 1 = version[v].baseline

\* The baselines of an asset are 1, 2, ... without a gap, however many updates
\* overlap, roll back or fail, and whatever is deleted meanwhile: the next one
\* is counted from a row of the same asset, whose baseline no save changes.
THEOREM NoGap == Spec => []BaselinesHaveNoGap
<1>1. Init => CountedInv
  BY ConstantsAssumption DEF Init, CountedInv, Rows, NoRow
<1>2. IndInv /\ CountedInv /\ [Next]_vars => CountedInv'
  <2> SUFFICES ASSUME IndInv, CountedInv, [Next]_vars
               PROVE  CountedInv'
    OBVIOUS
  <2>1. CASE UNCHANGED vars
    BY <2>1 DEF vars, CountedInv, Rows
  <2>2. CASE Next
    <3>1. SUFFICES ASSUME NEW a \in Assets, NEW v \in Versions,
                          version'[v].asset = a, version'[v].baseline > 1
                   PROVE  \E u \in Versions : /\ version'[u].asset = a
                                              /\ version'[u].baseline + 1
                                                   = version'[v].baseline
      BY DEF CountedInv, Rows
    <3>2. \E w \in Versions : /\ version[w] # NoRow
                              /\ version[w].asset = a
                              /\ version[w].baseline + 1 = version'[v].baseline
      <4>1. CASE version[v] # NoRow
        <5>1. version[v].asset = a /\ version[v].baseline = version'[v].baseline
          BY <2>2, <3>1, <4>1, RowsLast
        <5>2. PICK w \in Versions : /\ version[w].asset = a
                                    /\ version[w].baseline + 1 = version[v].baseline
          BY <3>1, <5>1 DEF CountedInv, Rows
        <5>3. version[w] # NoRow
          BY <5>2, ConstantsAssumption DEF NoRow
        <5>4. QED
          BY <5>1, <5>2, <5>3
      <4>2. CASE version[v] = NoRow
        <5>1. version'[v] # NoRow /\ version'[v].baseline # 1
          BY <3>1, ConstantsAssumption DEF NoRow
        <5>2. QED
          BY <2>2, <3>1, <4>2, <5>1, RowsLast
      <4>3. QED
        BY <4>1, <4>2
    <3>3. QED
      BY <2>2, <3>2, RowsLast
  <2>3. QED
    BY <2>1, <2>2
<1>3. CountedInv => BaselinesHaveNoGap
  BY DEF CountedInv, BaselinesHaveNoGap
<1>4. QED
  BY <1>1, <1>2, <1>3, Invariance, PTL DEF Spec

-----------------------------------------------------------------------------
(* The current version.                                                    *)

\* While no row is written, a handler that begins saw the version as it is.
LEMMA UntouchedLasts ==
  ASSUME IndInv, NEW h \in Handlers, NEW a \in Assets, NEW v \in Versions,
         Untouched(a, v), Alone(h),
         \/ handler'[h].base = 0
         \/ Keeps(h)
         \/ handler'[h].row.archived => version[handler'[h].base].archived,
         version'[v].asset = a, ~ version'[v].deleted, ~ version'[v].archived
  PROVE  Untouched(a, v)'
<1>1. v # 0 /\ v \in Current(a)'
  BY ConstantsAssumption DEF Current, Live, Rows
<1>2. /\ \A o \in Handlers : handler[o].base = v => ~ handler[o].row.archived
      /\ ~ version[v].archived
  BY DEF Untouched, Current
<1>3. ASSUME NEW o \in Handlers, handler'[o].base = v
      PROVE  ~ handler'[o].row.archived
  BY <1>1, <1>2, <1>3 DEF Alone, Keeps
<1>4. QED
  BY <1>1, <1>3 DEF Untouched

LEMMA LiveInvKept == IndInv /\ LiveInv /\ [Next]_vars => LiveInv'
<1> SUFFICES ASSUME IndInv, LiveInv, [Next]_vars PROVE LiveInv'
  OBVIOUS
<1>1. CASE UNCHANGED vars
  BY <1>1 DEF vars, LiveInv, Untouched, Current, Live, Rows, LogSources
<1>2. CASE Next
  <2>1. PICK h \in Handlers :
          \/ Beginning(h) \/ Quiet(h)
          \/ CommitCreate(h) \/ CommitImport(h) \/ CommitUpdate(h)
          \/ DeleteAsset(h) \/ DeleteVersions(h)
          \/ SaveStatus(h) \/ LandDeletion(h)
    BY <1>2, StepKinds
  <2>2. /\ version \in [Versions -> RowType]
        /\ asset \in [Assets -> {"none", "live", "deleted"}]
        /\ handler \in [Handlers -> HandlerType]
    BY DEF IndInv, TypeOK
  <2>3. regime' = regime
    BY <2>1, BeginningEffect, QuietEffect, CreateEffect, UpdateEffect, DeletionEffect,
       StatusEffect DEF DeleteAsset
  <2> SUFFICES ASSUME NEW a \in Assets \ LogSources, asset'[a] = "live"
               PROVE  \E v \in Versions : Untouched(a, v)'
    BY <2>3 DEF LiveInv, LogSources
  \* A first or a next version of the asset: nobody has seen it yet.
  <2>4. ASSUME NEW v \in Versions, version[v] = NoRow, Alone(h), Keeps(h),
               version'[v].asset = a, ~ version'[v].deleted, ~ version'[v].archived
        PROVE  Untouched(a, v)'
    <3>1. v # 0 /\ \A o \in Handlers : handler[o].base # v
      BY <2>4, HandlerKnown, ConstantsAssumption
    <3>2. \A o \in Handlers : handler'[o].base # v
      BY <2>4, <3>1 DEF Alone, Keeps
    <3>3. QED
      BY <2>4, <3>2 DEF Untouched, Current, Live, Rows
  <2>5. CASE Beginning(h) \/ Quiet(h) \/ DeleteAsset(h)
    <3>1. version' = version /\ asset[a] = "live"
      BY <2>2, <2>5, BeginningEffect, QuietEffect DEF DeleteAsset
    <3>2. PICK v \in Versions : Untouched(a, v)
      BY <3>1 DEF LiveInv
    <3>3. /\ version[v].asset = a /\ ~ version[v].deleted /\ ~ version[v].archived
      BY <3>2 DEF Untouched, Current, Live, Rows
    <3>4. Alone(h)
      BY <2>2, <2>5, BeginningEffect, QuietEffect DEF DeleteAsset, GoTo, Alone
    <3>5. \/ handler'[h].base = 0
          \/ Keeps(h)
          \/ handler'[h].row.archived => version[handler'[h].base].archived
      <4>1. CASE Beginning(h)
        BY <4>1, BeginningEffect
      <4>2. CASE Quiet(h)
        BY <4>2, QuietEffect
      <4>3. CASE DeleteAsset(h)
        BY <2>2, <4>3 DEF DeleteAsset, GoTo, Keeps, HandlerType
      <4>4. QED
        BY <2>5, <4>1, <4>2, <4>3
    <3>6. QED
      BY <3>1, <3>2, <3>3, <3>4, <3>5, UntouchedLasts
  \* Rows are written, but not that of the untouched version, or all the same.
  <2>6. ASSUME asset[a] = "live", Alone(h), Keeps(h),
               \A v \in Versions : Untouched(a, v) =>
                 version'[v].asset = a /\ ~ version'[v].deleted /\ ~ version'[v].archived
        PROVE  \E v \in Versions : Untouched(a, v)'
    <3>1. PICK v \in Versions : Untouched(a, v)
      BY <2>6 DEF LiveInv
    <3>2. QED
      BY <2>6, <3>1, UntouchedLasts
  <2>7. \A v \in Versions : Untouched(a, v) =>
          /\ version[v].asset = a /\ ~ version[v].deleted /\ ~ version[v].archived
          /\ version[v] # NoRow
    BY ConstantsAssumption DEF Untouched, Current, Live, Rows, NoRow
  <2>8. CASE CommitCreate(h) \/ CommitImport(h)
    <3>1. PICK v \in Versions, status \in Status :
            /\ version[v] = NoRow
            /\ version' = [version EXCEPT ![v] = Row(handler[h].asset, 1, status)]
      BY <2>8, CreateEffect
    <3>2. /\ Alone(h) /\ Keeps(h)
          /\ asset' = [asset EXCEPT ![handler[h].asset] = "live"]
      BY <2>8, CreateEffect
    <3>3. CASE a = handler[h].asset
      <4>1. version'[v].asset = a /\ ~ version'[v].deleted /\ ~ version'[v].archived
        BY <2>2, <3>1, <3>3 DEF Row
      <4>2. QED
        BY <2>4, <3>1, <3>2, <4>1
    <3>4. CASE a # handler[h].asset
      <4>1. asset[a] = "live"
        BY <2>2, <3>2, <3>4
      <4>2. \A u \in Versions : version[u] # NoRow => version'[u] = version[u]
        BY <2>2, <3>1
      <4>3. QED
        BY <2>6, <2>7, <3>2, <4>1, <4>2
    <3>5. QED
      BY <3>3, <3>4
  <2>9. CASE CommitUpdate(h)
    <3> DEFINE me == handler[h]
    <3>1. /\ asset' = asset /\ Alone(h) /\ Keeps(h)
          /\ me.base \in Versions /\ version[me.base] # NoRow
          /\ version[me.base].asset = me.asset
          /\ me.new \in Versions /\ version[me.new] = NoRow
      BY <2>9, UpdateEffect
    <3>2. PICK status \in Status :
            \A u \in Versions : version'[u] =
              IF u = me.base THEN [me.row EXCEPT !.archived = TRUE]
              ELSE IF u = me.new
              THEN Row(me.asset, me.row.baseline + 1, status)
              ELSE version[u]
      BY <2>9, UpdateEffect
    <3>3. CASE a = me.asset
      <4>1. version'[me.new] = Row(me.asset, me.row.baseline + 1, status)
        BY <3>1, <3>2
      <4>2. /\ version'[me.new].asset = a
            /\ ~ version'[me.new].deleted /\ ~ version'[me.new].archived
        BY <3>3, <4>1 DEF Row
      <4>3. QED
        BY <2>4, <3>1, <4>2
    <3>4. CASE a # me.asset
      <4>1. \A v \in Versions : Untouched(a, v) => version'[v] = version[v]
        BY <2>7, <3>1, <3>2, <3>4
      <4>2. QED
        BY <2>6, <2>7, <3>1, <4>1
    <3>5. QED
      BY <3>3, <3>4
  <2>10. CASE DeleteVersions(h)
    <3>1. /\ asset' = asset /\ Alone(h) /\ Keeps(h)
          /\ asset[handler[h].asset] = "deleted"
          /\ \A u \in Versions : \/ version'[u] = version[u]
                                 \/ version[u].asset = handler[h].asset
      BY <2>10, DeletionEffect
    <3>2. a # handler[h].asset
      BY <3>1
    <3>3. \A v \in Versions : Untouched(a, v) => version'[v] = version[v]
      BY <2>7, <3>1, <3>2
    <3>4. QED
      BY <2>6, <2>7, <3>1, <3>3
  <2>11. CASE SaveStatus(h) \/ LandDeletion(h)
    <3> DEFINE me == handler[h]
    <3>1. /\ asset' = asset /\ Alone(h) /\ Keeps(h)
          /\ me.base \in Versions
          /\ version[me.base].asset = me.asset
      BY <2>11, StatusEffect
    <3>2. PICK row \in RowType :
            /\ version' = [version EXCEPT ![me.base] = row]
            /\ row.asset = me.asset
            /\ \/ row = me.row /\ ~ row.deleted
               \/ me.asset \in LogSources
      BY <2>11, StatusEffect
    <3>3. ASSUME NEW v \in Versions, Untouched(a, v)
          PROVE  version'[v].asset = a /\ ~ version'[v].deleted /\ ~ version'[v].archived
      <4>1. CASE v # me.base
        BY <2>2, <2>7, <3>2, <3>3, <4>1
      <4>2. CASE v = me.base
        <5>1. me.asset = a /\ version'[v] = row
          BY <2>2, <2>7, <3>1, <3>2, <3>3, <4>2
        <5>2. row = me.row /\ ~ row.deleted
          BY <3>2, <5>1
        <5>3. ~ me.row.archived
          BY <3>3, <4>2 DEF Untouched
        <5>4. QED
          BY <3>2, <5>1, <5>2, <5>3
      <4>3. QED
        BY <4>1, <4>2
    <3>4. QED
      BY <2>6, <3>1, <3>3
  <2>12. QED
    BY <2>1, <2>5, <2>8, <2>9, <2>10, <2>11
<1>3. QED
  BY <1>1, <1>2

\* An asset that was not removed, and is not a log source, is never without a
\* current version, however many handlers save entities they read long ago.
THEOREM CurrentRemains == Spec => []LiveAssetHasCurrent
<1>1. Init => LiveInv
  BY DEF Init, LiveInv
<1>2. LiveInv => LiveAssetHasCurrent
  BY DEF LiveInv, Untouched, LiveAssetHasCurrent
<1>3. QED
  BY <1>1, <1>2, LiveInvKept, Invariance, PTL DEF Spec

-----------------------------------------------------------------------------
(* Removal.                                                                *)

\* Once every handler that still knows of an asset removes it too, and all its
\* rows are deleted, none of them comes back.
THEOREM RemovalLasts == Spec => RemovedStaysRemoved
<1>1. IndInv /\ [Next]_vars => \A a \in Assets : Gone(a) => Gone(a)'
  <2> SUFFICES ASSUME IndInv, [Next]_vars, NEW a \in Assets, Gone(a) PROVE Gone(a)'
    OBVIOUS
  <2>1. CASE UNCHANGED vars
    BY <2>1 DEF vars, Gone, Live, Rows
  <2>2. CASE Next
    <3>1. PICK h \in Handlers :
            \/ Beginning(h) \/ Quiet(h)
            \/ CommitCreate(h) \/ CommitImport(h) \/ CommitUpdate(h)
            \/ DeleteAsset(h) \/ DeleteVersions(h)
            \/ SaveStatus(h) \/ LandDeletion(h)
      BY <2>2, StepKinds
    <3>2. /\ version \in [Versions -> RowType]
          /\ asset \in [Assets -> {"none", "live", "deleted"}]
          /\ handler \in [Handlers -> HandlerType]
      BY DEF IndInv, TypeOK
    <3>3. /\ asset[a] = "deleted"
          /\ \A v \in Versions : version[v].asset = a => version[v].deleted
          /\ \A o \in Handlers : handler[o].asset = a => handler[o].op = "remove"
      BY DEF Gone, Live, Rows
    \* What is to be shown of the rows and of the handler that steps.
    <3>4. ASSUME asset'[a] = "deleted", Alone(h),
                 \A v \in Versions : version'[v].asset = a => version'[v].deleted,
                 handler'[h].asset = a => handler'[h].op = "remove"
          PROVE  Gone(a)'
      <4>1. \A o \in Handlers : handler'[o].asset = a => handler'[o].op = "remove"
        BY <3>3, <3>4 DEF Alone
      <4>2. QED
        BY <3>4, <4>1 DEF Gone, Live, Rows
    <3>5. Keeps(h) => (handler'[h].asset = a => handler'[h].op = "remove")
      BY <3>3, ConstantsAssumption DEF Keeps
    <3>6. CASE Beginning(h)
      <4>1. asset' = asset /\ version' = version /\ Alone(h)
        BY <3>6, BeginningEffect
      <4>2. handler'[h].asset = a => handler'[h].op = "remove"
        <5>1. New(handler'[h].asset) => handler'[h].asset # a
          BY <3>3 DEF New
        <5>2. \A v \in Versions : Readable(v) => version[v].asset # a
          BY <3>3 DEF Readable
        <5>3. QED
          BY <3>6, <5>1, <5>2, BeginningEffect, ConstantsAssumption
      <4>3. QED
        BY <3>3, <3>4, <4>1, <4>2
    <3>7. CASE Quiet(h)
      <4>1. asset' = asset /\ version' = version /\ Alone(h) /\ Keeps(h)
        BY <3>7, QuietEffect
      <4>2. QED
        BY <3>3, <3>4, <3>5, <4>1
    <3>8. CASE CommitCreate(h) \/ CommitImport(h)
      <4>1. PICK v \in Versions, status \in Status :
              version' = [version EXCEPT ![v] = Row(handler[h].asset, 1, status)]
        BY <3>8, CreateEffect
      <4>2. /\ Alone(h) /\ Keeps(h)
            /\ handler[h].op \in {"create", "import"}
            /\ asset' = [asset EXCEPT ![handler[h].asset] = "live"]
        BY <3>8, CreateEffect
      <4>3. handler[h].asset # a
        BY <3>3, <4>2
      <4>4. asset'[a] = "deleted"
        BY <3>2, <3>3, <4>2, <4>3
      <4>5. \A u \in Versions : version'[u].asset = a => version'[u] = version[u]
        BY <3>2, <4>1, <4>3 DEF Row
      <4>6. QED
        BY <3>3, <3>4, <3>5, <4>2, <4>4, <4>5
    <3>9. CASE CommitUpdate(h)
      <4>1. /\ asset' = asset /\ Alone(h) /\ Keeps(h)
            /\ handler[h].op = "update"
            /\ handler[h].row \in RowType /\ handler[h].row.asset = handler[h].asset
        BY <3>9, UpdateEffect
      <4>2. PICK status \in Status :
              \A u \in Versions : version'[u] =
                IF u = handler[h].base
                THEN [handler[h].row EXCEPT !.archived = TRUE]
                ELSE IF u = handler[h].new
                THEN Row(handler[h].asset, handler[h].row.baseline + 1, status)
                ELSE version[u]
        BY <3>9, UpdateEffect
      <4>3. handler[h].asset # a
        BY <3>3, <4>1
      <4>4. [handler[h].row EXCEPT !.archived = TRUE].asset = handler[h].asset
        BY <4>1 DEF RowType
      <4>5. \A b, s : Row(handler[h].asset, b, s).asset = handler[h].asset
        BY DEF Row
      <4>6. ASSUME NEW u \in Versions, version'[u].asset = a
            PROVE  version'[u] = version[u]
        <5>1. u # handler[h].base
          BY <4>2, <4>3, <4>4, <4>6
        <5>2. u # handler[h].new
          BY <4>2, <4>3, <4>5, <4>6, <5>1
        <5>3. QED
          BY <4>2, <5>1, <5>2
      <4>7. QED
        BY <3>3, <3>4, <3>5, <4>1, <4>6
    <3>10. CASE DeleteAsset(h)
      <4>1. version' = version /\ Alone(h) /\ Keeps(h) /\ asset'[a] = "deleted"
        BY <3>2, <3>3, <3>10 DEF DeleteAsset, GoTo, Alone, Keeps, HandlerType
      <4>2. QED
        BY <3>3, <3>4, <3>5, <4>1
    <3>11. CASE DeleteVersions(h)
      <4>1. /\ asset' = asset /\ Alone(h) /\ Keeps(h)
            /\ \A u \in Versions :
                 \/ version'[u] = version[u]
                 \/ version'[u] = [version[u] EXCEPT !.deleted = TRUE]
        BY <3>11, DeletionEffect
      <4>2. \A u \in Versions : version'[u].asset = a => version'[u].deleted
        BY <3>2, <3>3, <4>1 DEF RowType
      <4>3. QED
        BY <3>3, <3>4, <3>5, <4>1, <4>2
    <3>12. CASE SaveStatus(h) \/ LandDeletion(h)
      <4>1. /\ asset' = asset /\ Alone(h) /\ Keeps(h)
            /\ handler[h].op = "status"
        BY <3>12, StatusEffect
      <4>2. PICK row \in RowType :
              /\ version' = [version EXCEPT ![handler[h].base] = row]
              /\ row.asset = handler[h].asset
        BY <3>12, StatusEffect
      <4>3. row.asset # a
        BY <3>3, <4>1, <4>2
      <4>4. \A u \in Versions : version'[u].asset = a => version'[u] = version[u]
        BY <3>2, <4>2, <4>3
      <4>5. QED
        BY <3>3, <3>4, <3>5, <4>1, <4>4
    <3>13. QED
      BY <3>1, <3>6, <3>7, <3>8, <3>9, <3>10, <3>11, <3>12
  <2>3. QED
    BY <2>1, <2>2
<1>2. QED
  BY <1>1, Invariance, PTL DEF Spec, RemovedStaysRemoved

-----------------------------------------------------------------------------
(* Approval.                                                               *)

\* What the register was told of an asset that has a version is kept.
LEMMA RegisterGrows ==
  ASSUME IndInv, Next, NEW a \in Assets, "approved" \in register[a],
         asset[a] # "none"
  PROVE  "approved" \in register'[a]
<1>1. PICK h \in Handlers :
        \/ Beginning(h) \/ Quiet(h)
        \/ CommitCreate(h) \/ CommitImport(h) \/ CommitUpdate(h)
        \/ DeleteAsset(h) \/ DeleteVersions(h)
        \/ SaveStatus(h) \/ LandDeletion(h)
  BY StepKinds
<1>2. register \in [Assets -> SUBSET {"created", "approved", "declined"}]
  BY DEF IndInv, TypeOK
<1>3. CASE Register(h)
  <2>1. OwnAsset(h)
    BY <1>3 DEF IndInv, StepSound, Register, At
  <2>2. handler[h].asset # a
    BY <2>1 DEF OwnAsset
  <2>3. QED
    BY <1>2, <1>3, <2>2 DEF Register
<1>4. CASE Decide(h)
  BY <1>2, <1>4 DEF Decide
<1>5. CASE Quiet(h) /\ ~ Register(h) /\ ~ Decide(h)
  BY <1>5 DEF Quiet, IndexCreated, Open, LeaveVersions, FindVersions, IndexPage,
              EndReindex, Log, Fail
<1>6. CASE ~ Quiet(h)
  BY <1>1, <1>6, BeginningEffect, CreateEffect, UpdateEffect, DeletionEffect,
     StatusEffect DEF DeleteAsset
<1>7. QED
  BY <1>3, <1>4, <1>5, <1>6

\* An asset that was created and is live was not removed before.
LEMMA LiveWasLive ==
  ASSUME IndInv, Next, NEW a \in Assets, asset[a] # "none", asset'[a] = "live"
  PROVE  asset[a] = "live"
<1>1. PICK h \in Handlers :
        \/ Beginning(h) \/ Quiet(h)
        \/ CommitCreate(h) \/ CommitImport(h) \/ CommitUpdate(h)
        \/ DeleteAsset(h) \/ DeleteVersions(h)
        \/ SaveStatus(h) \/ LandDeletion(h)
  BY StepKinds
<1>2. asset \in [Assets -> {"none", "live", "deleted"}]
  BY DEF IndInv, TypeOK
<1>3. CASE CommitCreate(h) \/ CommitImport(h)
  <2>1. OwnAsset(h) /\ asset' = [asset EXCEPT ![handler[h].asset] = "live"]
    BY <1>3, CreateEffect
  <2>2. QED
    BY <1>2, <2>1 DEF OwnAsset
<1>4. CASE DeleteAsset(h)
  BY <1>2, <1>4 DEF DeleteAsset
<1>5. CASE ~ (CommitCreate(h) \/ CommitImport(h) \/ DeleteAsset(h))
  BY <1>1, <1>5, BeginningEffect, QuietEffect, UpdateEffect, DeletionEffect,
     StatusEffect
<1>6. QED
  BY <1>3, <1>4, <1>5

LEMMA ApprovalInvKept == IndInv /\ ApprovalInv /\ [Next]_vars => ApprovalInv'
<1> SUFFICES ASSUME IndInv, ApprovalInv, [Next]_vars PROVE ApprovalInv'
  OBVIOUS
<1>1. CASE UNCHANGED vars
  BY <1>1 DEF vars, ApprovalInv, ApprovedIsApprovedThere, ApprovalSound, LogSources
<1>2. CASE Next
  <2>1. PICK h \in Handlers :
          \/ Beginning(h) \/ Quiet(h)
          \/ CommitCreate(h) \/ CommitImport(h) \/ CommitUpdate(h)
          \/ DeleteAsset(h) \/ DeleteVersions(h)
          \/ SaveStatus(h) \/ LandDeletion(h)
    BY <1>2, StepKinds
  <2>2. /\ version \in [Versions -> RowType]
        /\ handler \in [Handlers -> HandlerType]
        /\ register \in [Assets -> SUBSET {"created", "approved", "declined"}]
    BY DEF IndInv, TypeOK
  <2>3. LogSources' = LogSources /\ LogSources \subseteq Assets
    <3>1. regime' = regime
      BY <2>1, BeginningEffect, QuietEffect, CreateEffect, UpdateEffect,
         DeletionEffect, StatusEffect DEF DeleteAsset
    <3>2. QED
      BY <3>1, ConstantsAssumption DEF LogSources, IndInv, TypeOK
  \* What an asset with a version, or a handler with an entity, relies on.
  <2>4. ASSUME NEW v \in Versions, version[v].asset \in LogSources,
               version[v].status = "approved", asset'[version[v].asset] = "live"
        PROVE  "approved" \in register'[version[v].asset]
    <3>1. version[v] # NoRow
      BY <2>3, <2>4, ConstantsAssumption DEF NoRow
    <3>2. version[v].asset \in Assets /\ asset[version[v].asset] # "none"
      BY <3>1, RowKnown
    <3>3. asset[version[v].asset] = "live"
      BY <1>2, <2>4, <3>2, LiveWasLive
    <3>4. "approved" \in register[version[v].asset]
      BY <2>4, <3>3 DEF ApprovalInv, ApprovedIsApprovedThere
    <3>5. QED
      BY <1>2, <3>2, <3>4, RegisterGrows
  <2>5. ASSUME NEW o \in Handlers, handler[o].base # 0,
               handler[o].step \in {"read", "open", "saving"},
               handler[o].asset \in LogSources, handler[o].row.status = "approved",
               asset'[handler[o].asset] = "live"
        PROVE  "approved" \in register'[handler[o].asset]
    <3>1. /\ handler[o].base \in Versions /\ version[handler[o].base] # NoRow
          /\ version[handler[o].base].asset = handler[o].asset
      BY <2>2, <2>5, HandlerKnown DEF OwnSound, HandlerType
    <3>2. handler[o].asset \in Assets /\ asset[handler[o].asset] # "none"
      BY <3>1, RowKnown
    <3>3. asset[handler[o].asset] = "live"
      BY <1>2, <2>5, <3>2, LiveWasLive
    <3>4. "approved" \in register[handler[o].asset]
      BY <2>5, <3>3 DEF ApprovalInv, ApprovalSound
    <3>5. QED
      BY <1>2, <3>2, <3>4, RegisterGrows
  <2>6. Alone(h)
    <3>1. DeleteAsset(h) => Alone(h)
      BY <2>2 DEF DeleteAsset, GoTo, Alone
    <3>2. QED
      BY <2>1, <3>1, BeginningEffect, QuietEffect, CreateEffect, UpdateEffect,
         DeletionEffect, StatusEffect
  <2>7. ASSUME NEW o \in Handlers PROVE ApprovalSound(o)'
    <3>1. CASE o # h
      <4>1. handler'[o] = handler[o]
        BY <2>6, <3>1 DEF Alone
      <4>2. QED
        BY <2>3, <2>5, <4>1 DEF ApprovalSound
    <3>2. CASE o = h /\ Beginning(h)
      BY <2>3, <2>4, <3>2, BeginningEffect DEF ApprovalSound
    <3>3. CASE o = h /\ Decide(h)
      <4>1. /\ handler'[h].step = "saving" /\ handler'[h].row = handler[h].row
            /\ handler'[h].asset = handler[h].asset
            /\ register' = [register EXCEPT ![handler[h].asset] =
                              @ \cup {handler[h].row.status}]
        BY <2>2, <3>3 DEF Decide, GoTo, HandlerType
      <4>2. QED
        BY <2>2, <2>3, <3>3, <4>1 DEF ApprovalSound
    <3>4. CASE o = h /\ Open(h)
      <4>1. /\ handler'[h].row = handler[h].row /\ handler[h].step = "read"
            /\ handler'[h].asset = handler[h].asset
            /\ handler'[h].base = handler[h].base
        BY <2>2, <3>4 DEF Open, At, HandlerType
      <4>2. QED
        BY <2>3, <2>5, <3>4, <4>1 DEF ApprovalSound
    <3>5. CASE /\ o = h
               /\ handler'[h].base = 0 \/ handler'[h].step \notin {"read", "open", "saving"}
      BY <3>5 DEF ApprovalSound
    <3>6. CASE o = h /\ LandDeletion(h)
      <4>1. Keeps(h) /\ handler'[h].step \in {handler[h].step, "idle"}
        BY <2>2, <3>6, StatusEffect DEF LandDeletion, Idle, HandlerType
      <4>2. QED
        BY <2>3, <2>5, <3>5, <3>6, <4>1 DEF ApprovalSound, Keeps
    <3>7. \/ Beginning(h) \/ Decide(h) \/ Open(h) \/ LandDeletion(h)
          \/ handler'[h].base = 0
          \/ handler'[h].step \notin {"read", "open", "saving"}
      <4>1. CASE Quiet(h)
        BY <2>2, <4>1 DEF Quiet, Register, IndexCreated, LeaveVersions, FindVersions,
                          IndexPage, EndReindex, Log, Fail, GoTo, HandlerType, Idle, At
      <4>2. CASE CommitCreate(h) \/ CommitImport(h)
        <5>1. CASE CommitCreate(h)
          <6>1. PICK v \in Versions :
                  handler' = [handler EXCEPT ![h].step = "indexing", ![h].new = v,
                                             ![h].ok = TRUE]
            BY <5>1 DEF CommitCreate
          <6>2. handler'[h].step = "indexing"
            BY <2>2, <6>1 DEF HandlerType
          <6>3. QED
            BY <6>2
        <5>2. CASE CommitImport(h)
          BY <2>2, <5>2 DEF CommitImport, Idle
        <5>3. QED
          BY <4>2, <5>1, <5>2
      <4>3. CASE CommitUpdate(h) \/ DeleteAsset(h) \/ DeleteVersions(h) \/ SaveStatus(h)
        BY <2>2, <4>3 DEF CommitUpdate, DeleteAsset, DeleteVersions, SaveStatus,
                          GoTo, HandlerType, Idle
      <4>4. QED
        BY <2>1, <4>1, <4>2, <4>3
    <3>8. QED
      BY <3>1, <3>2, <3>3, <3>4, <3>5, <3>6, <3>7
  <2>8. ASSUME NEW v \in Versions, version'[v].asset \in LogSources,
               version'[v].status = "approved", asset'[version'[v].asset] = "live"
        PROVE  "approved" \in register'[version'[v].asset]
    <3>1. CASE version'[v] = version[v]
      BY <2>4, <2>8, <3>1
    <3>2. CASE Beginning(h) \/ Quiet(h) \/ DeleteAsset(h)
      BY <3>1, <3>2, BeginningEffect, QuietEffect DEF DeleteAsset
    <3>3. CASE CommitCreate(h) \/ CommitImport(h)
      <4>1. PICK u \in Versions, status \in Status \ {"approved"} :
              version' = [version EXCEPT ![u] = Row(handler[h].asset, 1, status)]
        BY <3>3, CreateEffect
      <4>2. version'[v] = version[v] \/ version'[v].status = status
        BY <2>2, <4>1 DEF Row
      <4>3. QED
        BY <2>8, <3>1, <4>2
    <3>4. CASE CommitUpdate(h)
      <4> DEFINE me == handler[h]
      <4>1. /\ me.base # 0 /\ me.step = "open"
            /\ me.row \in RowType /\ me.row.asset = me.asset
        BY <3>4, UpdateEffect
      <4>2. PICK status \in Status \ {"approved"} :
              version'[v] =
                IF v = me.base THEN [me.row EXCEPT !.archived = TRUE]
                ELSE IF v = me.new
                THEN Row(me.asset, me.row.baseline + 1, status)
                ELSE version[v]
        BY <3>4, UpdateEffect
      <4>3. CASE v = me.base
        <5>1. version'[v].status = me.row.status /\ version'[v].asset = me.asset
          BY <4>1, <4>2, <4>3 DEF RowType
        <5>2. QED
          BY <2>5, <2>8, <4>1, <5>1
      <4>4. CASE v # me.base /\ v = me.new
        BY <2>8, <4>2, <4>4 DEF Row
      <4>5. QED
        BY <3>1, <4>2, <4>3, <4>4
    <3>5. CASE DeleteVersions(h)
      <4>1. \/ version'[v] = version[v]
            \/ version'[v] = [version[v] EXCEPT !.deleted = TRUE]
        BY <3>5, DeletionEffect
      <4>2. version'[v].asset = version[v].asset /\ version'[v].status = version[v].status
        BY <2>2, <4>1 DEF RowType
      <4>3. QED
        BY <2>4, <2>8, <4>2
    <3>6. CASE SaveStatus(h) \/ LandDeletion(h)
      <4> DEFINE me == handler[h]
      <4>1. /\ me.base # 0 /\ me.base \in Versions
            /\ version[me.base].asset = me.asset
        BY <3>6, StatusEffect
      <4>2. PICK row \in RowType :
              /\ version' = [version EXCEPT ![me.base] = row]
              /\ row.asset = me.asset
              /\ \/ row = me.row /\ me.step = "saving"
                 \/ row.status = version[me.base].status
        BY <3>6, StatusEffect
      <4>3. CASE v = me.base
        <5>1. version'[v] = row
          BY <2>2, <4>1, <4>2, <4>3
        <5>2. CASE row = me.row /\ me.step = "saving"
          BY <2>5, <2>8, <4>1, <4>2, <5>1, <5>2
        <5>3. CASE row.status = version[me.base].status
          BY <2>4, <2>8, <4>1, <4>2, <5>1, <5>3
        <5>4. QED
          BY <4>2, <5>2, <5>3
      <4>4. CASE v # me.base
        BY <2>2, <3>1, <4>2, <4>4
      <4>5. QED
        BY <4>3, <4>4
    <3>7. QED
      BY <2>1, <3>2, <3>3, <3>4, <3>5, <3>6
  <2>9. QED
    BY <2>3, <2>7, <2>8 DEF ApprovalInv, ApprovedIsApprovedThere
<1>3. QED
  BY <1>1, <1>2

\* No version of a log source that was not removed says approved before the
\* register was told, even when an entity that was read long ago is saved over
\* the row.  (A removed one is approved without a call: it need not be told.)
THEOREM ApprovalHonest == Spec => []ApprovedIsApprovedThere
<1>1. Init => ApprovalInv
  BY ConstantsAssumption DEF Init, ApprovalInv, ApprovedIsApprovedThere,
     ApprovalSound, NoRow, Idle
<1>2. ApprovalInv => ApprovedIsApprovedThere
  BY DEF ApprovalInv
<1>3. QED
  BY <1>1, <1>2, ApprovalInvKept, Invariance, PTL DEF Spec

-----------------------------------------------------------------------------
(* Forks.                                                                  *)

\* There are finitely many current versions.
LEMMA CurrentFinite ==
  ASSUME NEW a PROVE IsFiniteSet(Current(a)) /\ Cardinality(Current(a)) \in Nat
<1>1. Current(a) \in SUBSET Versions
  BY DEF Current, Live, Rows
<1> QED  BY <1>1, ConstantsAssumption, FS_Subset, FS_CardinalityType

\* A step that makes no version current makes the current ones no more.
LEMMA NoneAdded ==
  ASSUME NEW a, Current(a)' \subseteq Current(a)
  PROVE  ~ Cardinality(Current(a)') > Cardinality(Current(a))
<1> DEFINE C == Current(a)  D == Current(a)'
<1>1. IsFiniteSet(C) /\ Cardinality(C) \in Nat
  BY CurrentFinite
<1>2. D \in SUBSET C
  OBVIOUS
<1> HIDE DEF C, D
<1>3. IsFiniteSet(D) /\ Cardinality(D) <= Cardinality(C)
  BY <1>1, <1>2, FS_Subset
<1>4. Cardinality(D) \in Nat
  BY <1>3, FS_CardinalityType
<1> QED  BY <1>1, <1>3, <1>4 DEF C, D

\* Nor does an update whose base is current: one is archived for the one made.
LEMMA OneForOne ==
  ASSUME NEW a, NEW v \in Current(a), NEW u,
         Current(a)' \subseteq (Current(a) \ {v}) \cup {u}
  PROVE  ~ Cardinality(Current(a)') > Cardinality(Current(a))
<1> DEFINE C == Current(a)  D == Current(a)'  R == C \ {v}  E == R \cup {u}
<1>1. IsFiniteSet(C) /\ Cardinality(C) \in Nat
  BY CurrentFinite
<1>2. D \in SUBSET E /\ v \in C
  OBVIOUS
<1> HIDE DEF C, D
<1>3. IsFiniteSet(R) /\ Cardinality(R) = Cardinality(C) - 1
  BY <1>1, <1>2, FS_RemoveElement
<1>4. Cardinality(R) \in Nat
  BY <1>3, FS_CardinalityType
<1>5. u \in R => E = R
  OBVIOUS
<1> HIDE DEF R
<1>6. /\ IsFiniteSet(E)
      /\ Cardinality(E) = Cardinality(R) \/ Cardinality(E) = Cardinality(R) + 1
  BY <1>3, <1>4, <1>5, FS_AddElement
<1> HIDE DEF E
<1>7. IsFiniteSet(D) /\ Cardinality(D) <= Cardinality(E)
  BY <1>2, <1>6, FS_Subset
<1>8. Cardinality(D) \in Nat
  BY <1>7, FS_CardinalityType
<1> QED  BY <1>1, <1>3, <1>4, <1>6, <1>7, <1>8 DEF C, D

\* An update or a status that is saved makes one more version of an asset
\* current only when the entity it read is of a version that is not, or no
\* longer, current.
THEOREM ForksAreStale == Spec => ForksOnlyFromStaleEntities
<1> DEFINE Forks(a) == /\ Current(a) # {}
                       /\ Cardinality(Current(a)') > Cardinality(Current(a))
           Stale(a) == \E h \in Handlers :
                         /\ handler[h].asset = a
                         /\ handler[h].step \in {"open", "saving"}
                         /\ handler[h].base \notin Current(a)
<1>1. IndInv /\ [Next]_vars =>
        [ \A a \in Assets :
            /\ Current(a) # {}
            /\ Cardinality(Current(a)') > Cardinality(Current(a))
            => \E h \in Handlers :
                 /\ handler[h].asset = a /\ handler[h].step \in {"open", "saving"}
                 /\ handler[h].base \notin Current(a) ]_vars
  <2> SUFFICES ASSUME IndInv, Next, NEW a \in Assets, Forks(a), ~ Stale(a)
               PROVE  FALSE
    BY DEF vars
  <2>1. PICK h \in Handlers :
          \/ Beginning(h) \/ Quiet(h)
          \/ CommitCreate(h) \/ CommitImport(h) \/ CommitUpdate(h)
          \/ DeleteAsset(h) \/ DeleteVersions(h)
          \/ SaveStatus(h) \/ LandDeletion(h)
    BY StepKinds
  <2>2. version \in [Versions -> RowType] /\ handler \in [Handlers -> HandlerType]
    BY DEF IndInv, TypeOK
  <2>3. ~ (Current(a)' \subseteq Current(a))
    BY NoneAdded
  <2>4. version' # version
    BY <2>3 DEF Current, Live, Rows
  <2>5. ~ Beginning(h) /\ ~ Quiet(h) /\ ~ DeleteAsset(h)
    BY <2>4, BeginningEffect, QuietEffect DEF DeleteAsset
  <2>6. CASE CommitCreate(h) \/ CommitImport(h)
    <3>1. PICK v \in Versions, status \in Status :
            version' = [version EXCEPT ![v] = Row(handler[h].asset, 1, status)]
      BY <2>6, CreateEffect
    <3>2. handler[h].asset # a
      <4>1. PICK u \in Current(a) : TRUE
        OBVIOUS
      <4>2. u \in Versions /\ version[u].asset = a
        BY <4>1 DEF Current, Live, Rows
      <4>3. asset[a] # "none"
        BY <4>2, RowKnown, ConstantsAssumption DEF NoRow
      <4> QED  BY <2>6, <4>3, CreateEffect DEF OwnAsset
    <3>3. \A u \in Versions : version'[u].asset = a => version'[u] = version[u]
      BY <2>2, <3>1, <3>2 DEF Row
    <3> QED  BY <2>3, <3>3 DEF Current, Live, Rows
  <2>7. CASE CommitUpdate(h)
    <3> DEFINE me == handler[h]
    <3>1. /\ me.step = "open" /\ me.base \in Versions
          /\ me.row \in RowType /\ me.row.asset = me.asset
      BY <2>7, UpdateEffect
    <3>2. PICK status \in Status :
            \A u \in Versions : version'[u] =
              IF u = me.base THEN [me.row EXCEPT !.archived = TRUE]
              ELSE IF u = me.new
              THEN Row(me.asset, me.row.baseline + 1, status)
              ELSE version[u]
      BY <2>7, UpdateEffect
    <3>3. version'[me.base].archived /\ version'[me.base].asset = me.asset
      BY <3>1, <3>2 DEF RowType
    <3>4. \A u \in Current(a)' :
            \/ u \in Current(a) /\ u # me.base
            \/ u = me.new /\ u # me.base /\ me.asset = a
      <4> SUFFICES ASSUME NEW u \in Current(a)'
                   PROVE  \/ u \in Current(a) /\ u # me.base
                          \/ u = me.new /\ u # me.base /\ me.asset = a
        OBVIOUS
      <4>1. u \in Versions /\ version'[u].asset = a
            /\ ~ version'[u].deleted /\ ~ version'[u].archived
        BY DEF Current, Live, Rows
      <4>2. u # me.base
        BY <3>3, <4>1
      <4>3. CASE u = me.new
        BY <3>2, <4>1, <4>2, <4>3 DEF Row
      <4>4. CASE u # me.new
        BY <3>2, <4>1, <4>2, <4>4 DEF Current, Live, Rows
      <4> QED  BY <4>3, <4>4
    <3>5. me.asset = a
      BY <2>3, <3>4
    <3>6. me.base \in Current(a)
      BY <3>1, <3>5
    <3> HIDE DEF me
    <3> QED  BY <3>4, <3>6, OneForOne
  <2>8. CASE DeleteVersions(h)
    <3>1. \A u \in Versions :
            \/ version'[u] = version[u]
            \/ version'[u] = [version[u] EXCEPT !.deleted = TRUE]
      BY <2>8, DeletionEffect
    <3>2. \A u \in Versions : version'[u].deleted \/ version'[u] = version[u]
      BY <2>2, <3>1 DEF RowType
    <3> QED  BY <2>3, <3>2 DEF Current, Live, Rows
  <2>9. CASE SaveStatus(h)
    <3>1. /\ handler[h].base \in Versions /\ handler[h].step = "saving"
          /\ version[handler[h].base].asset = handler[h].asset
      BY <2>9, StatusEffect DEF SaveStatus, At
    <3>2. handler[h].row.asset = handler[h].asset
      BY <2>9, <3>1, StatusEffect DEF IndInv, EntitySound
    <3>3. \A u \in Versions :
            version'[u] = IF u = handler[h].base THEN handler[h].row ELSE version[u]
      BY <2>2, <2>9 DEF SaveStatus
    <3>4. CASE handler[h].asset = a
      BY <2>3, <3>1, <3>3, <3>4 DEF Current, Live, Rows
    <3>5. CASE handler[h].asset # a
      BY <2>3, <3>2, <3>3, <3>5 DEF Current, Live, Rows
    <3> QED  BY <3>4, <3>5
  <2>10. CASE LandDeletion(h)
    <3>1. \A u \in Versions : version'[u].deleted \/ version'[u] = version[u]
      BY <2>2, <2>10 DEF LandDeletion, RowType
    <3> QED  BY <2>3, <3>1 DEF Current, Live, Rows
  <2> QED  BY <2>1, <2>5, <2>6, <2>7, <2>8, <2>9, <2>10
<1> QED  BY <1>1, Invariance, PTL DEF Spec, ForksOnlyFromStaleEntities

-----------------------------------------------------------------------------
(* Reindexing without overlap.                                             *)

\* How many current versions are newer, and those on the first n pages.
Rank(v) == Cardinality({ u \in AllCurrent : u > v })
FirstPages(n) == { v \in AllCurrent : Rank(v) \div PageSize < n }

\* A reindexing counted the pages of the versions as they are; what it has
\* indexed, if no bulk request failed, is the pages before its next one.
ReindexSound(h) ==
  LET me == handler[h] IN
  /\ me.step = "idle" => me.op = "none"
  /\ me.op = "reindex" => me.step \in {"reindexing", "ending"}
  /\ me.step = "reindexing" =>
       /\ me.op = "reindex"
       /\ me.pages = Pages(Cardinality(AllCurrent))
       /\ me.ok => index = FirstPages(me.page)
  /\ me.op = "reindex" /\ me.step = "ending" /\ me.ok => index = AllCurrent

\* One handler at a time.
QuietInv ==
  regime.handlers = 1 =>
    /\ \A h, o \in InFlight : h = o
    /\ \A h \in Handlers : ReindexSound(h)

\* There are finitely many current versions, and fewer newer ones of each.
LEMMA Ranks ==
  /\ Cardinality(AllCurrent) \in Nat
  /\ \A v \in AllCurrent : Rank(v) \in Nat /\ Rank(v) < Cardinality(AllCurrent)
<1> DEFINE C == AllCurrent
<1>1. C \in SUBSET Versions
  BY DEF AllCurrent, Current, Live, Rows
<1>2. IsFiniteSet(C) /\ Cardinality(C) \in Nat
  BY <1>1, ConstantsAssumption, FS_Subset, FS_CardinalityType
<1>3. ASSUME NEW v \in C PROVE Rank(v) \in Nat /\ Rank(v) < Cardinality(C)
  <2> DEFINE newer == { u \in C : u > v }
             others == C \ {v}
  <2> HIDE DEF C
  <2>1. v \in Nat
    BY <1>1, <1>3, ConstantsAssumption
  <2>2. newer \in SUBSET others
    BY <2>1
  <2>3. IsFiniteSet(others) /\ Cardinality(others) = Cardinality(C) - 1
    BY <1>2, <1>3, FS_RemoveElement
  <2> HIDE DEF newer, others
  <2>4. IsFiniteSet(newer) /\ Cardinality(newer) <= Cardinality(others)
    BY <2>2, <2>3, FS_Subset
  <2>5. Cardinality(newer) \in Nat
    BY <2>4, FS_CardinalityType
  <2> QED  BY <1>2, <2>3, <2>4, <2>5 DEF newer, C, Rank
<1> QED  BY <1>2, <1>3

\* Dividing by the size of a page.
LEMMA PageBounds ==
  ASSUME NEW p \in Nat \ {0}, NEW n \in Nat, NEW r \in Nat, r < n
  PROVE  /\ r \div p \in Nat
         /\ r \div p < (n + p - 1) \div p
<1>1. PICK q \in Nat, m \in Nat : q = r \div p /\ r = p * q + m /\ m < p
  OBVIOUS
<1>2. PICK k \in Nat, l \in Nat :
        k = (n + p - 1) \div p /\ n + p - 1 = p * k + l /\ l < p
  OBVIOUS
<1>3. q < k
  <2> SUFFICES ASSUME k <= q PROVE FALSE
    OBVIOUS
  <2>1. p * k <= p * q
    OBVIOUS
  <2>2. p * k \in Nat /\ p * q \in Nat
    OBVIOUS
  <2> HIDE <1>1, <1>2
  <2> QED  BY <1>1, <1>2, <2>1, <2>2
<1> QED  BY <1>1, <1>2, <1>3

\* No version is on a page before the first; the pages of one more index are
\* those before and that page; and all pages are all versions.
LEMMA PagesInTurn ==
  /\ FirstPages(0) = {}
  /\ \A n \in Nat : FirstPages(n) \cup Page(n) = FirstPages(n + 1)
  /\ FirstPages(Pages(Cardinality(AllCurrent))) = AllCurrent
<1>1. \A v \in AllCurrent :
        /\ Rank(v) \div PageSize \in Nat
        /\ Rank(v) \div PageSize < Pages(Cardinality(AllCurrent))
  BY Ranks, PageBounds, ConstantsAssumption DEF Pages
<1>2. \A n : Page(n) = { v \in AllCurrent : Rank(v) \div PageSize = n }
  BY DEF Page, Rank
<1> HIDE DEF Rank
<1>3. \A n \in Nat : FirstPages(n) \cup Page(n) = FirstPages(n + 1)
  BY <1>1, <1>2 DEF FirstPages
<1> QED  BY <1>1, <1>3 DEF FirstPages

\* A handler in flight that does not reindex does not begin to.
LEMMA OtherWork ==
  ASSUME IndInv, NEW h \in Handlers, handler[h].step \notin {"idle", "reindexing"},
         handler[h].op # "reindex",
         \/ Quiet(h)
         \/ CommitCreate(h) \/ CommitImport(h) \/ CommitUpdate(h)
         \/ DeleteAsset(h) \/ DeleteVersions(h)
         \/ SaveStatus(h) \/ LandDeletion(h)
  PROVE  /\ handler'[h].op # "reindex" /\ handler'[h].step # "reindexing"
         /\ handler'[h].step = "idle" => handler'[h].op = "none"
<1>1. handler \in [Handlers -> HandlerType]
  BY DEF IndInv, TypeOK
<1> DEFINE Other == /\ handler'[h].op # "reindex"
                    /\ handler'[h].step # "reindexing"
                    /\ handler'[h].step = "idle" => handler'[h].op = "none"
<1>2. handler' = [handler EXCEPT ![h] = Idle] => Other
  BY <1>1 DEF Idle
<1>3. ASSUME NEW s, s \notin {"idle", "reindexing"}, GoTo(h, s) PROVE Other
  BY <1>1, <1>3 DEF GoTo, HandlerType
<1>4. CASE Quiet(h)
  <2>1. ~ IndexPage(h) /\ ~ EndReindex(h)
    BY DEF IndexPage, EndReindex, At
  <2>2. CASE Open(h) \/ FindVersions(h)
    BY <1>1, <2>2 DEF Open, FindVersions, HandlerType
  <2> QED
    BY <1>2, <1>3, <1>4, <2>1, <2>2
    DEF Quiet, Register, IndexCreated, LeaveVersions, Decide, Log, Fail
<1>5. CASE CommitCreate(h)
  <2>1. PICK v \in Versions :
          handler' = [handler EXCEPT ![h].step = "indexing", ![h].new = v,
                                     ![h].ok = TRUE]
    BY <1>5 DEF CommitCreate
  <2> QED  BY <1>1, <2>1 DEF HandlerType
<1>6. CASE CommitImport(h)
  BY <1>2, <1>6 DEF CommitImport
<1>7. CASE CommitUpdate(h) \/ DeleteVersions(h)
  BY <1>1, <1>7 DEF CommitUpdate, DeleteVersions, HandlerType
<1>8. CASE DeleteAsset(h) \/ SaveStatus(h)
  BY <1>2, <1>3, <1>8 DEF DeleteAsset, SaveStatus
<1>9. CASE LandDeletion(h)
  BY <1>1, <1>9 DEF LandDeletion, HandlerType, Idle
<1> QED  BY <1>4, <1>5, <1>6, <1>7, <1>8, <1>9

\* A reindexing in flight goes on to its next page, or to its end, or ends.
LEMMA ReindexWork ==
  ASSUME IndInv, NEW h \in Handlers, handler[h].op = "reindex", ReindexSound(h),
         \/ Quiet(h)
         \/ CommitCreate(h) \/ CommitImport(h) \/ CommitUpdate(h)
         \/ DeleteAsset(h) \/ DeleteVersions(h)
         \/ SaveStatus(h) \/ LandDeletion(h)
  PROVE  version' = version /\ ReindexSound(h)'
<1>1. handler \in [Handlers -> HandlerType] /\ handler[h].step \in {"reindexing", "ending"}
  BY DEF IndInv, TypeOK, ReindexSound
<1>2. IndexPage(h) \/ EndReindex(h) \/ Log(h) \/ Fail(h)
  <2>1. ~ CommitCreate(h) /\ ~ CommitImport(h) /\ ~ CommitUpdate(h)
        /\ ~ DeleteAsset(h) /\ ~ DeleteVersions(h)
    BY <1>1 DEF CommitCreate, CommitImport, CommitUpdate, DeleteAsset,
       DeleteVersions, At
  <2>2. ~ SaveStatus(h) /\ ~ LandDeletion(h)
    BY <1>1 DEF SaveStatus, LandDeletion, At
  <2> QED
    BY <1>1, <2>1, <2>2
    DEF Quiet, Register, IndexCreated, Open, LeaveVersions, FindVersions, Decide, At
<1>3. version' = version
  BY <1>2 DEF IndexPage, EndReindex, Log, Fail
<1>4. AllCurrent' = AllCurrent
  BY <1>3 DEF AllCurrent, Current, Live, Rows
<1>5. \A n : FirstPages(n)' = FirstPages(n)
  BY <1>4 DEF FirstPages, Rank
<1>6. CASE IndexPage(h)
  <2>1. /\ handler[h].step = "reindexing" /\ handler[h].page \in Nat
        /\ handler'[h].step = "reindexing" /\ handler'[h].op = "reindex"
        /\ handler'[h].pages = handler[h].pages
        /\ handler'[h].page = handler[h].page + 1
    BY <1>1, <1>6 DEF IndexPage, At, HandlerType
  <2>2. handler'[h].ok =>
          handler[h].ok /\ index' = index \cup Page(handler[h].page)
    BY <1>1, <1>6 DEF IndexPage, HandlerType
  <2>3. handler'[h].ok => index' = FirstPages(handler[h].page + 1)
    BY <2>1, <2>2, PagesInTurn DEF ReindexSound
  <2>4. handler'[h].pages = Pages(Cardinality(AllCurrent'))
    BY <1>4, <2>1 DEF ReindexSound
  <2> QED  BY <1>3, <1>5, <2>1, <2>3, <2>4 DEF ReindexSound
<1>7. CASE EndReindex(h)
  <2>1. /\ handler[h].step = "reindexing" /\ handler[h].page = handler[h].pages
        /\ handler'[h].step = "ending" /\ handler'[h].op = "reindex"
        /\ handler'[h].ok = handler[h].ok /\ index' = index
    BY <1>1, <1>7 DEF EndReindex, At, GoTo, HandlerType
  <2>2. handler[h].ok => index = AllCurrent
    BY <2>1, PagesInTurn DEF ReindexSound
  <2> QED  BY <1>3, <1>4, <2>1, <2>2 DEF ReindexSound
<1>8. CASE Log(h) \/ Fail(h)
  <2>1. handler' = [handler EXCEPT ![h] = Idle]
    BY <1>8 DEF Log, Fail
  <2> QED  BY <1>1, <1>3, <2>1 DEF ReindexSound, Idle
<1> QED  BY <1>2, <1>3, <1>6, <1>7, <1>8

\* Only a reindexing begins as one, with nothing indexed.
LEMMA BeginsSound ==
  ASSUME IndInv, NEW h \in Handlers, Beginning(h)
  PROVE  ReindexSound(h)'
<1>1. handler \in [Handlers -> HandlerType]
  BY DEF IndInv, TypeOK
<1>2. CASE Reindex(h)
  <2>1. /\ handler'[h].op = "reindex" /\ handler'[h].step = "reindexing"
        /\ handler'[h].page = 0 /\ index' = {} /\ version' = version
        /\ handler'[h].pages = Pages(Cardinality(AllCurrent))
    BY <1>1, <1>2 DEF Reindex, Start, Idle
  <2>2. AllCurrent' = AllCurrent /\ FirstPages(0)' = FirstPages(0)
    BY <2>1 DEF AllCurrent, Current, Live, Rows, FirstPages, Rank
  <2> QED  BY <2>1, <2>2, PagesInTurn DEF ReindexSound
<1>3. CASE Create(h) \/ Import(h) \/ ReadBase(h) \/ Remove(h) \/ ReadForStatus(h)
  <2>1. PICK me : /\ me.op # "reindex" /\ me.step \notin {"idle", "reindexing"}
                  /\ handler' = [handler EXCEPT ![h] = me]
    <3>1. CASE Create(h)
      <4> DEFINE Created(a) ==
            [ Idle EXCEPT !.op = "create", !.asset = a,
               !.step = IF a \in LogSources THEN "registering" ELSE "creating" ]
      <4>1. \A a : /\ Created(a).op = "create"
                   /\ Created(a).step \in {"registering", "creating"}
        BY DEF Idle
      <4>2. \E a \in Assets : handler' = [handler EXCEPT ![h] = Created(a)]
        BY <3>1 DEF Create, Start
      <4> HIDE DEF Created
      <4> QED  BY <4>1, <4>2
    <3>2. CASE Import(h)
      <4>1. PICK a \in Assets, v \in Versions :
              handler' = [handler EXCEPT ![h] =
                [ Idle EXCEPT !.op = "import", !.asset = a, !.new = v,
                              !.step = "open" ]]
        BY <3>2 DEF Import, Start
      <4> QED  BY <4>1 DEF Idle
    <3>3. CASE ReadBase(h)
      BY <3>3 DEF ReadBase, Start, Idle
    <3>4. CASE Remove(h)
      BY <3>4 DEF Remove, Start, Idle
    <3>5. CASE ReadForStatus(h)
      <4>1. \A v, status : /\ StatusHandler(v, status).op = "status"
                           /\ StatusHandler(v, status).step \in {"deciding", "saving"}
        BY DEF StatusHandler, Idle
      <4> QED  BY <3>5, <4>1, StatusBegun
    <3> QED  BY <1>3, <3>1, <3>2, <3>3, <3>4, <3>5
  <2> QED  BY <1>1, <2>1 DEF ReindexSound
<1> QED  BY <1>2, <1>3 DEF Beginning

LEMMA QuietInvKept == IndInv /\ QuietInv /\ [Next]_vars => QuietInv'
<1> SUFFICES ASSUME IndInv, QuietInv, [Next]_vars, regime'.handlers = 1
             PROVE  /\ \A h, o \in InFlight' : h = o
                    /\ \A h \in Handlers : ReindexSound(h)'
  BY DEF QuietInv
<1>1. CASE UNCHANGED vars
  <2>1. QuietInv'
    BY <1>1 DEF vars, QuietInv, InFlight, ReindexSound, AllCurrent, Current, Live,
       Rows, FirstPages, Rank
  <2> QED  BY <2>1 DEF QuietInv
<1>2. CASE Next
  <2>1. PICK h \in Handlers :
          \/ Beginning(h) \/ Quiet(h)
          \/ CommitCreate(h) \/ CommitImport(h) \/ CommitUpdate(h)
          \/ DeleteAsset(h) \/ DeleteVersions(h)
          \/ SaveStatus(h) \/ LandDeletion(h)
    BY <1>2, StepKinds
  <2>2. regime' = regime /\ Alone(h)
    <3>1. DeleteAsset(h) => Alone(h)
      BY DEF DeleteAsset, GoTo, Alone, IndInv, TypeOK
    <3> QED
      BY <2>1, <3>1, BeginningEffect, QuietEffect, CreateEffect, UpdateEffect,
         DeletionEffect, StatusEffect DEF DeleteAsset
  <2>3. /\ regime.handlers = 1
        /\ \A g, o \in InFlight : g = o
        /\ \A o \in Handlers : ReindexSound(o)
    BY <2>2 DEF QuietInv
  <2>5. handler[h].step # "idle" \/ Beginning(h)
    <3>1. ~ LandDeletion(h) \/ handler[h].step # "idle"
      BY <2>3 DEF LandDeletion, ReindexSound
    <3> QED
      BY <2>1, <3>1
      DEF Quiet, Register, IndexCreated, Open, LeaveVersions, FindVersions, Decide,
          IndexPage, EndReindex, Log, Fail, CommitCreate, CommitImport,
          CommitUpdate, DeleteAsset, DeleteVersions, SaveStatus, At
  \* The others are idle: h was the one in flight, or there was none.
  <2>4. \A o \in Handlers \ {h} : handler[o].step = "idle"
    <3>1. CASE handler[h].step # "idle"
      BY <2>3, <3>1 DEF InFlight
    <3>2. CASE Beginning(h)
      <4>1. Cardinality(InFlight) < 1
        BY <2>3, <3>2 DEF Beginning, Create, Import, ReadBase, Remove,
           ReadForStatus, Reindex, Start
      <4>2. ASSUME NEW o \in InFlight PROVE FALSE
        <5>1. InFlight = {o}
          BY <2>3
        <5>2. Cardinality({o}) = 1
          BY FS_Singleton
        <5> QED  BY <4>1, <5>1, <5>2
      <4> QED  BY <4>2 DEF InFlight
    <3> QED  BY <2>5, <3>1, <3>2
  <2>6. \A g, o \in InFlight' : g = o
    BY <2>2, <2>4 DEF InFlight, Alone
  <2>7. \A o \in Handlers \ {h} : ReindexSound(o)'
    BY <2>2, <2>3, <2>4 DEF ReindexSound, Alone
  <2>8. ReindexSound(h)'
    <3>1. CASE Beginning(h)
      BY <3>1, BeginsSound
    <3>2. CASE ~ Beginning(h) /\ handler[h].op = "reindex"
      BY <2>1, <2>3, <3>2, ReindexWork
    <3>3. CASE ~ Beginning(h) /\ handler[h].op # "reindex"
      BY <2>1, <2>3, <2>5, <3>3, OtherWork DEF ReindexSound
    <3> QED  BY <3>1, <3>2, <3>3
  <2> QED  BY <2>6, <2>7, <2>8
<1> QED  BY <1>1, <1>2

\* Handlers that do not overlap, of which any may fail at any step: when all
\* bulk requests of a reindexing succeed, exactly the current versions are in
\* the index, for any size of a page.
THEOREM ReindexRestores == Spec => []QuietReindexRestores
<1>1. Init => QuietInv
  BY DEF Init, QuietInv, InFlight, ReindexSound, Idle
<1>2. QuietInv => QuietReindexRestores
  BY DEF QuietInv, ReindexSound, QuietReindexRestores, At
<1> QED  BY <1>1, <1>2, QuietInvKept, Invariance, PTL DEF Spec
=============================================================================
