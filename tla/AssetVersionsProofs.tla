------------------------ MODULE AssetVersionsProofs ------------------------
(***************************************************************************)
(* What holds of assets and their versions for any number of assets,       *)
(* versions and handlers.                                                  *)
(***************************************************************************)
EXTENDS AssetVersions, FiniteSetTheorems, TLAPS

-----------------------------------------------------------------------------
(* The inductive invariant.                                                *)

\* A row of a version belongs to an asset that was created.
RowSound(v) ==
  \/ version[v] = NoRow
  \/ /\ version[v].asset \in Assets
     /\ asset[version[v].asset] # "none"
     /\ version[v].baseline >= 1
     /\ version[v].detached => asset[version[v].asset] = "deleted"

\* The entity a handler holds is of a row that is still there, and was read
\* when it was not deleted.
EntitySound(h) ==
  LET me == handler[h] IN
  me.base # 0 =>
    /\ me.asset \in Assets
    /\ me.row.asset = me.asset
    /\ version[me.base].asset = me.asset
    /\ me.row.baseline = version[me.base].baseline
    /\ ~ me.row.deleted
    /\ me.row.detached => asset[me.asset] = "deleted"

\* The id a handler drew is its own, and nothing is stored under it before its
\* transaction commits.
NewSound(h) ==
  LET me == handler[h] IN
  /\ me.new # 0 => \A o \in Handlers \ {h} : handler[o].new # me.new
  /\ me.step = "open" => me.new # 0 /\ version[me.new] = NoRow

\* Nobody else knows of the asset.
OwnAsset(h) ==
  /\ handler[h].asset \in Assets
  /\ asset[handler[h].asset] = "none"
  /\ \A o \in Handlers \ {h} : handler[o].asset # handler[h].asset

StepSound(h) ==
  LET me == handler[h] IN
  /\ me.doomed # {} => me.asset \in Assets
  /\ me.step \in {"registering", "creating"} => me.op = "create" /\ OwnAsset(h)
  /\ me.step = "open" /\ me.op # "update" => me.op = "import" /\ OwnAsset(h)
  /\ me.step = "indexing" => me.new # 0
  /\ me.step = "read" => me.op = "update"
  /\ me.step \in {"read", "open"} /\ me.op = "update" => me.base # 0
  /\ me.step \in {"deciding", "saving", "landing"} => me.op = "status" /\ me.base # 0
  /\ me.step = "deciding" => me.row.status \in {"approved", "declined"}
  /\ me.step \in {"removing", "finding", "deleting"} =>
       me.op = "remove" /\ me.asset \in Assets
  /\ me.step \in {"finding", "deleting"} => asset[me.asset] = "deleted"
  /\ me.op = "status" /\ me.doomed # {} => me.base # 0 /\ me.asset \in LogSources

IndInv ==
  /\ TypeOK
  /\ \A v \in Versions : RowSound(v)
  /\ \A h \in Handlers : EntitySound(h) /\ NewSound(h) /\ StepSound(h)

\* An asset that is not of a log source and was not removed has a version that
\* nobody ever saw archived.
Untouched(a, v) ==
  /\ v \in Current(a)
  /\ \A h \in Handlers : handler[h].base = v => ~ handler[h].row.archived

LiveInv ==
  \A a \in Assets \ LogSources : asset[a] = "live" =>
    \E v \in Versions : Untouched(a, v)

\* What an entity of a log source says of its approval is what the register
\* was told.
ApprovalSound(h) ==
  LET me == handler[h] IN
  /\ me.base # 0 /\ me.step \in {"read", "open", "saving"}
  /\ me.asset \in LogSources /\ me.row.status = "approved" /\ asset[me.asset] = "live"
  => "approved" \in register[me.asset]

ApprovalInv == ApprovedIsApprovedThere /\ \A h \in Handlers : ApprovalSound(h)

-----------------------------------------------------------------------------
(***************************************************************************)
(* A step of handler h, seen from everywhere else: it makes "me" of h's    *)
(* variables, keeps asset and baseline of every row, stores under no id    *)
(* that another handler drew, and changes an asset of h or deletes one.    *)
(***************************************************************************)
StepOf(h, me) ==
  /\ me \in HandlerType
  /\ handler' = [handler EXCEPT ![h] = me]
  /\ \/ me.new \in {0, handler[h].new}
     \/ \A o \in Handlers : handler[o].new # me.new
  /\ \/ me.asset \in {"none", handler[h].asset}
     \/ \A o \in Handlers : handler[o].asset # me.asset
     \/ asset[me.asset] # "none"
  /\ index' \subseteq Versions
  /\ register' \in [Assets -> SUBSET {"created", "approved", "declined"}]
  /\ regime' = regime

Writes(h) ==
  /\ asset' \in [Assets -> {"none", "live", "deleted"}]
  /\ version' \in [Versions -> RowType]
  /\ \A v \in Versions :
       IF version[v] = NoRow
       THEN version'[v] = NoRow \/ \A o \in Handlers \ {h} : handler[o].new # v
       ELSE /\ version'[v].asset = version[v].asset
            /\ version'[v].baseline = version[v].baseline
  /\ \A a \in Assets :
       \/ asset'[a] = asset[a]
       \/ asset[a] = "none" /\ a = handler[h].asset
       \/ asset[a] # "none" /\ asset'[a] = "deleted"

\* What is left to show of the step then is about h itself and the rows.
OwnSound(h) ==
  /\ handler[h].base # 0 => version[handler[h].base].asset = handler[h].asset
  /\ handler[h].doomed \subseteq Rows(handler[h].asset)
  /\ handler[h].page <= handler[h].pages
  /\ EntitySound(h)
  /\ handler[h].step = "open" =>
       handler[h].new # 0 /\ version[handler[h].new] = NoRow
  /\ StepSound(h)

LEMMA Frame ==
  ASSUME IndInv, NEW h \in Handlers, NEW me, StepOf(h, me), Writes(h),
         \A v \in Versions : RowSound(v)', OwnSound(h)'
  PROVE  IndInv'
<1> USE DEF IndInv
<1>1. /\ handler'[h] = me /\ handler' \in [Handlers -> HandlerType]
      /\ \A o \in Handlers \ {h} : handler'[o] = handler[o]
  BY DEF TypeOK, StepOf
<1>2. ASSUME NEW o \in Handlers \ {h}
      PROVE  /\ handler[o].base # 0 =>
                  version'[handler[o].base].asset = handler[o].asset
             /\ handler[o].doomed \subseteq Rows(handler[o].asset)'
             /\ EntitySound(o)'
  <2>1. handler[o] \in HandlerType
    BY DEF TypeOK
  <2>2. \A v \in Versions : version[v].asset \in Assets => version[v] # NoRow
    BY ConstantsAssumption DEF NoRow
  <2>3. EntitySound(o)'
    BY <1>1, <2>1, <2>2 DEF EntitySound, Writes, HandlerType
  <2>4. handler[o].base # 0 => version'[handler[o].base].asset = handler[o].asset
    BY <1>1, <2>3 DEF EntitySound
  <2>5. ASSUME NEW v \in handler[o].doomed PROVE v \in Rows(handler[o].asset)'
    <3>1. handler[o].doomed \subseteq Rows(handler[o].asset)
      BY DEF TypeOK
    <3>2. v \in Versions /\ version[v].asset = handler[o].asset
      BY <3>1 DEF Rows
    <3>3. handler[o].asset \in Assets
      <4>1. StepSound(o) /\ handler[o].doomed # {}
        OBVIOUS
      <4>2. QED
        BY <4>1 DEF StepSound
    <3>4. QED
      BY <1>1, <2>2, <3>2, <3>3 DEF Writes, Rows
  <2>6. QED
    BY <2>3, <2>4, <2>5
<1>3a. \A v \in Versions : version'[v].detached => asset'[version'[v].asset] = "deleted"
  BY DEF RowSound, NoRow
<1>3. TypeOK'
  BY <1>1, <1>2, <1>3a DEF TypeOK, StepOf, Writes, OwnSound
<1>4. ASSUME NEW o \in Handlers PROVE NewSound(o)'
  <2>1. CASE o = h
    BY <1>1, <2>1 DEF NewSound, StepOf, OwnSound
  <2>2. CASE o # h
    <3>1. handler[o].new # 0 => \A p \in Handlers \ {o} : handler'[p].new # handler[o].new
      BY <1>1, <2>2 DEF NewSound, StepOf
    <3>2. handler[o].step = "open" =>
            handler[o].new # 0 /\ handler[o].new \in Versions /\ version'[handler[o].new] = NoRow
      BY <2>2 DEF NewSound, Writes, TypeOK, HandlerType
    <3>3. QED
      BY <1>1, <2>2, <3>1, <3>2 DEF NewSound
  <2>3. QED
    BY <2>1, <2>2
<1>5. ASSUME NEW o \in Handlers PROVE StepSound(o)'
  <2>1. CASE o = h
    BY <2>1 DEF OwnSound
  <2>2. CASE o # h
    <3>1. OwnAsset(o) => OwnAsset(o)'
      BY <1>1, <2>2, ConstantsAssumption DEF OwnAsset, StepOf, Writes
    <3>2. asset[handler[o].asset] = "deleted" /\ handler[o].asset \in Assets =>
            asset'[handler[o].asset] = "deleted"
      BY DEF Writes
    <3>3. QED
      <4>1. StepSound(o) /\ handler'[o] = handler[o] /\ regime' = regime
        BY <1>1, <2>2 DEF StepOf
      <4>2. QED
        BY <3>1, <3>2, <4>1 DEF StepSound, LogSources
  <2>3. QED
    BY <2>1, <2>2
<1>6. ASSUME NEW o \in Handlers PROVE EntitySound(o)'
  BY <1>2 DEF OwnSound
<1>7. QED
  BY <1>3, <1>4, <1>5, <1>6

\* A step that writes no row.
LEMMA QuietFrame ==
  ASSUME IndInv, NEW h \in Handlers, NEW me, StepOf(h, me),
         UNCHANGED <<asset, version>>, OwnSound(h)'
  PROVE  IndInv'
<1>1. Writes(h)
  BY DEF Writes, IndInv, TypeOK
<1>2. \A v \in Versions : RowSound(v)'
  BY DEF RowSound, IndInv, NoRow
<1>3. QED
  BY <1>1, <1>2, Frame

-----------------------------------------------------------------------------
(* The steps, handler by handler.                                          *)

LEMMA IdleType == Idle \in HandlerType /\ NoRow \in RowType /\ NoRow.asset = "none"
BY DEF Idle, HandlerType, Steps, NoRow, RowType, Status

LEMMA RowKnown ==
  ASSUME IndInv, NEW v \in Versions, version[v] # NoRow
  PROVE  /\ version[v] \in RowType
         /\ version[v].asset \in Assets
         /\ asset[version[v].asset] # "none"
         /\ version[v].detached => asset[version[v].asset] = "deleted"
BY DEF IndInv, RowSound, TypeOK

LEMMA BeginCreate ==
  ASSUME IndInv, NEW h \in Handlers, Create(h)
  PROVE  IndInv'
<1>1. PICK a \in Assets :
        /\ New(a)
        /\ handler' = [handler EXCEPT ![h] =
             [ Idle EXCEPT !.op = "create", !.asset = a,
                !.step = IF a \in LogSources THEN "registering" ELSE "creating" ]]
        /\ UNCHANGED <<asset, version, index, register, regime>>
  BY DEF Create, Start
<1> DEFINE me == [ Idle EXCEPT !.op = "create", !.asset = a,
                     !.step = IF a \in LogSources THEN "registering" ELSE "creating" ]
<1>2. /\ me \in HandlerType /\ me.new = 0 /\ me.base = 0 /\ me.doomed = {}
      /\ me.asset = a /\ me.page = 0 /\ me.pages = 0 /\ me.op = "create"
      /\ me.step \in {"registering", "creating"}
  BY DEF Idle, HandlerType, Steps, NoRow, RowType, Status
<1>3. handler'[h] = me /\ \A o \in Handlers \ {h} : handler'[o] = handler[o]
  BY <1>1 DEF IndInv, TypeOK
<1> HIDE DEF me
<1>4. StepOf(h, me)
  BY <1>1, <1>2 DEF StepOf, New, IndInv, TypeOK, me
<1>5. OwnAsset(h)'
  BY <1>1, <1>2, <1>3 DEF OwnAsset, New
<1>6. OwnSound(h)'
  BY <1>2, <1>3, <1>5 DEF OwnSound, EntitySound, StepSound
<1>7. QED
  BY <1>1, <1>4, <1>6, QuietFrame

LEMMA BeginImport ==
  ASSUME IndInv, NEW h \in Handlers, Import(h)
  PROVE  IndInv'
<1>1. PICK a \in Assets, v \in Versions :
        /\ New(a) /\ Fresh(v)
        /\ handler' = [handler EXCEPT ![h] =
             [ Idle EXCEPT !.op = "import", !.asset = a, !.new = v, !.step = "open" ]]
        /\ index' \in {index, index \cup {v}}
        /\ UNCHANGED <<asset, version, register, regime>>
  BY DEF Import, Start
<1> DEFINE me == [ Idle EXCEPT !.op = "import", !.asset = a, !.new = v,
                               !.step = "open" ]
<1>2. /\ me \in HandlerType /\ me.new = v /\ me.base = 0 /\ me.doomed = {}
      /\ me.asset = a /\ me.page = 0 /\ me.pages = 0 /\ me.op = "import"
      /\ me.step = "open"
  BY DEF Idle, HandlerType, Steps, NoRow, RowType, Status
<1>3. handler'[h] = me /\ \A o \in Handlers \ {h} : handler'[o] = handler[o]
  BY <1>1 DEF IndInv, TypeOK
<1>4. /\ version[v] = NoRow /\ v # 0
      /\ \A o \in Handlers : handler[o].new # v
  BY <1>1, ConstantsAssumption DEF Fresh
<1> HIDE DEF me
<1>5. StepOf(h, me)
  BY <1>1, <1>2, <1>4 DEF StepOf, New, IndInv, TypeOK, me
<1>6. OwnAsset(h)'
  BY <1>1, <1>2, <1>3 DEF OwnAsset, New
<1>7a. asset' = asset /\ version' = version /\ regime' = regime
  BY <1>1
<1>7. OwnSound(h)'
  BY <1>7a, <1>2, <1>3, <1>4, <1>6 DEF OwnSound, EntitySound, StepSound
<1>8. QED
  BY <1>1, <1>5, <1>7, QuietFrame

LEMMA BeginUpdate ==
  ASSUME IndInv, NEW h \in Handlers, ReadBase(h)
  PROVE  IndInv'
<1>1. PICK v \in Versions :
        /\ Readable(v) /\ asset[version[v].asset] = "live"
        /\ handler' = [handler EXCEPT ![h] =
             [ Idle EXCEPT !.op = "update", !.asset = version[v].asset,
                           !.base = v, !.row = version[v], !.step = "read" ]]
        /\ UNCHANGED <<asset, version, index, register, regime>>
  BY DEF ReadBase, Start
<1> DEFINE me == [ Idle EXCEPT !.op = "update", !.asset = version[v].asset,
                               !.base = v, !.row = version[v], !.step = "read" ]
<1>2. /\ version[v] \in RowType /\ version[v].asset \in Assets
      /\ asset[version[v].asset] # "none" /\ ~ version[v].deleted
      /\ version[v].detached => asset[version[v].asset] = "deleted"
      /\ v # 0
  BY <1>1, RowKnown, ConstantsAssumption DEF Readable
<1>3. /\ me \in HandlerType /\ me.new = 0 /\ me.base = v /\ me.doomed = {}
      /\ me.asset = version[v].asset /\ me.page = 0 /\ me.pages = 0
      /\ me.op = "update" /\ me.step = "read" /\ me.row = version[v]
  BY <1>2 DEF Idle, HandlerType, Steps
<1>4. handler'[h] = me
  BY <1>1 DEF IndInv, TypeOK
<1> HIDE DEF me
<1>5. StepOf(h, me)
  BY <1>1, <1>2, <1>3 DEF StepOf, IndInv, TypeOK, me
<1>6a. asset' = asset /\ version' = version /\ regime' = regime
  BY <1>1
<1>6. OwnSound(h)'
  BY <1>6a, <1>2, <1>3, <1>4 DEF OwnSound, EntitySound, StepSound
<1>7. QED
  BY <1>1, <1>5, <1>6, QuietFrame

LEMMA BeginRemoval ==
  ASSUME IndInv, NEW h \in Handlers, Remove(h)
  PROVE  IndInv'
<1>1. PICK a \in Assets :
        /\ asset[a] # "none"
        /\ handler' = [handler EXCEPT ![h] =
             [ Idle EXCEPT !.op = "remove", !.asset = a, !.step = "removing" ]]
        /\ UNCHANGED <<asset, version, index, register, regime>>
  BY DEF Remove, Start
<1> DEFINE me == [ Idle EXCEPT !.op = "remove", !.asset = a, !.step = "removing" ]
<1>2. /\ me \in HandlerType /\ me.new = 0 /\ me.base = 0 /\ me.doomed = {}
      /\ me.asset = a /\ me.page = 0 /\ me.pages = 0 /\ me.op = "remove"
      /\ me.step = "removing"
  BY DEF Idle, HandlerType, Steps, NoRow, RowType, Status
<1>3. handler'[h] = me
  BY <1>1 DEF IndInv, TypeOK
<1> HIDE DEF me
<1>4. StepOf(h, me)
  BY <1>1, <1>2 DEF StepOf, IndInv, TypeOK, me
<1>5a. asset' = asset /\ version' = version /\ regime' = regime
  BY <1>1
<1>5. OwnSound(h)'
  BY <1>5a, <1>2, <1>3 DEF OwnSound, EntitySound, StepSound
<1>6. QED
  BY <1>1, <1>4, <1>5, QuietFrame

\* The entity that changeAssetStatus holds.
StatusRow(v, status) ==
  [version[v] EXCEPT !.status = status, !.detached = asset[version[v].asset] # "live"]

Asked(v) == asset[version[v].asset] = "live" /\ version[v].asset \in LogSources

StatusHandler(v, status) ==
  [ Idle EXCEPT !.op = "status", !.asset = version[v].asset, !.base = v,
      !.row = StatusRow(v, status),
      !.step = IF Asked(v) THEN "deciding" ELSE "saving",
      !.doomed = IF Asked(v) /\ status = "declined" THEN {v} ELSE {} ]

LEMMA StatusBegun ==
  ASSUME NEW h \in Handlers, ReadForStatus(h)
  PROVE  \E v \in Versions, status \in {"inService", "approved", "declined"} :
           /\ Readable(v)
           /\ Asked(v) => status \in {"approved", "declined"}
           /\ version[v].asset \notin LogSources => status = "inService"
           /\ handler' = [handler EXCEPT ![h] = StatusHandler(v, status)]
           /\ UNCHANGED <<asset, version, index, register, regime>>
<1>1. PICK v \in Versions, status \in {"inService", "approved", "declined"} :
        LET a == version[v].asset
            joined == asset[a] = "live"
            asked == joined /\ a \in LogSources
        IN
        /\ Readable(v)
        /\ asked => status \in {"approved", "declined"}
        /\ a \notin LogSources => status = "inService"
        /\ Start(h, [ Idle EXCEPT !.op = "status", !.asset = a, !.base = v,
             !.row = [version[v] EXCEPT !.status = status, !.detached = ~ joined],
             !.step = IF asked THEN "deciding" ELSE "saving",
             !.doomed = IF asked /\ status = "declined" THEN {v} ELSE {} ])
        /\ UNCHANGED <<asset, version, index, register, regime>>
  BY DEF ReadForStatus
<1>2. handler' = [handler EXCEPT ![h] = StatusHandler(v, status)]
  BY <1>1 DEF Start, StatusHandler, StatusRow, Asked
<1>3. QED
  BY <1>1, <1>2 DEF Asked

LEMMA StatusHandlerType ==
  ASSUME IndInv, NEW v \in Versions, Readable(v),
         NEW status \in {"inService", "approved", "declined"}
  PROVE  LET row == StatusRow(v, status)
             me == StatusHandler(v, status)
         IN
         /\ row \in RowType /\ row.asset = version[v].asset
         /\ row.baseline = version[v].baseline /\ ~ row.deleted
         /\ row.archived = version[v].archived /\ row.status = status
         /\ row.detached => asset[version[v].asset] = "deleted"
         /\ me \in HandlerType /\ me.new = 0 /\ me.base = v
         /\ me.doomed \subseteq {v} /\ (me.doomed # {} => Asked(v))
         /\ me.asset = version[v].asset /\ me.page = 0 /\ me.pages = 0
         /\ me.op = "status" /\ me.row = row
         /\ me.step = IF Asked(v) THEN "deciding" ELSE "saving"
<1> DEFINE row == StatusRow(v, status)
           me == StatusHandler(v, status)
<1>1. /\ version[v] \in RowType /\ version[v].asset \in Assets
      /\ asset[version[v].asset] \in {"live", "deleted"} /\ ~ version[v].deleted
  BY RowKnown DEF Readable, IndInv, TypeOK
<1>2. (asset[version[v].asset] # "live") \in BOOLEAN
  OBVIOUS
<1>3. /\ row \in RowType /\ row.asset = version[v].asset
      /\ row.baseline = version[v].baseline /\ ~ row.deleted
      /\ row.archived = version[v].archived /\ row.status = status
      /\ row.detached = (asset[version[v].asset] # "live")
  BY <1>1, <1>2 DEF RowType, Status, StatusRow
<1>4. /\ me \in HandlerType /\ me.new = 0 /\ me.base = v
      /\ me.doomed \subseteq {v} /\ (me.doomed # {} => Asked(v))
      /\ me.asset = version[v].asset /\ me.page = 0 /\ me.pages = 0
      /\ me.op = "status" /\ me.row = row
      /\ me.step = IF Asked(v) THEN "deciding" ELSE "saving"
  <2> HIDE DEF row
  <2>1. me = [ Idle EXCEPT !.op = "status", !.asset = version[v].asset, !.base = v,
                 !.row = row,
                 !.step = IF Asked(v) THEN "deciding" ELSE "saving",
                 !.doomed = IF Asked(v) /\ status = "declined" THEN {v} ELSE {} ]
    BY DEF StatusHandler, row
  <2> HIDE DEF me
  <2>2. QED
    BY <1>1, <1>3, <2>1 DEF Idle, HandlerType, Steps
<1>5. QED
  BY <1>1, <1>3, <1>4

LEMMA BeginStatus ==
  ASSUME IndInv, NEW h \in Handlers, ReadForStatus(h)
  PROVE  IndInv'
<1>1. PICK v \in Versions, status \in {"inService", "approved", "declined"} :
        /\ Readable(v)
        /\ Asked(v) => status \in {"approved", "declined"}
        /\ handler' = [handler EXCEPT ![h] = StatusHandler(v, status)]
        /\ UNCHANGED <<asset, version, index, register, regime>>
  BY StatusBegun
<1> DEFINE row == StatusRow(v, status)
           me == StatusHandler(v, status)
<1>2. /\ version[v].asset \in Assets /\ asset[version[v].asset] # "none" /\ v # 0
  BY <1>1, RowKnown, ConstantsAssumption DEF Readable
<1>3. /\ row.asset = version[v].asset
      /\ row.baseline = version[v].baseline /\ ~ row.deleted /\ row.status = status
      /\ row.detached => asset[version[v].asset] = "deleted"
      /\ me \in HandlerType /\ me.new = 0 /\ me.base = v
      /\ me.doomed \subseteq {v} /\ (me.doomed # {} => Asked(v))
      /\ me.asset = version[v].asset /\ me.page = 0 /\ me.pages = 0
      /\ me.op = "status" /\ me.row = row
      /\ me.step \in {"deciding", "saving"} /\ (me.step = "deciding" => Asked(v))
  BY <1>1, StatusHandlerType
<1>4. handler'[h] = me
  BY <1>1 DEF IndInv, TypeOK
<1> HIDE DEF me, row
<1>5. StepOf(h, me)
  BY <1>1, <1>2, <1>3 DEF StepOf, IndInv, TypeOK, me
<1>6. asset' = asset /\ version' = version /\ regime' = regime
  BY <1>1
<1>7. OwnSound(h)'
  BY <1>1, <1>2, <1>3, <1>4, <1>6
  DEF OwnSound, EntitySound, StepSound, Rows, LogSources, Asked
<1>8. QED
  BY <1>1, <1>5, <1>7, QuietFrame

LEMMA BeginReindex ==
  ASSUME IndInv, NEW h \in Handlers, Reindex(h)
  PROVE  IndInv'
<1> DEFINE pages == Pages(Cardinality(AllCurrent))
           me == [ Idle EXCEPT !.op = "reindex", !.step = "reindexing", !.ok = TRUE,
                               !.pages = pages ]
<1>1. /\ handler' = [handler EXCEPT ![h] = me]
      /\ index' = {} /\ UNCHANGED <<asset, version, register, regime>>
  BY DEF Reindex, Start
<1>2. pages \in Nat
  <2>1. AllCurrent \in SUBSET Versions
    BY DEF AllCurrent, Current, Live, Rows
  <2>2. Cardinality(AllCurrent) \in Nat
    BY <2>1, FS_Subset, FS_CardinalityType, ConstantsAssumption
  <2>3. \A n, p \in Nat : p > 0 => (n + p - 1) \div p \in Nat
    OBVIOUS
  <2>4. QED
    BY <2>2, <2>3, ConstantsAssumption DEF Pages
<1> HIDE DEF pages
<1>3. /\ me \in HandlerType /\ me.new = 0 /\ me.base = 0 /\ me.doomed = {}
      /\ me.asset = "none" /\ me.page = 0 /\ me.pages = pages
      /\ me.op = "reindex" /\ me.step = "reindexing"
  BY <1>2 DEF Idle, HandlerType, Steps, NoRow, RowType, Status
<1>4. handler'[h] = me
  BY <1>1 DEF IndInv, TypeOK
<1> HIDE DEF me
<1>5. StepOf(h, me)
  BY <1>1, <1>3 DEF StepOf, IndInv, TypeOK
<1>6. OwnSound(h)'
  BY <1>2, <1>3, <1>4 DEF OwnSound, EntitySound, StepSound
<1>7. QED
  BY <1>1, <1>5, <1>6, QuietFrame

-----------------------------------------------------------------------------
\* The variables of a handler, and what the invariant says of them.
LEMMA HandlerKnown ==
  ASSUME IndInv, NEW h \in Handlers
  PROVE  /\ handler[h] \in HandlerType
         /\ OwnSound(h)
         /\ handler[h].base # 0 => version[handler[h].base] # NoRow
<1>1. OwnSound(h)
  BY DEF IndInv, TypeOK, OwnSound, NewSound
<1>2. handler[h].base # 0 => version[handler[h].base] # NoRow
  BY <1>1, ConstantsAssumption DEF OwnSound, EntitySound, NoRow
<1>3. QED
  BY <1>1, <1>2 DEF IndInv, TypeOK

\* A handler that goes on: another step, page, log or fewer versions to delete.
MovesTo(h, step, page, doomed) ==
  /\ handler' \in [Handlers -> HandlerType]
  /\ \A o \in Handlers \ {h} : handler'[o] = handler[o]
  /\ handler'[h].step = step
  /\ handler'[h].page = page
  /\ handler'[h].doomed = doomed
  /\ handler'[h].op = handler[h].op
  /\ handler'[h].asset = handler[h].asset
  /\ handler'[h].base = handler[h].base
  /\ handler'[h].row = handler[h].row
  /\ handler'[h].new = handler[h].new
  /\ handler'[h].pages = handler[h].pages

LEMMA Stepping ==
  ASSUME IndInv, NEW h \in Handlers, NEW step \in Steps, GoTo(h, step)
  PROVE  MovesTo(h, step, handler[h].page, handler[h].doomed)
<1>1. handler \in [Handlers -> HandlerType]
  BY DEF IndInv, TypeOK
<1>2. handler' = [handler EXCEPT ![h].step = step]
  BY DEF GoTo
<1>3. handler' \in [Handlers -> HandlerType]
  BY <1>1, <1>2 DEF HandlerType
<1>4. QED
  BY <1>1, <1>2, <1>3 DEF MovesTo, HandlerType

LEMMA MovingOn ==
  ASSUME IndInv, NEW h \in Handlers, NEW step \in Steps \ {"open"}, NEW page \in Nat,
         NEW doomed \in SUBSET Versions, MovesTo(h, step, page, doomed),
         UNCHANGED <<asset, version, regime>>,
         index' \subseteq Versions,
         register' \in [Assets -> SUBSET {"created", "approved", "declined"}],
         page <= handler[h].pages,
         doomed \subseteq Rows(handler[h].asset),
         StepSound(h)'
  PROVE  IndInv'
<1>1. handler' = [handler EXCEPT ![h] = handler'[h]]
  BY DEF MovesTo, IndInv, TypeOK
<1>2. StepOf(h, handler'[h])
  BY <1>1 DEF StepOf, MovesTo
<1>3. OwnSound(h)'
  BY HandlerKnown DEF OwnSound, EntitySound, Rows, MovesTo
<1>4. QED
  BY <1>2, <1>3, QuietFrame

\* The handler is done.
LEMMA Ending ==
  ASSUME IndInv, NEW h \in Handlers,
         handler' = [handler EXCEPT ![h] = Idle],
         Writes(h), \A v \in Versions : RowSound(v)',
         index' = index, register' = register, regime' = regime
  PROVE  IndInv'
<1>1. handler'[h] = Idle
  BY DEF IndInv, TypeOK
<1>2. /\ Idle \in HandlerType /\ Idle.new = 0 /\ Idle.base = 0 /\ Idle.doomed = {}
      /\ Idle.asset = "none" /\ Idle.page = 0 /\ Idle.pages = 0
      /\ Idle.op = "none" /\ Idle.step = "idle"
  BY DEF Idle, HandlerType, Steps, NoRow, RowType, Status
<1>3. StepOf(h, Idle)
  BY <1>2 DEF StepOf, IndInv, TypeOK
<1>4. OwnSound(h)'
  BY <1>1, <1>2 DEF OwnSound, EntitySound, StepSound
<1>5. QED
  BY <1>3, <1>4, Frame

LEMMA QuietRows ==
  ASSUME IndInv, NEW h \in Handlers, UNCHANGED <<asset, version>>
  PROVE  Writes(h) /\ \A v \in Versions : RowSound(v)'
BY DEF Writes, IndInv, TypeOK, RowSound, NoRow

LEMMA QuietSteps ==
  ASSUME IndInv, NEW h \in Handlers,
         \/ Register(h) \/ IndexCreated(h) \/ FindVersions(h) \/ Decide(h)
         \/ IndexPage(h) \/ EndReindex(h)
  PROVE  IndInv'
<1> DEFINE old == handler[h]
<1>1. /\ old \in HandlerType /\ StepSound(h)
      /\ old.page \in Nat /\ old.pages \in Nat /\ old.page <= old.pages
      /\ old.doomed \in SUBSET Versions /\ old.doomed \subseteq Rows(old.asset)
  BY HandlerKnown DEF OwnSound, HandlerType
<1>2. /\ index \subseteq Versions
      /\ register \in [Assets -> SUBSET {"created", "approved", "declined"}]
      /\ handler \in [Handlers -> HandlerType]
  BY DEF IndInv, TypeOK
<1>3. {"creating", "ending", "deleting", "saving", "reindexing"} \subseteq Steps \ {"open"}
  BY DEF Steps
<1>4. CASE Register(h)
  <2>1. /\ MovesTo(h, "creating", old.page, old.doomed)
        /\ UNCHANGED <<asset, version, regime, index>>
        /\ old.step = "registering"
        /\ register' = [register EXCEPT ![old.asset] = {"created"}]
    BY <1>3, <1>4, Stepping DEF Register, At
  <2>2. OwnAsset(h)'
    BY <1>1, <2>1 DEF StepSound, MovesTo, OwnAsset
  <2>3. StepSound(h)'
    BY <1>1, <2>1, <2>2 DEF StepSound, MovesTo, LogSources
  <2>4. QED
    BY <1>1, <1>2, <1>3, <2>1, <2>3, MovingOn
<1>5. CASE IndexCreated(h)
  <2>1. /\ MovesTo(h, "ending", old.page, old.doomed)
        /\ UNCHANGED <<asset, version, regime, register>>
    BY <1>3, <1>5, Stepping DEF IndexCreated, At
  <2>2. index' \subseteq Versions
    <3>1. old.new # 0
      BY <1>1, <1>5 DEF StepSound, IndexCreated, At
    <3>2. QED
      BY <1>1, <1>2, <1>5, <3>1 DEF IndexCreated, HandlerType
  <2>3. StepSound(h)'
    BY <1>1, <2>1 DEF StepSound, MovesTo, LogSources
  <2>4. QED
    BY <1>1, <1>2, <1>3, <2>1, <2>2, <2>3, MovingOn
<1>6. CASE FindVersions(h)
  <2>1. Attached(old.asset) \in SUBSET Versions /\ Attached(old.asset) \subseteq Rows(old.asset)
    BY DEF Attached, Live, Rows
  <2>2. /\ UNCHANGED <<asset, version, regime, register, index>>
        /\ old.step = "finding"
        /\ handler' = [handler EXCEPT ![h].step = "deleting",
                                      ![h].doomed = Attached(old.asset)]
    BY <1>6 DEF FindVersions, At
  <2>3. MovesTo(h, "deleting", old.page, Attached(old.asset))
    BY <1>2, <1>3, <2>1, <2>2 DEF MovesTo, HandlerType
  <2>4. StepSound(h)'
    BY <1>1, <2>2, <2>3 DEF StepSound, MovesTo, LogSources
  <2>5. QED
    BY <1>1, <1>2, <1>3, <2>1, <2>2, <2>3, <2>4, MovingOn
<1>7. CASE Decide(h)
  <2>1. /\ MovesTo(h, "saving", old.page, old.doomed)
        /\ UNCHANGED <<asset, version, regime, index>>
        /\ old.step = "deciding"
        /\ register' = [register EXCEPT ![old.asset] = @ \cup {old.row.status}]
    BY <1>3, <1>7, Stepping DEF Decide, At
  <2>2. StepSound(h)'
    BY <1>1, <2>1 DEF StepSound, MovesTo, LogSources
  <2>3. register' \in [Assets -> SUBSET {"created", "approved", "declined"}]
    BY <1>1, <1>2, <2>1 DEF StepSound
  <2>4. QED
    BY <1>1, <1>2, <1>3, <2>1, <2>2, <2>3, MovingOn
<1>8. CASE IndexPage(h)
  <2>1. /\ UNCHANGED <<asset, version, regime, register>>
        /\ old.step = "reindexing" /\ old.page < old.pages
        /\ \/ handler' = [handler EXCEPT ![h].page = @ + 1]
           \/ handler' = [handler EXCEPT ![h].page = @ + 1, ![h].ok = FALSE]
    BY <1>8 DEF IndexPage, At
  <2>2. index' \subseteq Versions
    <3>1. AllCurrent \subseteq Versions
      BY DEF AllCurrent, Current, Live, Rows
    <3>2. Page(old.page) \subseteq Versions
      BY <3>1 DEF Page
    <3>3. QED
      BY <1>2, <1>8, <3>2 DEF IndexPage
  <2>3. old.page + 1 \in Nat /\ old.page + 1 <= old.pages
    BY <1>1, <2>1
  <2>4. MovesTo(h, "reindexing", old.page + 1, old.doomed)
    BY <1>2, <2>1, <2>3 DEF MovesTo, HandlerType
  <2>5. StepSound(h)'
    BY <1>1, <2>1, <2>4 DEF StepSound, MovesTo, LogSources
  <2>6. QED
    BY <1>1, <1>2, <1>3, <2>1, <2>2, <2>3, <2>4, <2>5, MovingOn
<1>9. CASE EndReindex(h)
  <2>1. /\ MovesTo(h, "ending", old.page, old.doomed)
        /\ UNCHANGED <<asset, version, regime, register, index>>
    BY <1>3, <1>9, Stepping DEF EndReindex
  <2>2. StepSound(h)'
    BY <1>1, <2>1 DEF StepSound, MovesTo, LogSources
  <2>3. QED
    BY <1>1, <1>2, <1>3, <2>1, <2>2, MovingOn
<1>10. QED
  BY <1>4, <1>5, <1>6, <1>7, <1>8, <1>9

\* A handler that ends without writing, or crashes.
LEMMA EndingSteps ==
  ASSUME IndInv, NEW h \in Handlers, LeaveVersions(h) \/ Log(h) \/ Fail(h)
  PROVE  IndInv'
<1>1. CASE handler' = [handler EXCEPT ![h] = Idle]
  BY <1>1, QuietRows, Ending DEF LeaveVersions, Log, Fail
<1>2. CASE Fail(h) /\ handler' # [handler EXCEPT ![h] = Idle]
  <2> DEFINE old == handler[h]
  <2>1. /\ old \in HandlerType /\ StepSound(h)
        /\ old.page \in Nat /\ old.pages \in Nat /\ old.page <= old.pages
        /\ old.doomed \in SUBSET Versions /\ old.doomed \subseteq Rows(old.asset)
    BY HandlerKnown DEF OwnSound, HandlerType
  <2>2. "landing" \in Steps \ {"open"}
    BY DEF Steps
  <2>3. /\ MovesTo(h, "landing", old.page, old.doomed)
        /\ UNCHANGED <<asset, version, regime, register, index>>
        /\ old.op = "status" /\ old.doomed # {}
    BY <1>2, <2>2, Stepping DEF Fail
  <2>4. StepSound(h)'
    BY <2>1, <2>3 DEF StepSound, MovesTo, LogSources
  <2>5. /\ index' \subseteq Versions
        /\ register' \in [Assets -> SUBSET {"created", "approved", "declined"}]
    BY <2>3 DEF IndInv, TypeOK
  <2>6. QED
    BY <2>1, <2>2, <2>3, <2>4, <2>5, MovingOn
<1>3. QED
  BY <1>1, <1>2 DEF LeaveVersions, Log

-----------------------------------------------------------------------------
(* The steps that write rows.                                              *)

\* An update, up to its commit: it draws an id.
LEMMA OpenStep ==
  ASSUME IndInv, NEW h \in Handlers, Open(h)
  PROVE  IndInv'
<1> DEFINE old == handler[h]
<1>1. PICK v \in Versions :
        /\ Fresh(v)
        /\ handler' = [handler EXCEPT ![h].step = "open", ![h].new = v]
        /\ index' \in Indexed(old.base, v)
        /\ old.step = "read"
        /\ UNCHANGED <<asset, version, register, regime>>
  BY DEF Open, At
<1>2. /\ old \in HandlerType /\ OwnSound(h) /\ handler \in [Handlers -> HandlerType]
      /\ StepSound(h)
  BY HandlerKnown DEF OwnSound, IndInv, TypeOK
<1>3. /\ version[v] = NoRow /\ v # 0
      /\ \A o \in Handlers : handler[o].new # v
  BY <1>1, ConstantsAssumption DEF Fresh
<1>4. /\ handler'[h] \in HandlerType
      /\ handler'[h].step = "open" /\ handler'[h].new = v
      /\ handler'[h].op = old.op /\ handler'[h].asset = old.asset
      /\ handler'[h].base = old.base /\ handler'[h].row = old.row
      /\ handler'[h].doomed = old.doomed
      /\ handler'[h].page = old.page /\ handler'[h].pages = old.pages
      /\ \A o \in Handlers \ {h} : handler'[o] = handler[o]
  BY <1>1, <1>2 DEF HandlerType, Steps
<1>5. handler' = [handler EXCEPT ![h] = handler'[h]]
  BY <1>1, <1>2
<1>6. index' \subseteq Versions
  BY <1>1 DEF Indexed, IndInv, TypeOK
<1>7. StepOf(h, handler'[h])
  BY <1>1, <1>3, <1>4, <1>5, <1>6 DEF StepOf, IndInv, TypeOK
<1>8. StepSound(h)'
  BY <1>1, <1>2, <1>4 DEF StepSound, LogSources
<1>9. OwnSound(h)'
  BY <1>1, <1>2, <1>3, <1>4, <1>8 DEF OwnSound, EntitySound, Rows
<1>10. QED
  BY <1>1, <1>7, <1>9, QuietFrame

\* What a commit leaves of the row that a handler saves.
LEMMA SavedRow ==
  ASSUME IndInv, NEW h \in Handlers, handler[h].base # 0,
         NEW row \in RowType, row.asset = handler[h].row.asset,
         row.baseline = handler[h].row.baseline
  PROVE  /\ version[handler[h].base] # NoRow
         /\ row.asset = version[handler[h].base].asset
         /\ row.baseline = version[handler[h].base].baseline
         /\ row # NoRow
<1>1. handler[h].base # 0 => version[handler[h].base] # NoRow
  BY HandlerKnown
<1>2. EntitySound(h)
  BY DEF IndInv
<1>3. QED
  BY <1>1, <1>2, ConstantsAssumption DEF EntitySound, NoRow

LEMMA CreateStep ==
  ASSUME IndInv, NEW h \in Handlers, CommitCreate(h)
  PROVE  IndInv'
<1> DEFINE old == handler[h]
           a == old.asset
           row == Row(a, 1, IF a \in LogSources THEN "pending" ELSE "inService")
<1>1. PICK v \in Versions :
        /\ Fresh(v) /\ old.step = "creating"
        /\ version' = [version EXCEPT ![v] = row]
        /\ handler' = [handler EXCEPT ![h].step = "indexing", ![h].new = v,
                                      ![h].ok = TRUE]
        /\ asset' = [asset EXCEPT ![a] = "live"]
        /\ UNCHANGED <<index, register, regime>>
  BY DEF CommitCreate, At
<1>2. /\ old \in HandlerType /\ OwnSound(h) /\ handler \in [Handlers -> HandlerType]
      /\ StepSound(h) /\ OwnAsset(h) /\ a \in Assets /\ asset[a] = "none"
  BY <1>1, HandlerKnown DEF OwnSound, IndInv, TypeOK, StepSound, OwnAsset
<1>3. /\ version[v] = NoRow /\ v # 0
      /\ \A o \in Handlers : handler[o].new # v
  BY <1>1, ConstantsAssumption DEF Fresh
<1>4. /\ handler'[h] \in HandlerType
      /\ handler'[h].step = "indexing" /\ handler'[h].new = v
      /\ handler'[h].op = old.op /\ handler'[h].asset = old.asset
      /\ handler'[h].base = old.base /\ handler'[h].row = old.row
      /\ handler'[h].doomed = old.doomed
      /\ handler'[h].page = old.page /\ handler'[h].pages = old.pages
      /\ \A o \in Handlers \ {h} : handler'[o] = handler[o]
  BY <1>1, <1>2 DEF HandlerType, Steps
<1>5. handler' = [handler EXCEPT ![h] = handler'[h]]
  BY <1>1, <1>2
<1>6. /\ row \in RowType /\ row.asset = a /\ row.baseline = 1 /\ row # NoRow
      /\ ~ row.detached
  BY <1>2, ConstantsAssumption DEF Row, RowType, Status, NoRow
<1> HIDE DEF row
<1>7. StepOf(h, handler'[h])
  BY <1>1, <1>3, <1>4, <1>5 DEF StepOf, IndInv, TypeOK
<1>8. Writes(h)
  BY <1>1, <1>2, <1>3, <1>6 DEF Writes, IndInv, TypeOK
<1>9. ASSUME NEW u \in Versions PROVE RowSound(u)'
  <2>1. RowSound(u) /\ asset' \in [Assets -> {"none", "live", "deleted"}]
    BY <1>8 DEF IndInv, Writes
  <2>2. asset'[a] = "live" /\ \A b \in Assets \ {a} : asset'[b] = asset[b]
    BY <1>1, <1>2 DEF IndInv, TypeOK
  <2>3. version'[u] = IF u = v THEN row ELSE version[u]
    BY <1>1 DEF IndInv, TypeOK
  <2>4. QED
    BY <1>2, <1>6, <2>1, <2>2, <2>3 DEF RowSound, NoRow
<1>10. StepSound(h)'
  BY <1>1, <1>2, <1>3, <1>4 DEF StepSound, LogSources
<1>11. OwnSound(h)'
  <2>1. \A u \in Versions : version[u].asset = a => u # v
    BY <1>2, <1>3, ConstantsAssumption DEF NoRow
  <2>2. \A u \in Versions \ {v} : version'[u] = version[u]
    BY <1>1 DEF IndInv, TypeOK
  <2>3. old.base # 0 => old.base # v /\ old.base \in Versions
    BY <1>2, <2>1 DEF OwnSound, HandlerType
  <2>4. QED
    BY <1>1, <1>2, <1>4, <1>10, <2>1, <2>2, <2>3 DEF OwnSound, EntitySound, Rows
<1>12. QED
  BY <1>7, <1>8, <1>9, <1>11, Frame

LEMMA ImportStep ==
  ASSUME IndInv, NEW h \in Handlers, CommitImport(h)
  PROVE  IndInv'
<1> DEFINE old == handler[h]
           a == old.asset
           row == Row(a, 1, "inService")
<1>1. /\ old.step = "open" /\ old.op = "import"
      /\ version' = [version EXCEPT ![old.new] = row]
      /\ handler' = [handler EXCEPT ![h] = Idle]
      /\ asset' = [asset EXCEPT ![a] = "live"]
      /\ UNCHANGED <<index, register, regime>>
  BY DEF CommitImport, At
<1>2. /\ OwnAsset(h) /\ a \in Assets /\ asset[a] = "none"
      /\ old.new \in Versions /\ version[old.new] = NoRow
      /\ \A o \in Handlers \ {h} : handler[o].new # old.new
  BY <1>1 DEF IndInv, TypeOK, StepSound, OwnAsset, NewSound, HandlerType
<1>3. /\ row \in RowType /\ row.asset = a /\ row.baseline = 1 /\ row # NoRow
      /\ ~ row.detached
  BY <1>2, ConstantsAssumption DEF Row, RowType, Status, NoRow
<1> HIDE DEF row
<1>4. Writes(h)
  BY <1>1, <1>2, <1>3 DEF Writes, IndInv, TypeOK
<1>5. ASSUME NEW u \in Versions PROVE RowSound(u)'
  <2>1. RowSound(u)
    BY DEF IndInv
  <2>2. asset'[a] = "live" /\ \A b \in Assets \ {a} : asset'[b] = asset[b]
    BY <1>1, <1>2 DEF IndInv, TypeOK
  <2>3. version'[u] = IF u = old.new THEN row ELSE version[u]
    BY <1>1 DEF IndInv, TypeOK
  <2>4. QED
    BY <1>2, <1>3, <2>1, <2>2, <2>3 DEF RowSound, NoRow
<1>6. QED
  BY <1>1, <1>4, <1>5, Ending

LEMMA UpdateStep ==
  ASSUME IndInv, NEW h \in Handlers, CommitUpdate(h)
  PROVE  IndInv'
<1> DEFINE old == handler[h]
           status == IF old.asset \in LogSources THEN "pending" ELSE "inService"
           row == Row(old.asset, NextBaseline(old.row), status)
           saved == [old.row EXCEPT !.archived = TRUE]
<1>1. /\ old.step = "open" /\ old.op = "update"
      /\ version' = [[version EXCEPT ![old.new] = row] EXCEPT ![old.base] = saved]
      /\ handler' = [handler EXCEPT ![h].step = "ending", ![h].ok = TRUE]
      /\ UNCHANGED <<asset, index, register, regime>>
  BY DEF CommitUpdate, At, SaveBase
<1>2. /\ old \in HandlerType /\ OwnSound(h) /\ handler \in [Handlers -> HandlerType]
      /\ StepSound(h) /\ EntitySound(h)
  BY HandlerKnown DEF OwnSound, IndInv, TypeOK
<1>3. /\ old.base # 0 /\ old.base \in Versions /\ old.asset \in Assets
      /\ old.row \in RowType /\ old.row.asset = old.asset
      /\ old.new # 0 /\ old.new \in Versions /\ version[old.new] = NoRow
      /\ \A o \in Handlers \ {h} : handler[o].new # old.new
  BY <1>1, <1>2 DEF StepSound, EntitySound, HandlerType, IndInv, NewSound
<1>4. /\ row \in RowType /\ row.asset = old.asset
      /\ row.baseline = old.row.baseline + 1 /\ row # NoRow
      /\ ~ row.detached
  <2>1. old.row.baseline + 1 \in Nat
    BY <1>3 DEF RowType
  <2>2. QED
    BY <1>3, <2>1, ConstantsAssumption DEF Row, RowType, Status, NoRow, NextBaseline
<1>5. /\ saved \in RowType /\ saved.asset = old.row.asset
      /\ saved.baseline = old.row.baseline
      /\ saved.detached => asset[saved.asset] = "deleted"
  BY <1>2, <1>3 DEF RowType, EntitySound
<1> HIDE DEF row, saved
<1>6. /\ version[old.base] # NoRow /\ saved # NoRow
      /\ saved.asset = version[old.base].asset
      /\ saved.baseline = version[old.base].baseline
  BY <1>3, <1>5, SavedRow
<1>7. /\ old.base # old.new
      /\ \A u \in Versions : version'[u] =
           CASE u = old.base -> saved [] u = old.new -> row [] OTHER -> version[u]
  BY <1>1, <1>3, <1>6 DEF IndInv, TypeOK
<1>8. MovesTo(h, "ending", old.page, old.doomed)
  BY <1>1, <1>2 DEF MovesTo, HandlerType, Steps
<1>9. StepOf(h, handler'[h])
  <2>1. handler' = [handler EXCEPT ![h] = handler'[h]]
    BY <1>2, <1>8 DEF MovesTo
  <2>2. QED
    BY <1>1, <1>8, <2>1 DEF StepOf, MovesTo, IndInv, TypeOK
<1>10. Writes(h)
  <2>1. version' \in [Versions -> RowType]
    BY <1>1, <1>4, <1>5 DEF IndInv, TypeOK
  <2>2. QED
    BY <1>1, <1>3, <1>6, <1>7, <2>1 DEF Writes, IndInv, TypeOK
<1>11. ASSUME NEW u \in Versions PROVE RowSound(u)'
  <2>1. RowSound(u) /\ RowSound(old.base)
    BY <1>3 DEF IndInv
  <2>2. asset' = asset
    BY <1>1
  <2>3. saved.baseline >= 1 /\ saved.asset \in Assets /\ asset[saved.asset] # "none"
    BY <1>6, <2>1 DEF RowSound
  <2>4. row.baseline >= 1 /\ row.asset \in Assets /\ asset[row.asset] # "none"
    BY <1>3, <1>4, <1>5, <2>3 DEF RowType
  <2>5. QED
    BY <1>4, <1>5, <1>7, <2>1, <2>2, <2>3, <2>4 DEF RowSound
<1>12. StepSound(h)'
  BY <1>1, <1>2, <1>8 DEF StepSound, LogSources, MovesTo
<1>13. OwnSound(h)'
  <2>1. \A u \in Versions : version[u].asset = old.asset =>
          version'[u].asset = version[u].asset /\ version'[u].baseline = version[u].baseline
    BY <1>3, <1>6, <1>7, ConstantsAssumption DEF NoRow
  <2>2. asset' = asset
    BY <1>1
  <2>3. QED
    BY <1>2, <1>3, <1>8, <1>12, <2>1, <2>2 DEF OwnSound, EntitySound, Rows, MovesTo
<1>14. QED
  BY <1>9, <1>10, <1>11, <1>13, Frame

\* A handler that goes on after writing rows.
LEMMA WritingOn ==
  ASSUME IndInv, NEW h \in Handlers, NEW step \in Steps \ {"open"},
         NEW doomed \in SUBSET handler[h].doomed,
         MovesTo(h, step, handler[h].page, doomed),
         Writes(h), \A v \in Versions : RowSound(v)',
         index' = index, register' = register, regime' = regime,
         StepSound(h)'
  PROVE  IndInv'
<1>1. /\ OwnSound(h) /\ handler[h] \in HandlerType
      /\ handler[h].base # 0 => version[handler[h].base] # NoRow
  BY HandlerKnown
<1>2. handler' = [handler EXCEPT ![h] = handler'[h]]
  BY DEF MovesTo, IndInv, TypeOK
<1>3. StepOf(h, handler'[h])
  BY <1>2 DEF StepOf, MovesTo, IndInv, TypeOK
<1>4. doomed \subseteq Rows(handler[h].asset)'
  <2>1. doomed # {} => handler[h].asset \in Assets
    BY DEF IndInv, StepSound
  <2>2. SUFFICES ASSUME NEW v \in doomed
                 PROVE  v \in Versions /\ version'[v].asset = handler[h].asset
    BY DEF Rows, MovesTo
  <2>3. v \in Versions /\ version[v].asset = handler[h].asset
    BY <1>1 DEF OwnSound, Rows
  <2>4. QED
    BY <2>1, <2>3, ConstantsAssumption DEF Writes, NoRow
<1>5. EntitySound(h)'
  <2>1. handler[h].base \in Versions \cup {0}
    BY <1>1 DEF HandlerType
  <2>2. QED
    BY <1>1, <2>1 DEF EntitySound, MovesTo, Writes, OwnSound
<1>6. OwnSound(h)'
  <2>1. handler'[h].doomed = doomed /\ handler'[h].asset = handler[h].asset
    BY DEF MovesTo
  <2>2. /\ handler'[h].step # "open"
        /\ handler'[h].page <= handler'[h].pages
    BY <1>1 DEF OwnSound, MovesTo
  <2>3. QED
    BY <1>4, <1>5, <2>1, <2>2 DEF OwnSound, EntitySound, Rows
<1>7. QED
  BY <1>3, <1>6, Frame

\* The statements of a removal.
LEMMA RemovalSteps ==
  ASSUME IndInv, NEW h \in Handlers, DeleteAsset(h) \/ DeleteVersions(h)
  PROVE  IndInv'
<1> DEFINE old == handler[h]
<1>1. /\ old \in HandlerType /\ OwnSound(h) /\ StepSound(h)
      /\ asset \in [Assets -> {"none", "live", "deleted"}]
      /\ version \in [Versions -> RowType]
      /\ handler \in [Handlers -> HandlerType]
  BY HandlerKnown DEF OwnSound, IndInv, TypeOK
<1>2. {"finding", "ending"} \subseteq Steps \ {"open"}
  BY DEF Steps
<1>3. CASE DeleteAsset(h)
  <2>1. /\ MovesTo(h, "finding", old.page, old.doomed)
        /\ old.step = "removing" /\ old.asset \in Assets
        /\ asset' = [asset EXCEPT ![old.asset] = "deleted"]
        /\ UNCHANGED <<version, index, register, regime>>
    BY <1>1, <1>2, <1>3, Stepping DEF DeleteAsset, At, StepSound
  <2>2. Writes(h)
    BY <1>1, <2>1 DEF Writes, NoRow
  <2>3. \A v \in Versions : RowSound(v)'
    <3>1. \A a \in Assets : asset[a] # "none" => asset'[a] # "none"
      BY <1>1, <2>1
    <3>2. QED
      BY <2>1, <3>1 DEF RowSound, IndInv, NoRow
  <2>4. StepSound(h)'
    BY <1>1, <2>1 DEF StepSound, MovesTo, LogSources
  <2>5. QED
    BY <1>2, <2>1, <2>2, <2>3, <2>4, WritingOn
<1>4. CASE DeleteVersions(h)
  <2>1. /\ old.step = "deleting"
        /\ version' = [v \in Versions |->
                         IF v \in old.doomed
                         THEN [version[v] EXCEPT !.deleted = TRUE] ELSE version[v]]
        /\ handler' = [handler EXCEPT ![h].step = "ending", ![h].ok = TRUE]
        /\ UNCHANGED <<asset, index, register, regime>>
    BY <1>4 DEF DeleteVersions, At
  <2>2. MovesTo(h, "ending", old.page, old.doomed)
    BY <1>1, <1>2, <2>1 DEF MovesTo, HandlerType
  <2>3. ASSUME NEW v \in Versions
        PROVE  /\ version'[v] \in RowType
               /\ version'[v].asset = version[v].asset
               /\ version'[v].baseline = version[v].baseline
               /\ version'[v].detached = version[v].detached
               /\ version[v] = NoRow => version'[v] = NoRow
    <3>1. version[v] \in RowType
      BY <1>1
    <3>2. version[v] = NoRow => v \notin old.doomed
      <4>1. old.doomed # {} => old.asset \in Assets
        BY <1>1 DEF StepSound
      <4>2. v \in old.doomed => version[v].asset = old.asset
        BY <1>1 DEF OwnSound, Rows
      <4>3. QED
        BY <4>1, <4>2, ConstantsAssumption DEF NoRow
    <3>3. version'[v] = IF v \in old.doomed
                        THEN [version[v] EXCEPT !.deleted = TRUE] ELSE version[v]
      BY <2>1
    <3>4. QED
      BY <3>1, <3>2, <3>3 DEF RowType
  <2>4. Writes(h)
    BY <1>1, <2>1, <2>3 DEF Writes
  <2>5. ASSUME NEW v \in Versions PROVE RowSound(v)'
    <3>1. RowSound(v) /\ asset' = asset
      BY <2>1 DEF IndInv
    <3>2. QED
      BY <2>3, <3>1 DEF RowSound
  <2>6. StepSound(h)'
    BY <1>1, <2>1, <2>2 DEF StepSound, MovesTo, LogSources
  <2>7. QED
    BY <1>2, <2>1, <2>2, <2>4, <2>5, <2>6, WritingOn
<1>5. QED
  BY <1>3, <1>4

\* The save of an entity, and the deletion of a declined log source.
LEMMA StatusSteps ==
  ASSUME IndInv, NEW h \in Handlers, SaveStatus(h) \/ LandDeletion(h)
  PROVE  IndInv'
<1> DEFINE old == handler[h]
<1>1. /\ old \in HandlerType /\ OwnSound(h) /\ StepSound(h) /\ EntitySound(h)
      /\ asset \in [Assets -> {"none", "live", "deleted"}]
      /\ version \in [Versions -> RowType]
      /\ handler \in [Handlers -> HandlerType]
      /\ UNCHANGED <<asset, index, register, regime>>
  BY HandlerKnown DEF OwnSound, IndInv, TypeOK, SaveStatus, LandDeletion
<1>2. /\ old.base # 0 /\ old.base \in Versions /\ old.op = "status"
      /\ version[old.base] # NoRow /\ old.step # "open"
  BY <1>1, HandlerKnown DEF SaveStatus, LandDeletion, At, StepSound, HandlerType
<1>3. PICK row \in RowType :
        /\ version' = [version EXCEPT ![old.base] = row]
        /\ row.asset = old.row.asset /\ row.baseline = old.row.baseline
        /\ row.detached => asset[row.asset] = "deleted"
  <2>1. CASE SaveStatus(h)
    BY <1>1, <1>2, <2>1 DEF SaveStatus, HandlerType, EntitySound
  <2>2. CASE LandDeletion(h)
    <3> DEFINE row == [version[old.base] EXCEPT !.deleted = TRUE]
    <3>1. /\ row \in RowType /\ row.asset = version[old.base].asset
          /\ row.baseline = version[old.base].baseline
          /\ row.detached = version[old.base].detached
      BY <1>1, <1>2 DEF RowType
    <3>2. version' = [version EXCEPT ![old.base] = row]
      BY <2>2 DEF LandDeletion
    <3>3. QED
      BY <1>1, <1>2, <3>1, <3>2, RowKnown DEF EntitySound
  <2>3. QED
    BY <2>1, <2>2
<1>4. /\ row # NoRow /\ row.asset = version[old.base].asset
      /\ row.baseline = version[old.base].baseline
  BY <1>2, <1>3, SavedRow
<1>5. Writes(h)
  BY <1>1, <1>2, <1>3, <1>4 DEF Writes
<1>6. ASSUME NEW v \in Versions PROVE RowSound(v)'
  <2>1. RowSound(v) /\ RowSound(old.base)
    BY <1>2 DEF IndInv
  <2>2. version'[v] = IF v = old.base THEN row ELSE version[v]
    BY <1>1, <1>3
  <2>3. asset' = asset
    BY <1>1
  <2>4. QED
    BY <1>2, <1>3, <1>4, <2>1, <2>2, <2>3 DEF RowSound
<1>7. CASE handler' = [handler EXCEPT ![h] = Idle]
  BY <1>1, <1>5, <1>6, <1>7, Ending
<1>8. CASE SaveStatus(h) /\ GoTo(h, "landing")
  <2>1. "landing" \in Steps \ {"open"}
    BY DEF Steps
  <2>2. MovesTo(h, "landing", old.page, old.doomed)
    BY <1>8, <2>1, Stepping
  <2>3. StepSound(h)'
    BY <1>1, <1>2, <2>2 DEF StepSound, MovesTo, LogSources
  <2>4. QED
    BY <1>1, <1>5, <1>6, <2>1, <2>2, <2>3, WritingOn
<1>9. CASE handler' = [handler EXCEPT ![h] = [old EXCEPT !.doomed = {}]]
  <2>1. old.step \in Steps \ {"open"} /\ {} \in SUBSET old.doomed
    BY <1>1, <1>2 DEF HandlerType
  <2>2. MovesTo(h, old.step, old.page, {})
    BY <1>1, <1>9 DEF MovesTo, HandlerType
  <2>3. StepSound(h)'
    BY <1>1, <1>2, <2>2 DEF StepSound, MovesTo, LogSources
  <2>4. QED
    BY <1>1, <1>5, <1>6, <2>1, <2>2, <2>3, WritingOn
<1>10. QED
  BY <1>7, <1>8, <1>9 DEF SaveStatus, LandDeletion

-----------------------------------------------------------------------------
(* The theorems.                                                           *)

LEMMA InitSound == Init => IndInv
<1> SUFFICES ASSUME Init PROVE IndInv
  OBVIOUS
<1>1. /\ Idle.new = 0 /\ Idle.base = 0 /\ Idle.doomed = {}
      /\ Idle.asset = "none" /\ Idle.page = 0 /\ Idle.pages = 0
      /\ Idle.op = "none" /\ Idle.step = "idle"
  BY DEF Idle
<1>2. \A h \in Handlers : handler[h] = Idle
  BY DEF Init
<1>3. \A v \in Versions : RowSound(v)
  BY DEF Init, RowSound
<1>4. \A h \in Handlers : EntitySound(h) /\ NewSound(h) /\ StepSound(h)
  BY <1>1, <1>2 DEF EntitySound, NewSound, StepSound
<1>5. ~ NoRow.detached
  BY DEF NoRow
<1>6. TypeOK
  BY <1>1, <1>2, <1>5, IdleType DEF Init, TypeOK
<1>7. QED
  BY <1>3, <1>4, <1>6 DEF IndInv

LEMMA StepKeepsInv == IndInv /\ [Next]_vars => IndInv'
<1> SUFFICES ASSUME IndInv, [Next]_vars PROVE IndInv'
  OBVIOUS
<1>1. ASSUME NEW h \in Handlers, Creating(h) PROVE IndInv'
  BY <1>1, BeginCreate, QuietSteps, CreateStep, BeginImport, ImportStep DEF Creating
<1>2. ASSUME NEW h \in Handlers, Updating(h) PROVE IndInv'
  BY <1>2, BeginUpdate, OpenStep, EndingSteps, UpdateStep DEF Updating
<1>3. ASSUME NEW h \in Handlers, Removing(h) PROVE IndInv'
  BY <1>3, BeginRemoval, RemovalSteps, QuietSteps DEF Removing
<1>4. ASSUME NEW h \in Handlers, ChangingStatus(h) PROVE IndInv'
  BY <1>4, BeginStatus, QuietSteps, StatusSteps DEF ChangingStatus
<1>5. ASSUME NEW h \in Handlers, Reindexing(h) PROVE IndInv'
  BY <1>5, BeginReindex, QuietSteps DEF Reindexing
<1>6. ASSUME NEW h \in Handlers, Log(h) \/ Fail(h) PROVE IndInv'
  BY <1>6, EndingSteps
<1>7. CASE UNCHANGED vars
  BY <1>7 DEF vars, IndInv, TypeOK, RowSound, EntitySound, NewSound, StepSound,
              OwnAsset, Rows, LogSources
<1>8. QED
  BY <1>1, <1>2, <1>3, <1>4, <1>5, <1>6, <1>7 DEF Next

LEMMA Invariance == Spec => []IndInv
BY InitSound, StepKeepsInv, PTL DEF Spec

\* The tables and what the handlers hold of them keep their types, and the
\* entity a handler read, like the versions it is going to delete, is of the
\* asset it works on, for any number of assets, versions and handlers.
THEOREM Typing == Spec => []TypeOK
<1>1. IndInv => TypeOK
  BY DEF IndInv
<1>2. QED
  BY <1>1, Invariance, PTL
=============================================================================
