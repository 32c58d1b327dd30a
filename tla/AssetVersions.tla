--------------------------- MODULE AssetVersions ---------------------------
(***************************************************************************)
(* The assets of the service asset, their versions (baselines), the search *)
(* index kept beside the database and the external register of log         *)
(* sources, at the grain of database statements and external calls, with   *)
(* several handlers in flight.                                             *)
(*                                                                         *)
(* An update archives the version it starts from and inserts the next one, *)
(* in one READ COMMITTED transaction; but it reads that version before the *)
(* transaction, and saves it as a whole afterwards: TypeORM's save compares*)
(* the entity with the row as it is by then and writes every column that   *)
(* differs, deletedAt included.  Statements outside a transaction (those   *)
(* of remove and of changeAssetStatus) commit one by one.                  *)
(*                                                                         *)
(* A handler may throw, or its process crash, at any step (Fail).          *)
(***************************************************************************)
EXTENDS Naturals, FiniteSets

CONSTANTS
  Assets,      \* the assets
  Handlers,    \* the HTTP handlers that may be in flight together
  Versions,    \* the ids of version rows, numbered in order of creation
  PageSize,    \* the page of indexAllAssetsToElasticsearch (100 in the code)
  Regimes      \* what is settled at the start: which assets are of a type
               \* with the classification LogSource, how many handlers the
               \* clients keep in flight, how many version ids may be used

ASSUME ConstantsAssumption ==
  /\ "none" \notin Assets
  /\ Versions \subseteq Nat \ {0} /\ IsFiniteSet(Versions)
  /\ PageSize \in Nat \ {0}
  /\ Regimes \subseteq [ logSources : SUBSET Assets, handlers : Nat,
                         versions : Nat ]

VARIABLES
  asset,     \* the rows of table asset: "none", "live" or soft-"deleted"
  version,   \* the rows of table asset_version
  index,     \* the versions with an Elasticsearch document not archived
  register,  \* what the log source service was told of each asset
  handler,   \* local variables of each handler
  regime     \* one of Regimes; never changes

vars == <<asset, version, index, register, handler, regime>>

LogSources == regime.logSources

Status == {"inService", "pending", "approved", "declined"}

\* A row belongs to the asset it was inserted for, unless it is detached since:
\* its assetId is NULL.
Row(a, baseline, status) ==
  [ asset |-> a, baseline |-> baseline, status |-> status,
    archived |-> FALSE, deleted |-> FALSE, detached |-> FALSE ]

NoRow == [ asset |-> "none", baseline |-> 0, status |-> "inService",
           archived |-> FALSE, deleted |-> TRUE, detached |-> FALSE ]

RowType ==
  [ asset : Assets \cup {"none"}, baseline : Nat, status : Status,
    archived : BOOLEAN, deleted : BOOLEAN, detached : BOOLEAN ]

\* The rows a query sees (TypeORM hides the soft-deleted), and the current ones.
Rows(a) == { v \in Versions : version[v].asset = a }
Live(a) == { v \in Rows(a) : ~ version[v].deleted }
Current(a) == { v \in Live(a) : ~ version[v].archived }
Attached(a) == { v \in Live(a) : ~ version[v].detached }
AllCurrent == UNION { Current(a) : a \in Assets }

-----------------------------------------------------------------------------
(***************************************************************************)
(* A handler.  "row" is the entity of version "base" as it read it, "new"  *)
(* the version it inserts, "doomed" the versions it is going to delete,    *)
(* "page" the next of its "pages" to index, and "ok" its logStatus.        *)
(***************************************************************************)
Steps ==
  { "idle", "registering", "creating", "indexing", "read", "open", "removing", "finding", "deleting", "deciding",
    "saving", "landing", "reindexing", "ending" }

HandlerType ==
  [ step : Steps, op : {"none", "create", "import", "update", "remove",
                        "status", "reindex"},
    asset : Assets \cup {"none"}, base : Versions \cup {0}, row : RowType,
    new : Versions \cup {0}, doomed : SUBSET Versions, page : Nat,
    pages : Nat, ok : BOOLEAN ]

Idle == [ step |-> "idle", op |-> "none", asset |-> "none", base |-> 0,
          row |-> NoRow, new |-> 0, doomed |-> {}, page |-> 0, pages |-> 0,
          ok |-> FALSE ]

TypeOK ==
  /\ asset \in [Assets -> {"none", "live", "deleted"}]
  /\ version \in [Versions -> RowType]
  /\ index \subseteq Versions
  /\ register \in [Assets -> SUBSET {"created", "approved", "declined"}]
  /\ handler \in [Handlers -> HandlerType]
  /\ regime \in Regimes
  /\ \A h \in Handlers :
       /\ handler[h].base # 0 => version[handler[h].base].asset = handler[h].asset
       /\ handler[h].doomed \subseteq Rows(handler[h].asset)
       /\ handler[h].page <= handler[h].pages
  /\ \A v \in Versions :
       version[v].detached => asset[version[v].asset] = "deleted"

Init ==
  /\ asset = [a \in Assets |-> "none"]
  /\ version = [v \in Versions |-> NoRow]
  /\ index = {}
  /\ register = [a \in Assets |-> {}]
  /\ handler = [h \in Handlers |-> Idle]
  /\ regime \in Regimes

InFlight == { h \in Handlers : handler[h].step # "idle" }

\* The id an INSERT draws: one that is in use nowhere.
Fresh(v) ==
  LET free == { u \in Versions : /\ u <= regime.versions
                                 /\ version[u] = NoRow
                                 /\ u \notin index
                                 /\ \A h \in Handlers : handler[h].new # u }
  IN  v \in free /\ \A u \in free : v <= u

Start(h, record) ==
  /\ handler[h].step = "idle"
  /\ Cardinality(InFlight) < regime.handlers
  /\ handler' = [handler EXCEPT ![h] = record]

At(h, step) == handler[h].step = step

GoTo(h, step) == handler' = [handler EXCEPT ![h].step = step]

-----------------------------------------------------------------------------
(* AssetService.create, createFromFile.                                    *)

\* An asset nobody created or registered: each call makes one of its own.
New(a) == /\ asset[a] = "none" /\ register[a] = {}
          /\ \A h \in Handlers : handler[h].asset # a

Create(h) ==
  /\ \E a \in Assets :
       /\ New(a)
       /\ Start(h, [ Idle EXCEPT !.op = "create", !.asset = a,
                       !.step = IF a \in LogSources THEN "registering"
                                ELSE "creating" ])
  /\ UNCHANGED <<asset, version, index, register, regime>>

\* A log source is registered before anything is in the database.
Register(h) ==
  /\ At(h, "registering")
  /\ register' = [register EXCEPT ![handler[h].asset] = {"created"}]
  /\ GoTo(h, "creating")
  /\ UNCHANGED <<asset, version, index, regime>>

\* The transaction of createAssetWithVersions.
CommitCreate(h) ==
  LET a == handler[h].asset IN
  /\ At(h, "creating")
  /\ \E v \in Versions :
       /\ Fresh(v)
       /\ version' = [version EXCEPT ![v] =
            Row(a, 1, IF a \in LogSources THEN "pending" ELSE "inService")]
       /\ handler' = [handler EXCEPT ![h].step = "indexing", ![h].new = v,
                                     ![h].ok = TRUE]
  /\ asset' = [asset EXCEPT ![a] = "live"]
  /\ UNCHANGED <<index, register, regime>>

\* It is indexed afterwards; an error is printed and forgotten.
IndexCreated(h) ==
  /\ At(h, "indexing")
  /\ index' \in {index, index \cup {handler[h].new}}
  /\ GoTo(h, "ending")
  /\ UNCHANGED <<asset, version, register, regime>>

\* createAssetWithVersionsFromFile: neither registered nor logged, and
\* indexed inside the transaction.
Import(h) ==
  /\ \E a \in Assets, v \in Versions :
       /\ New(a)
       /\ Fresh(v)
       /\ Start(h, [ Idle EXCEPT !.op = "import", !.asset = a, !.new = v,
                                 !.step = "open" ])
       /\ index' \in {index, index \cup {v}}
  /\ UNCHANGED <<asset, version, register, regime>>

CommitImport(h) ==
  LET a == handler[h].asset IN
  /\ At(h, "open") /\ handler[h].op = "import"
  /\ asset' = [asset EXCEPT ![a] = "live"]
  /\ version' = [version EXCEPT ![handler[h].new] = Row(a, 1, "inService")]
  /\ handler' = [handler EXCEPT ![h] = Idle]
  /\ UNCHANGED <<index, register, regime>>

-----------------------------------------------------------------------------
(* AssetRepository.updateTransaction.                                      *)

\* Mutant of Readable: soft-deleted rows are found too.
ReadableDeleted(v) == version[v] # NoRow

Readable(v) == version[v] # NoRow /\ ~ version[v].deleted

\* Any version may be the base, an archived one too, if the row of its asset is
\* joined to it.
ReadBase(h) ==
  /\ \E v \in Versions :
       /\ Readable(v) /\ asset[version[v].asset] = "live"
       /\ Start(h, [ Idle EXCEPT !.op = "update", !.asset = version[v].asset,
                       !.base = v, !.row = version[v], !.step = "read" ])
  /\ UNCHANGED <<asset, version, index, register, regime>>

\* An open update holds the row of its asset.
Locked(a) == \E o \in Handlers : /\ handler[o].op = "update"
                                 /\ handler[o].step = "open"
                                 /\ handler[o].asset = a

\* What the index may hold after an update wrote to it: the document of the
\* new version, then that of the old one; the first error ends it, unnoticed.
Indexed(base, new) ==
  { index, index \cup {new}, (index \cup {new}) \ {base} }

\* Mutant of Open: the old version is archived by a statement of its own.
OpenArchives(h) ==
  /\ At(h, "read")
  /\ version' = [version EXCEPT ![handler[h].base].archived = TRUE]
  /\ \E v \in Versions :
       /\ Fresh(v)
       /\ handler' = [handler EXCEPT ![h].step = "open", ![h].new = v]
       /\ index' \in Indexed(handler[h].base, v)
  /\ UNCHANGED <<asset, register, regime>>

\* UPDATE asset, INSERT asset_version, and the index before the commit.
Open(h) ==
  /\ At(h, "read")
  /\ ~ Locked(handler[h].asset)
  /\ \E v \in Versions :
       /\ Fresh(v)
       /\ handler' = [handler EXCEPT ![h].step = "open", ![h].new = v]
       /\ index' \in Indexed(handler[h].base, v)
  /\ UNCHANGED <<asset, version, register, regime>>

\* Nothing to change, or only relations, which are not modelled: the versions
\* stay, and the log says FAILED or names the old baseline.
LeaveVersions(h) ==
  /\ At(h, "read")
  /\ handler' = [handler EXCEPT ![h] = Idle]
  /\ UNCHANGED <<asset, version, index, register, regime>>

\* Mutant of NextBaseline: parseInt is forgotten ("1" + 1 is "11").
NextBaselineAppended(row) == row.baseline * 10 + 1

NextBaseline(row) == row.baseline + 1

\* Mutant of SaveBase: the old version is not archived.
SaveBaseUnarchived(rows, h) == [rows EXCEPT ![handler[h].base] = handler[h].row]

\* save(oldAssetVersion), a whole stale entity: deletedAt and assetId are
\* written back too.
SaveBase(rows, h) ==
  [rows EXCEPT ![handler[h].base] = [handler[h].row EXCEPT !.archived = TRUE]]

CommitUpdate(h) ==
  LET me == handler[h]
      status == IF me.asset \in LogSources THEN "pending" ELSE "inService"
  IN
  /\ At(h, "open") /\ me.op = "update"
  /\ version' = SaveBase([version EXCEPT ![me.new] =
                            Row(me.asset, NextBaseline(me.row), status)], h)
  /\ handler' = [handler EXCEPT ![h].step = "ending", ![h].ok = TRUE]
  /\ UNCHANGED <<asset, index, register, regime>>

-----------------------------------------------------------------------------
(* AssetService.remove: three statements.                                  *)

Remove(h) ==
  /\ \E a \in Assets :
       /\ asset[a] # "none"
       /\ Start(h, [ Idle EXCEPT !.op = "remove", !.asset = a,
                                 !.step = "removing" ])
  /\ UNCHANGED <<asset, version, index, register, regime>>

DeleteAsset(h) ==
  /\ At(h, "removing")
  /\ ~ Locked(handler[h].asset)
  /\ asset' = [asset EXCEPT ![handler[h].asset] = "deleted"]
  /\ GoTo(h, "finding")
  /\ UNCHANGED <<version, index, register, regime>>

FindVersions(h) ==
  /\ At(h, "finding")
  /\ handler' = [handler EXCEPT ![h].step = "deleting",
                                ![h].doomed = Attached(handler[h].asset)]
  /\ UNCHANGED <<asset, version, index, register, regime>>

DeleteVersions(h) ==
  /\ At(h, "deleting")
  /\ version' = [v \in Versions |->
                   IF v \in handler[h].doomed
                   THEN [version[v] EXCEPT !.deleted = TRUE] ELSE version[v]]
  /\ handler' = [handler EXCEPT ![h].step = "ending", ![h].ok = TRUE]
  /\ UNCHANGED <<asset, index, register, regime>>

-----------------------------------------------------------------------------
(* AssetService.changeAssetStatus: reads a version, tells the register of  *)
(* log sources, and saves the entity it read, without await.               *)

\* (Where the register is not asked the status is free: "inService" stands for
\* those that no property tells apart.)
\* A log source that is joined to its asset is decided by the register;
\* Declined also deletes its version, without await.  When the row of the asset
\* is deleted the join gives null: the register is not asked, and the save
\* writes the null to assetId.
ReadForStatus(h) ==
  /\ \E v \in Versions, status \in {"inService", "approved", "declined"} :
       LET a == version[v].asset
           joined == asset[a] = "live"
           asked == joined /\ a \in LogSources
       IN
       /\ Readable(v)
       /\ asked => status \in {"approved", "declined"}
       /\ a \notin LogSources => status = "inService"
       /\ Start(h, [ Idle EXCEPT !.op = "status", !.asset = a, !.base = v,
            !.row = [version[v] EXCEPT !.status = status, !.detached = ~ joined],
            !.step = IF asked THEN "deciding" ELSE "saving",
            !.doomed = IF asked /\ status = "declined" THEN {v} ELSE {} ])
  /\ UNCHANGED <<asset, version, index, register, regime>>

\* Mutant of Decide: an error of the register is passed over.
DecideAnyway(h) ==
  /\ At(h, "deciding")
  /\ GoTo(h, "saving")
  /\ UNCHANGED <<asset, version, index, register, regime>>

\* The register knows the asset; otherwise the call fails (Fail).
Decide(h) ==
  LET me == handler[h] IN
  /\ At(h, "deciding")
  /\ "created" \in register[me.asset]
  /\ register' = [register EXCEPT ![me.asset] = @ \cup {me.row.status}]
  /\ GoTo(h, "saving")
  /\ UNCHANGED <<asset, version, index, regime>>

\* The save may land before the deletion of Declined or after it, which it
\* then undoes.
SaveStatus(h) ==
  LET me == handler[h] IN
  /\ At(h, "saving")
  /\ version' = [version EXCEPT ![me.base] = me.row]
  /\ IF me.doomed = {} THEN handler' = [handler EXCEPT ![h] = Idle]
     ELSE GoTo(h, "landing")
  /\ UNCHANGED <<asset, index, register, regime>>

LandDeletion(h) ==
  LET me == handler[h] IN
  /\ me.op = "status" /\ me.doomed # {}
  /\ version' = [version EXCEPT ![me.base].deleted = TRUE]
  /\ handler' = [handler EXCEPT ![h] =
                   IF me.step = "landing" THEN Idle
                   ELSE [me EXCEPT !.doomed = {}]]
  /\ UNCHANGED <<asset, index, register, regime>>

-----------------------------------------------------------------------------
(* AssetService.indexAllAssetsToElasticsearch, for one type.               *)

Pages(n) == (n + PageSize - 1) \div PageSize

\* delete, create, count.
Reindex(h) ==
  /\ Start(h, [ Idle EXCEPT !.op = "reindex", !.step = "reindexing", !.ok = TRUE,
                            !.pages = Pages(Cardinality(AllCurrent)) ])
  /\ index' = {}
  /\ UNCHANGED <<asset, version, register, regime>>

\* Mutant of Page: pages are counted from one.
PageFromOne(n) ==
  { v \in AllCurrent :
      Cardinality({ u \in AllCurrent : u > v }) \div PageSize = n + 1 }

\* The n-th page, newest first: skip 100 * n, take 100.
Page(n) ==
  { v \in AllCurrent :
      Cardinality({ u \in AllCurrent : u > v }) \div PageSize = n }

\* Mutant of IndexPage: the loop runs once more.
IndexPageAgain(h) ==
  LET me == handler[h] IN
  /\ At(h, "reindexing") /\ me.page <= me.pages
  /\ index' = index \cup Page(me.page)
  /\ handler' = [handler EXCEPT ![h].page = @ + 1]
  /\ UNCHANGED <<asset, version, register, regime>>

\* A bulk request; when it fails it is passed over.
IndexPage(h) ==
  LET me == handler[h] IN
  /\ At(h, "reindexing") /\ me.page < me.pages
  /\ \/ /\ index' = index \cup Page(me.page)
        /\ handler' = [handler EXCEPT ![h].page = @ + 1]
     \/ /\ handler' = [handler EXCEPT ![h].page = @ + 1, ![h].ok = FALSE]
        /\ UNCHANGED index
  /\ UNCHANGED <<asset, version, register, regime>>

EndReindex(h) ==
  /\ At(h, "reindexing") /\ handler[h].page = handler[h].pages
  /\ GoTo(h, "ending")
  /\ UNCHANGED <<asset, version, index, register, regime>>

-----------------------------------------------------------------------------
\* The finally block, which logs.
Log(h) ==
  /\ At(h, "ending")
  /\ handler' = [handler EXCEPT ![h] = Idle]
  /\ UNCHANGED <<asset, version, index, register, regime>>

\* An exception or a crash: an open transaction rolls back, what was committed,
\* indexed or registered stays, and no SUCCESS is logged.  A deletion that
\* was not awaited may still land.
Fail(h) ==
  LET me == handler[h] IN
  /\ me.step # "idle"
  /\ \/ handler' = [handler EXCEPT ![h] = Idle]
     \/ me.op = "status" /\ me.doomed # {} /\ GoTo(h, "landing")
  /\ UNCHANGED <<asset, version, index, register, regime>>

Creating(h) ==
  \/ Create(h) \/ Register(h) \/ CommitCreate(h) \/ IndexCreated(h)
  \/ Import(h) \/ CommitImport(h)

Updating(h) ==
  \/ ReadBase(h) \/ Open(h) \/ LeaveVersions(h) \/ CommitUpdate(h)

Removing(h) ==
  \/ Remove(h) \/ DeleteAsset(h) \/ FindVersions(h) \/ DeleteVersions(h)

ChangingStatus(h) ==
  \/ ReadForStatus(h) \/ Decide(h) \/ SaveStatus(h) \/ LandDeletion(h)

Reindexing(h) == Reindex(h) \/ IndexPage(h) \/ EndReindex(h)

Next == \E h \in Handlers :
  \/ Creating(h) \/ Updating(h) \/ Removing(h) \/ ChangingStatus(h)
  \/ Reindexing(h) \/ Log(h) \/ Fail(h)

Spec == Init /\ [][Next]_vars

-----------------------------------------------------------------------------
(* What stays true however the handlers overlap and fail.                  *)

\* The baselines of an asset (what getAssetArchives lists, plus the deleted
\* ones) are 1, 2, ... without a gap: a rolled back update uses none up, and
\* overlapping updates repeat one rather than skip one.  (Versions of a deleted
\* asset may be detached from it.)
BaselinesHaveNoGap ==
  \A a \in Assets : \A v \in Rows(a) :
    asset[a] = "live" /\ version[v].baseline > 1 =>
      \E u \in Rows(a) : version[u].baseline + 1 = version[v].baseline

\* An asset that was not removed is never without a current version: the new
\* version is inserted and the old one archived at once, and no stale entity
\* that is saved archives another one.  (A declined log source loses its.)
LiveAssetHasCurrent ==
  \A a \in Assets \ LogSources : asset[a] = "live" => Current(a) # {}

\* A step that gives an asset one more current version, which the unique
\* index on the baseline does not prevent, is made by a handler that read its
\* version before another handler archived or deleted it, or was given an
\* archived one.
ForksOnlyFromStaleEntities ==
  [][ \A a \in Assets :
        /\ Current(a) # {}
        /\ Cardinality(Current(a)') > Cardinality(Current(a))
        => \E h \in Handlers :
             /\ handler[h].asset = a /\ handler[h].step \in {"open", "saving"}
             /\ handler[h].base \notin Current(a) ]_vars

\* Nobody holds an entity of the asset, whose rows are all deleted.
Gone(a) ==
  /\ asset[a] = "deleted"
  /\ Live(a) = {}
  /\ \A h \in Handlers : handler[h].asset = a => handler[h].op = "remove"

\* Once the last handler that read a version of an asset before its removal is
\* done, the asset and its versions never come back.  (While one is in
\* flight they may: it saves an entity whose deletedAt is null.)
RemovedStaysRemoved == [][ \A a \in Assets : Gone(a) => Gone(a)' ]_vars

\* While the row of its asset is there, a version of a log source is approved
\* here only after the register approved it, whatever stale entity is saved over
\* it; the next version is back to pending.  (Once the row is deleted a version
\* that is left is approved without a call.)
ApprovedIsApprovedThere ==
  \A v \in Versions :
    LET a == version[v].asset IN
    a \in LogSources /\ version[v].status = "approved" /\ asset[a] = "live"
      => "approved" \in register[a]

\* Without overlap, a reindexing whose bulk requests all succeed ends with
\* exactly the current versions searchable, whatever earlier handlers left in
\* the index: documents of rolled back versions, missing or archived ones.
QuietReindexRestores ==
  \A h \in Handlers :
    regime.handlers = 1 /\ handler[h].op = "reindex" /\ At(h, "ending") /\ handler[h].ok
      => index = AllCurrent
=============================================================================
