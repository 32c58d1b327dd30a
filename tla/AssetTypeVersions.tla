------------------------- MODULE AssetTypeVersions -------------------------
(***************************************************************************)
(* Asset types of the service asset: their versions and the relations      *)
(* between versions.  Nothing here is a transaction: create, update and    *)
(* remove are sequences of statements that commit one by one, with other   *)
(* editors in between, and may end after any of them.                      *)
(***************************************************************************)
EXTENDS Naturals, FiniteSets, FiniteSetsExt

CONSTANTS
  Types,          \* the asset types
  TypeVersionIds, \* the ids of their versions, numbered in order of createdAt
  Editors,        \* the handlers that may be in flight together
  Kinds,          \* the asset relation types
  NoKind,
  InverseOf,      \* the kind of a relation's mirror image, or NoKind
  RowIds,         \* numbers to tell the rows of one relation apart
  ClientModes     \* what is settled at the start: how many handlers the clients
                  \* keep in flight, the highest version id that is used, the
                  \* pairs they list, how often create's list names one, and
                  \* what they call

ASSUME TypeConstantsAssumption ==
  /\ TypeVersionIds \subseteq Nat \ {0}
  /\ NoKind \notin Kinds /\ InverseOf \in [Kinds -> Kinds \cup {NoKind}]
  /\ RowIds \subseteq Nat
  /\ ClientModes \subseteq [ editors : Nat, room : Nat, repeats : 1..2,
                              listed : SUBSET (TypeVersionIds \X Kinds),
                              calls : SUBSET {"create", "place", "version", "remove"} ]

VARIABLES
  typeRow,      \* the rows of asset_type: "none", "live" or soft-"deleted"
  typeVersion,  \* the rows of asset_type_version
  relation,     \* the live rows of asset_type_relation:
                \* <<parent, child, kind, id>>
  editor,       \* local variables of each handler
  clients       \* one of ClientModes; never changes

typeVars == <<typeRow, typeVersion, relation, editor, clients>>

NoTypeVersion == [type |-> "none", number |-> 0, archived |-> FALSE, live |-> FALSE]

TypeVersionType == [ type : Types \cup {"none"}, number : Nat,
                     archived : BOOLEAN, live : BOOLEAN ]

LiveVersions(t) ==
  { v \in TypeVersionIds : typeVersion[v].type = t /\ typeVersion[v].live }

CurrentVersions(t) == { v \in LiveVersions(t) : ~ typeVersion[v].archived }

AllLiveVersions == { v \in TypeVersionIds : typeVersion[v].live }

\* A related pair as the client lists it: the other version and the kind.
Pairs == { p \in clients.listed : typeVersion[p[1]].live }

\* What a row says.  No index forbids two rows that say the same.
Keys == TypeVersionIds \X TypeVersionIds \X Kinds

KeyOf(row) == <<row[1], row[2], row[3]>>

KeysOf(rows) == { KeyOf(r) : r \in rows }

IdsIn(rows, k) == { r[4] : r \in { r \in rows : KeyOf(r) = k } }

Ids(k) == IdsIn(relation, k)

\* What the rows for version v are to say: each pair, and its mirror image.
\* A bidirectional kind is its own inverse, one of INVERSE_RELATION_MAP has that
\* of the map, and any other directional kind has none.
MirrorKey(k) == <<k[2], k[1], InverseOf[k[3]]>>

Desired(v, pairs) ==
  LET forward == { <<v, p[1], p[2]>> : p \in pairs }
  IN  forward \cup { MirrorKey(k) : k \in { k \in forward : InverseOf[k[3]] # NoKind } }

\* create leaves the kinds without an inverse out.
DesiredOfNew(v, pairs) == Desired(v, { p \in pairs : InverseOf[p[2]] # NoKind })

Touching(v) == { r \in relation : v \in {r[1], r[2]} }

-----------------------------------------------------------------------------
(***************************************************************************)
(* A handler.  "latest" is the version its update found, "version" the one *)
(* whose relations it replaces by "pairs" (if it "lists" any; the list of  *)
(* create may name them twice), "extra" the rows it is going to delete,    *)
(* "missing" what it is going to create (<<key, n>> for the n-th time the  *)
(* list names it), "unchecked" what create still looks for, and "found"    *)
(* the versions a removal looked up.  It is "overtaken" (history) once     *)
(* another handler wrote a row of its version after it began to look at    *)
(* them.                                                                   *)
(***************************************************************************)
EditorSteps == { "idle", "creating", "inserting", "updating", "listing",
                 "comparing", "reading", "deleting", "relating", "checking", "removing",
                 "vanishing", "done" }

NoEdit == [ step |-> "idle", op |-> "none", type |-> "none", latest |-> 0,
            version |-> 0, lists |-> 0, pairs |-> {}, unchecked |-> {},
            extra |-> {}, missing |-> {}, found |-> {}, overtaken |-> FALSE ]

Rows == TypeVersionIds \X TypeVersionIds \X Kinds \X Nat

TypesTypeOK ==
  /\ typeRow \in [Types -> {"none", "live", "deleted"}]
  /\ typeVersion \in [TypeVersionIds -> TypeVersionType]
  /\ relation \subseteq Rows
  /\ editor \in [Editors ->
       [ step : EditorSteps, op : {"none", "create", "place", "version", "remove"},
         type : Types \cup {"none"}, latest : TypeVersionIds \cup {0},
         version : TypeVersionIds \cup {0}, lists : 0..2,
         pairs : SUBSET (TypeVersionIds \X Kinds),
         unchecked : SUBSET (Keys \X (1..2)), extra : SUBSET Rows,
         missing : SUBSET (Keys \X (1..2)), found : SUBSET TypeVersionIds,
         overtaken : BOOLEAN ]]
  /\ clients \in ClientModes
  /\ \A e \in Editors :
       \A v \in ({editor[e].latest, editor[e].version} \ {0}) \cup editor[e].found :
         typeVersion[v].type = editor[e].type

TypesInit ==
  /\ typeRow = [t \in Types |-> "none"]
  /\ typeVersion = [v \in TypeVersionIds |-> NoTypeVersion]
  /\ relation = {}
  /\ editor = [e \in Editors |-> NoEdit]
  /\ clients \in ClientModes

BeginEdit(e, record) ==
  /\ editor[e].step = "idle"
  /\ record.op \in clients.calls
  /\ Cardinality({ o \in Editors : editor[o].step # "idle" }) < clients.editors
  /\ editor' = [editor EXCEPT ![e] = record]

Step(e, from) == editor[e].step = from

\* The next id: versions are created in the order of their ids.
NextId(v) ==
  LET free == { u \in TypeVersionIds : /\ u <= clients.room
                                       /\ typeVersion[u] = NoTypeVersion }
  IN  v \in free /\ \A u \in free : v <= u

-----------------------------------------------------------------------------
(* AssetTypeService.create.                                                *)

\* Lists at most one relation: others go the same way.
Lists(pairs) == Cardinality(pairs) <= 1

\* The check on code and name, then INSERT asset_type: the unique index on the
\* code refuses a second one.
CreateType(e) ==
  /\ \E t \in Types, lists \in 1..clients.repeats, pairs \in SUBSET Pairs :
       /\ typeRow[t] = "none"
       /\ Lists(pairs)
       /\ BeginEdit(e, [ NoEdit EXCEPT !.step = "creating", !.op = "create",
                           !.type = t, !.lists = lists, !.pairs = pairs ])
       /\ typeRow' = [typeRow EXCEPT ![t] = "live"]
  /\ UNCHANGED <<typeVersion, relation, clients>>

InsertVersion(t, number) ==
  \E v \in TypeVersionIds :
    /\ NextId(v)
    /\ typeVersion' = [typeVersion EXCEPT ![v] =
         [type |-> t, number |-> number, archived |-> FALSE, live |-> TRUE]]

InsertFirst(e) ==
  /\ Step(e, "creating")
  /\ InsertVersion(editor[e].type, 1)
  /\ \E v \in TypeVersionIds :
       /\ NextId(v)
       /\ editor' = [editor EXCEPT ![e].step = "listing", ![e].version = v]
  /\ UNCHANGED <<typeRow, relation, clients>>

-----------------------------------------------------------------------------
(* AssetTypeService.update.                                                *)

\* Mutants of Latest: the type is left out of the query, or the order is wrong.
LatestOfAny(t) == Max(AllLiveVersions)

LatestFirst(t) == Min(LiveVersions(t))

\* assetTypeVersions.sort(createdAt, newest first)[0]: archived or not.
Latest(t) == Max(LiveVersions(t))

\* It changes the latest version in place when the content stays and filters,
\* locations or relations change; else it makes a new version.
ReadType(e) ==
  /\ \E t \in Types, op \in {"place", "version"}, lists \in 0..1,
        pairs \in SUBSET Pairs :
       /\ typeRow[t] = "live" /\ LiveVersions(t) # {}
       /\ Lists(pairs) /\ (lists = 0 => pairs = {})
       /\ BeginEdit(e, [ NoEdit EXCEPT !.step = "updating", !.op = op, !.type = t,
                           !.latest = Latest(t), !.lists = lists, !.pairs = pairs ])
  /\ UNCHANGED <<typeRow, typeVersion, relation, clients>>

\* The type, then its latest version is updated in place, or archived: each is
\* read again first, and the update ends (EndEdit) when it is gone.
UpdateLatest(e) ==
  LET me == editor[e] IN
  /\ Step(e, "updating")
  /\ typeRow[me.type] = "live"
  /\ typeVersion[me.latest].live
  /\ IF me.op = "place"
     THEN /\ editor' = [editor EXCEPT ![e].step = "listing",
                                      ![e].version = me.latest]
          /\ UNCHANGED typeVersion
     ELSE /\ editor' = [editor EXCEPT ![e].step = "inserting"]
          /\ typeVersion' = [typeVersion EXCEPT ![me.latest].archived = TRUE]
  /\ UNCHANGED <<typeRow, relation, clients>>

InsertNext(e) ==
  /\ Step(e, "inserting")
  /\ InsertVersion(editor[e].type, typeVersion[editor[e].latest].number + 1)
  /\ \E v \in TypeVersionIds :
       /\ NextId(v)
       /\ editor' = [editor EXCEPT ![e].step = "listing", ![e].version = v]
  /\ UNCHANGED <<typeRow, relation, clients>>

\* No list: the relations of the version stay (relations of the old version are
\* copied from latestVersion.children, which the update never loads).
KeepRelations(e) ==
  /\ Step(e, "listing") /\ editor[e].lists = 0
  /\ editor' = [editor EXCEPT ![e].step = "done"]
  /\ UNCHANGED <<typeRow, typeVersion, relation, clients>>

\* The listed versions are looked up; replaceRelations looks its own up too.
FindListed(e) ==
  LET me == editor[e] IN
  /\ Step(e, "listing") /\ me.lists > 0
  /\ me.op # "create" => typeVersion[me.version].live
  /\ \A p \in me.pairs : typeVersion[p[1]].live
  /\ editor' = [editor EXCEPT
       ![e].step = IF me.op = "create" THEN "comparing" ELSE "reading",
       ![e].unchecked = IF me.op = "create"
                        THEN DesiredOfNew(me.version, me.pairs) \X (1..me.lists)
                        ELSE {}]
  /\ UNCHANGED <<typeRow, typeVersion, relation, clients>>

\* create looks for one row at a time.
CompareRow(e) ==
  /\ Step(e, "comparing")
  /\ \E wanted \in editor[e].unchecked :
       editor' = [editor EXCEPT
         ![e].unchecked = @ \ {wanted},
         ![e].missing = IF Ids(wanted[1]) = {} THEN @ \cup {wanted} ELSE @]
  /\ UNCHANGED <<typeRow, typeVersion, relation, clients>>

EndComparing(e) ==
  /\ Step(e, "comparing") /\ editor[e].unchecked = {}
  /\ editor' = [editor EXCEPT ![e].step = "relating"]
  /\ UNCHANGED <<typeRow, typeVersion, relation, clients>>

\* The Map by key of replaceRelations: of the rows that say the same it knows
\* one, whichever the query returned last.
OneOfEach(rows) ==
  { S \in SUBSET rows : \A k \in KeysOf(rows) :
                           \E s \in S : { t \in S : KeyOf(t) = k } = {s} }

\* Mutant of ReadRelations: only the rows with the version as parent are read.
ReadRelationsOfParent(e) ==
  LET me == editor[e]
      desired == Desired(me.version, me.pairs)
      existing == { r \in relation : r[1] = me.version }
  IN
  /\ Step(e, "reading")
  /\ \E extra \in OneOfEach({ r \in existing : KeyOf(r) \notin desired }) :
       editor' = [editor EXCEPT ![e].step = "deleting", ![e].extra = extra,
                    ![e].missing = (desired \ KeysOf(existing)) \X {1}]
  /\ UNCHANGED <<typeRow, typeVersion, relation, clients>>

\* replaceRelations reads the existing rows and takes both differences; when
\* nothing is listed all of them go.
ReadRelations(e) ==
  LET me == editor[e]
      desired == Desired(me.version, me.pairs)
      existing == Touching(me.version)
  IN
  /\ Step(e, "reading")
  /\ \E extra \in IF me.pairs = {} THEN {existing}
                  ELSE OneOfEach({ r \in existing : KeyOf(r) \notin desired }) :
       editor' = [editor EXCEPT ![e].step = "deleting", ![e].extra = extra,
                    ![e].missing = (desired \ KeysOf(existing)) \X {1}]
  /\ UNCHANGED <<typeRow, typeVersion, relation, clients>>

\* Handler e comes to step "to" by writing rows, and overtakes those that are
\* looking at them.
Overtaking(e, to, rows) ==
  editor' = [o \in Editors |->
    IF o = e THEN [editor[o] EXCEPT !.step = to]
    ELSE [editor[o] EXCEPT !.overtaken =
            @ \/ /\ editor[o].step \in {"comparing", "deleting", "relating"}
                 /\ \E r \in rows : editor[o].version \in {r[1], r[2]}]]

DeleteRelations(e) ==
  /\ Step(e, "deleting")
  /\ relation' = relation \ editor[e].extra
  /\ Overtaking(e, "relating", relation \cap editor[e].extra)
  /\ UNCHANGED <<typeRow, typeVersion, clients>>

\* The ids are new: no row has them, nor does a handler remember them.
Numbered(missing, n) ==
  { <<x[1][1], x[1][2], x[1][3], n + x[2]>> : x \in missing }

NewRows(missing, n) ==
  Numbered(missing, n) \cap (relation \cup UNION { editor[o].extra : o \in Editors })
    = {}

CreateRelations(e) ==
  /\ Step(e, "relating")
  /\ \E n \in RowIds :
       LET rows == Numbered(editor[e].missing, n) IN
       /\ NewRows(editor[e].missing, n)
       /\ \A m \in RowIds : m < n => ~ NewRows(editor[e].missing, m)
       /\ relation' = relation \cup rows
       /\ Overtaking(e, "done", rows)
  /\ UNCHANGED <<typeRow, typeVersion, clients>>

-----------------------------------------------------------------------------
(* AssetTypeService.remove.                                                *)

FindTypeVersions(e) ==
  /\ \E t \in Types :
       /\ typeRow[t] # "none"
       /\ BeginEdit(e, [ NoEdit EXCEPT !.op = "remove", !.type = t,
                           !.found = LiveVersions(t),
                           !.step = IF LiveVersions(t) = {} THEN "vanishing"
                                    ELSE "checking" ])
  /\ UNCHANGED <<typeRow, typeVersion, relation, clients>>

\* Mutant of Unrelated: only the relations of the current versions are looked at.
UnrelatedCurrent(versions) ==
  \A v \in versions : ~ typeVersion[v].archived => Touching(v) = {}

Unrelated(versions) == \A v \in versions : Touching(v) = {}

\* Otherwise it throws.
CheckRelations(e) ==
  /\ Step(e, "checking")
  /\ Unrelated(editor[e].found)
  /\ editor' = [editor EXCEPT ![e].step = "removing"]
  /\ UNCHANGED <<typeRow, typeVersion, relation, clients>>

\* All versions of the type, by its id.
DeleteTypeVersions(e) ==
  /\ Step(e, "removing")
  /\ typeVersion' = [v \in TypeVersionIds |->
       IF typeVersion[v].type = editor[e].type
       THEN [typeVersion[v] EXCEPT !.live = FALSE] ELSE typeVersion[v]]
  /\ editor' = [editor EXCEPT ![e].step = "vanishing"]
  /\ UNCHANGED <<typeRow, relation, clients>>

DeleteType(e) ==
  /\ Step(e, "vanishing")
  /\ typeRow' = [typeRow EXCEPT ![editor[e].type] = "deleted"]
  /\ editor' = [editor EXCEPT ![e].step = "done"]
  /\ UNCHANGED <<typeVersion, relation, clients>>

-----------------------------------------------------------------------------
\* A handler answers, or throws or crashes half way: what it did stays.
EndEdit(e) ==
  /\ editor[e].step # "idle"
  /\ editor' = [editor EXCEPT ![e] = NoEdit]
  /\ UNCHANGED <<typeRow, typeVersion, relation, clients>>

TypesNext == \E e \in Editors :
  \/ CreateType(e) \/ InsertFirst(e)
  \/ ReadType(e) \/ UpdateLatest(e) \/ InsertNext(e)
  \/ KeepRelations(e) \/ FindListed(e) \/ CompareRow(e) \/ EndComparing(e)
  \/ ReadRelations(e) \/ DeleteRelations(e) \/ CreateRelations(e)
  \/ FindTypeVersions(e) \/ CheckRelations(e) \/ DeleteTypeVersions(e)
  \/ DeleteType(e)
  \/ EndEdit(e)

TypesSpec == TypesInit /\ [][TypesNext]_typeVars

-----------------------------------------------------------------------------
\* The kinds whose mirror images are of one other kind (or the same), and that
\* share it with no third.
Paired(kind) ==
  LET image == InverseOf[kind] IN
  /\ image # NoKind /\ InverseOf[image] = kind
  /\ \A j \in Kinds : InverseOf[j] \in {kind, image} => j \in {kind, image}

\* There are as many rows that say k as there are that say its mirror image.
Even(k) == Cardinality(Ids(k)) = Cardinality(Ids(MirrorKey(k)))

\* No edit leaves a relation of such a kind without its mirror image (hosts and
\* runs; a bidirectional kind both ways), whichever of the two versions it was
\* of, wherever it stops, and whatever copies there are: it takes another editor
\* that wrote rows of the same version while this one compared.
MirrorsBreakByOverlap ==
  [][ \A k \in Keys :
        Paired(k[3]) /\ Even(k) /\ ~ Even(k)' =>
          \E e \in Editors : /\ editor[e].overtaken
                             /\ editor[e].step \in {"deleting", "relating"}
                             /\ editor'[e].step # editor[e].step ]_typeVars

\* With one editor at a time, which may stop half way: no type has two current
\* versions, no two of its versions share a number, and an edit that makes a new
\* version and gets to its end leaves exactly that version current, also when an
\* earlier edit stopped between archiving and inserting and left none.
OneLine ==
  clients.editors = 1 =>
    /\ \A t \in Types :
         /\ Cardinality(CurrentVersions(t)) <= 1
         /\ \A v, u \in LiveVersions(t) :
              typeVersion[v].number = typeVersion[u].number => v = u
    /\ \A e \in Editors :
         Step(e, "done") /\ editor[e].op = "version"
           => CurrentVersions(editor[e].type) = {editor[e].version}

\* With one editor at a time no relation leads to a removed version: removal is
\* refused while any version of the type, archived ones included, has one.
RelationsLeadToVersions ==
  clients.editors = 1 => \A r \in relation : {r[1], r[2]} \subseteq AllLiveVersions
=============================================================================
