---------------------------- MODULE AssetImport ----------------------------
(***************************************************************************)
(* Excel imports of the asset service (file/file.service.ts).  A file is   *)
(* uploaded and validated once; applying it walks its rows one at a time,  *)
(* and every row is a search for twins, a round of look-ups in other       *)
(* services and tables, and a create, none of them atomic with the next.   *)
(* A file may be applied again, while its first import still runs too.     *)
(*                                                                         *)
(* A row is [name, ip, needs]: it becomes an asset whose external          *)
(* reference is <<name, ip>>, related to the assets it needs, each a       *)
(* <<type, reference>>.  The ILIKE '%x%' searches are the relation Within. *)
(***************************************************************************)
EXTENDS Integers, Sequences, FiniteSets

CONSTANTS
  Files,     \* the files that may be uploaded
  Template,  \* Template[f]: one of Vm, Client, Storage, Server below
  RowsOf,    \* RowsOf[f]: the sequence of f's rows
  Within,    \* the pairs <<x, y>> of names or addresses with x inside y
  Imports,   \* the requests to apply a file
  Registered \* the assets present before: [type, ref, by |-> NoImport]

CONSTANTS NoImport, NoAddress, NoFile

ASSUME ImportAssumption ==
  /\ NoImport \notin Imports /\ NoFile \notin Files
  /\ \A f \in Files : /\ Len(RowsOf[f]) \in Nat
                       /\ DOMAIN RowsOf[f] = 1..Len(RowsOf[f])
  /\ \A f \in Files : \A i \in DOMAIN RowsOf[f] : LET r == RowsOf[f][i] IN
       <<r.name, r.name>> \in Within /\ <<r.ip, r.ip>> \in Within
  /\ Registered \in Seq({Registered[n] : n \in DOMAIN Registered})
  /\ \A n \in DOMAIN Registered : Registered[n].by = NoImport

VARIABLES
  uploads,   \* uploads[f]: "none", "stored" (filePath) or "refused" (errorFilePath)
  stock,     \* the assets: a sequence of [type, ref, by]
  import,    \* import[j]: the request's local variables
  overlaps   \* history: the pairs of imports that ran at the same time

importVars == <<uploads, stock, import, overlaps>>

-----------------------------------------------------------------------------
(* The handlers differ in the type they create, in the scope of the exact   *)
(* search (a server is only compared with servers) and in what they relate. *)

Vm      == [type |-> "VM",      anyType |-> TRUE,  relates |-> {"Cluster", "OS"}]
Client  == [type |-> "Client",  anyType |-> TRUE,  relates |-> {"OS"}]
Storage == [type |-> "Storage", anyType |-> TRUE,  relates |-> {}]
Server  == [type |-> "Server",  anyType |-> FALSE,
            relates |-> {"Cluster", "OS", "Hypervisor", "Storage"}]

Assets == {stock[n] : n \in DOMAIN stock}

\* An import's state: the row it is at, the rows it saved and reported, and
\* whether a look-up it made has failed on it.
Import(st, f, row) ==
  [st |-> st, file |-> f, row |-> row, saved |-> {}, reported |-> {},
   unlucky |-> FALSE]
NotAsked == Import("none", NoFile, 0)

At(j, st) == import[j].st = st
Running(j) == import[j].st \in {"check", "lookup", "create"}
FileRows(j) == RowsOf[import[j].file]
Row(j) == FileRows(j)[import[j].row]
Kind(j) == Template[import[j].file]
RefOf(row) == <<row.name, row.ip>>

\* Mutant of NextRow: the report of the row is lost.
NextRowForgets(j, saved, reported) ==
  [import[j] EXCEPT
    !.row = @ + 1, !.saved = @ \cup saved,
    !.st = IF import[j].row = Len(FileRows(j)) THEN "ending" ELSE "check"]

\* After a row: the next one, or the end of the loop.
NextRow(j, saved, reported) ==
  [import[j] EXCEPT
    !.row = @ + 1, !.saved = @ \cup saved, !.reported = @ \cup reported,
    !.st = IF import[j].row = Len(FileRows(j)) THEN "ending" ELSE "check"]

\* Mutant of Exact: the reference is not searched for.
ExactOfNone(j) == {}

\* The three searches for an asset the row would duplicate; a row without an
\* address (a VM's may be empty) has no search by address.
Exact(j) == {a \in Assets : a.ref = RefOf(Row(j))
                            /\ (Kind(j).anyType \/ a.type = Kind(j).type)}
SameIp(j) == {a \in Assets : a.type = Kind(j).type /\ Row(j).ip # NoAddress
                             /\ <<Row(j).ip, a.ref[2]>> \in Within}
SameName(j) == {a \in Assets : a.type = Kind(j).type
                               /\ <<Row(j).name, a.ref[1]>> \in Within}

\* What the row names must be there, in the tables its template relates.
Needed(j) == {n \in Row(j).needs : n[1] \in Kind(j).relates}
Found(j) == \A n \in Needed(j) : \E a \in Assets : <<a.type, a.ref>> = n

-----------------------------------------------------------------------------
ImportInit ==
  /\ uploads = [f \in Files |-> "none"]
  /\ stock = Registered
  /\ import = [j \in Imports |-> NotAsked]
  /\ overlaps = {}

\* validateAndProcessFile: headers and rows are checked before anything is
\* kept; an invalid file only leaves its error file.
Upload(f, valid) ==
  /\ uploads[f] = "none"
  /\ uploads' = [uploads EXCEPT ![f] = IF valid THEN "stored" ELSE "refused"]
  /\ UNCHANGED <<stock, import, overlaps>>

\* processFile: the file must have been stored; nothing says it is applied
\* for the first time, or alone.  A file with headers only is valid, too.
Apply(j, f) ==
  /\ At(j, "none") /\ uploads[f] = "stored"
  /\ import' = [import EXCEPT ![j] =
       Import(IF Len(RowsOf[f]) = 0 THEN "ending" ELSE "check", f, 1)]
  /\ overlaps' = overlaps \cup {{j, k} : k \in {k \in Imports : Running(k)}}
  /\ UNCHANGED <<uploads, stock>>

\* Mutant of CheckRow: the name alone is taken for a duplicate.
CheckRowByName(j) ==
  /\ At(j, "check")
  /\ import' = [import EXCEPT ![j] =
       IF Exact(j) # {} \/ SameIp(j) # {} \/ SameName(j) # {}
         THEN NextRow(j, {}, {import[j].row})
         ELSE [import[j] EXCEPT !.st = "lookup"]]
  /\ UNCHANGED <<uploads, stock, overlaps>>

\* The searches for twins.  The same reference or the same address ends the
\* row with a warning; the same name alone is reported and the row goes on.
CheckRow(j) ==
  /\ At(j, "check")
  /\ import' = [import EXCEPT ![j] =
       IF Exact(j) # {} \/ SameIp(j) # {}
         THEN NextRow(j, {}, {import[j].row})
         ELSE [import[j] EXCEPT
                 !.st = "lookup",
                 !.reported = @ \cup (IF SameName(j) # {}
                                      THEN {import[j].row} ELSE {})]]
  /\ UNCHANGED <<uploads, stock, overlaps>>

\* The users, the location and the related assets: every miss is reported,
\* and any miss skips the row.  answers: whether users and location were found.
LookUpRow(j, answers) ==
  /\ At(j, "lookup")
  /\ import' = [import EXCEPT ![j] =
       IF answers /\ Found(j)
         THEN [import[j] EXCEPT !.st = "create"]
         ELSE [NextRow(j, {}, {import[j].row})
                 EXCEPT !.unlucky = @ \/ ~answers]]
  /\ UNCHANGED <<uploads, stock, overlaps>>

\* createFromFile returns an asset, saved by its own transaction, or errors.
CreateRow(j) ==
  /\ At(j, "create")
  /\ stock' = Append(stock, [type |-> Kind(j).type, ref |-> RefOf(Row(j)), by |-> j])
  /\ import' = [import EXCEPT ![j] = NextRow(j, {import[j].row}, {})]
  /\ UNCHANGED <<uploads, overlaps>>

RefuseRow(j) ==
  /\ At(j, "create")
  /\ import' = [import EXCEPT ![j] =
       [NextRow(j, {}, {import[j].row}) EXCEPT !.unlucky = TRUE]]
  /\ UNCHANGED <<uploads, stock, overlaps>>

\* The errors are written to a file of their own and the answer names it.
EndImport(j) ==
  /\ At(j, "ending")
  /\ import' = [import EXCEPT ![j].st =
       IF import[j].reported = {} THEN "succeeded" ELSE "withErrors"]
  /\ UNCHANGED <<uploads, stock, overlaps>>

\* An exception outside createFromFile (a query, a vault read) or a restart:
\* the rows done stay, no error file is written.
BreakImport(j) ==
  /\ Running(j)
  /\ import' = [import EXCEPT ![j].st = "broken"]
  /\ UNCHANGED <<uploads, stock, overlaps>>

ImportNext ==
  \/ \E f \in Files, valid \in BOOLEAN : Upload(f, valid)
  \/ \E j \in Imports :
       \/ \E f \in Files : Apply(j, f)
       \/ CheckRow(j)
       \/ \E answers \in BOOLEAN : LookUpRow(j, answers)
       \/ CreateRow(j)
       \/ RefuseRow(j)
       \/ EndImport(j)
       \/ BreakImport(j)

ImportSpec == ImportInit /\ [][ImportNext]_importVars

-----------------------------------------------------------------------------
ImportTypeOK ==
  /\ uploads \in [Files -> {"none", "stored", "refused"}]
  /\ \A j \in Imports :
       /\ import[j].st \in {"none", "check", "lookup", "create", "ending",
                            "succeeded", "withErrors", "broken"}
       /\ ~At(j, "none") => import[j].file \in Files
       /\ Running(j) => import[j].row \in DOMAIN FileRows(j)
  /\ \A n \in DOMAIN stock : stock[n].by \in Imports \cup {NoImport}
  /\ overlaps \subseteq SUBSET Imports

\* No import duplicates an asset it could see: two assets of one type with
\* one reference, unless both were there before, come from two imports that ran
\* at the same time.  Nothing in the tables forbids them (asset.externalRefId
\* has no unique index).
TwinsFromOverlap ==
  \A m, n \in DOMAIN stock :
    (/\ m # n /\ stock[m].type = stock[n].type /\ stock[m].ref = stock[n].ref
     /\ {stock[m].by, stock[n].by} # {NoImport})
    => {stock[m].by, stock[n].by} \in overlaps /\ stock[m].by # stock[n].by

\* The answer accounts for every row: a finished import saved it or reported
\* it, what it saved is there, and "success" means that it saved them all.
EveryRowAnswered ==
  \A j \in Imports :
    import[j].st \in {"succeeded", "withErrors"} =>
      /\ DOMAIN FileRows(j) = import[j].saved \cup import[j].reported
      /\ \A i \in import[j].saved :
           [type |-> Kind(j).type, ref |-> RefOf(FileRows(j)[i]), by |-> j] \in Assets
      /\ At(j, "succeeded") <=> DOMAIN FileRows(j) = import[j].saved
                                /\ import[j].reported = {}

\* Applying the file again completes what an earlier import left: when no
\* look-up failed on an import and none of its rows was reported for a name,
\* every row's asset is there at its end, or the address already had one, or
\* what it needs is missing.
RetryCompletes ==
  \A j \in Imports :
    (import[j].st \in {"succeeded", "withErrors"} /\ ~import[j].unlucky) =>
      \A i \in DOMAIN FileRows(j) : LET row == FileRows(j)[i] IN
        \/ \E a \in Assets : a.type = Kind(j).type /\ <<row.ip, a.ref[2]>> \in Within
        \/ Kind(j).anyType /\ \E a \in Assets : a.ref = RefOf(row)
        \/ \E n \in row.needs : i \notin import[j].saved /\ n[1] \in Kind(j).relates
=============================================================================
