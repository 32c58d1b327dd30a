---------------------------- MODULE MCCatalogue ----------------------------
(***************************************************************************)
(* One run for the parts of the service asset beside its versions: asset   *)
(* types, the scope of a user, and file imports.  They share no state, so  *)
(* a behaviour is one of a single part, and the others stay as they began. *)
(***************************************************************************)
EXTENDS AssetTypeVersions, UserScope, AssetImport, TLC

CONSTANTS o1, o2, t1, t2, e1, e2, e3, d1, d2, d3,
          f1, f2, f3, n1, n2, a1, a2, j1, j2, j3

MCTypeIds == 1..3

\* One client at a time, with more versions, or more kinds and repeated pairs;
\* and two.
MCClientModes ==
  LET Mode(n, ids, often, pairs, ops) ==
        [editors |-> n, room |-> ids, repeats |-> often, listed |-> pairs, calls |-> ops]
      all == {"create", "place", "version", "remove"}
  IN  { Mode(1, 3, 1, {1, 2, 3} \X {"hosts"}, all),
        Mode(1, 2, 2, {1, 2} \X {"hosts", "uses"}, all),
        Mode(2, 2, 1, {<<1, "hosts">>}, {"create", "place"}) }

MCRowIds == 0..4

\* A kind of INVERSE_RELATION_MAP, and one that a client made.
MCInverse == "hosts" :> "runs" @@ "runs" :> "hosts" @@ "uses" :> NoKind

Org(m, d, b) == [manager |-> m, department |-> d, below |-> b]

\* Every shape of the reporting lines, and every graph of departments.
MCOrgs ==
  { Org(m, d, [x \in Departments |-> {}]) :
      m \in [People -> People \cup {Nobody}],
      d \in {[p \in People |-> NoDepartment], e1 :> d1 @@ e2 :> d1 @@ e3 :> d2} }
  \cup
  { Org([p \in People |-> Nobody], e1 :> d1 @@ e2 :> d2 @@ e3 :> d3, b) :
      b \in [Departments -> SUBSET Departments] }

FileRow(n, a, needs) == [name |-> n, ip |-> a, needs |-> needs]

MCTemplate == f1 :> Storage @@ f2 :> Server @@ f3 :> Vm
MCRowsOf ==
  f1 :> <<FileRow(n1, a1, {})>> @@
  f2 :> <<FileRow(n1, a1, {}), FileRow(n1, a2, {<<"Storage", <<n1, a1>>>>})>> @@
  f3 :> <<FileRow(n1, a1, {<<"OS", <<n1, a2>>>>}), FileRow(n2, NoAddress, {})>>
MCWithin == {<<x, x>> : x \in {n1, n2, a1, a2, NoAddress}}
MCRegistered == <<[type |-> "OS", ref |-> <<n1, a2>>, by |-> NoImport]>>

VARIABLE part
allVars == <<part, typeVars, scopeVars, importVars>>

\* The state of a part that is not looked at.
ScopeResting ==
  ScopeInit /\ user = e1 /\ asks = "supervisor"
            /\ org = Org([p \in People |-> Nobody], [p \in People |-> NoDepartment],
                         [x \in Departments |-> {}])
TypesResting == TypesInit /\ clients.editors = 1 /\ clients.repeats = 1

Init ==
  \/ part = "types" /\ TypesInit /\ ScopeResting /\ ImportInit
  \/ part = "scope" /\ TypesResting /\ ScopeInit /\ ImportInit
  \/ part = "import" /\ TypesResting /\ ScopeResting /\ ImportInit

Next ==
  /\ UNCHANGED part
  /\ \/ part = "types" /\ TypesNext /\ UNCHANGED <<scopeVars, importVars>>
     \/ part = "scope" /\ ScopeNext /\ UNCHANGED <<typeVars, importVars>>
     \/ part = "import" /\ ImportNext /\ UNCHANGED <<typeVars, scopeVars>>

Spec == Init /\ [][Next]_allVars

\* The type invariants of the three parts.
CatalogueTypeOK == TypesTypeOK /\ ScopeTypeOK /\ ImportTypeOK

Symmetry ==
  Permutations(Editors) \cup Permutations(Types) \cup Permutations(Imports)
=============================================================================
