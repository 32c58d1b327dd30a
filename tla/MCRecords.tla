----------------------------- MODULE MCRecords -----------------------------
(***************************************************************************)
(* One run for the records of the service sampa beside its workflow:       *)
(* contents and the action log, members and groups, request numbers.  They *)
(* share no state, so a behaviour is one of a single part, and the others  *)
(* stay as they began.                                                     *)
(***************************************************************************)
EXTENDS ContentLog, Groups, RequestNumber, TLC

CONSTANTS k1, k2, r1, r2, l1, l2, i1, v1, v2,
          u1, u2, x1, x2, g1, h1, h2,
          b1, c1, c2, c3, c4

MCOwner == l1 :> r1 @@ l2 :> r1
Crew(n, fails, values, rows, changes) ==
  [clerks |-> n, mayFail |-> fails, values |-> values, rows |-> rows,
   changes |-> changes]
MCCrews == { Crew(1, FALSE, {v1, v2}, 2, 3), Crew(1, TRUE, {v1}, 1, 3),
             Crew(2, TRUE, {v1}, 1, 2) }
MCRowIds == 1..2
MCChangeIds == 1..3

Load(users, roles, admins, rows) ==
  [user |-> users, role |-> roles, admins |-> admins, rows |-> rows]
MCLoads == { Load(1, 2, 0, 0), Load(0, 3, 0, 0), Load(0, 1, 1, 1), Load(1, 0, 1, 3),
             Load(1, 0, 2, 2) }
MCLead == g1 :> u1
MCBelongIds == 1..3

VARIABLE part
allVars == <<part, logVars, groupVars, numberVars>>

\* The state of a part that is not looked at.
ContentResting == ContentInit /\ crew = Crew(1, FALSE, {v1, v2}, 2, 3)
GroupsResting == GroupsInit /\ load = Load(1, 2, 0, 0)

Init ==
  \/ part = "contents" /\ ContentInit /\ GroupsResting /\ NumbersInit
  \/ part = "members" /\ ContentResting /\ GroupsInit /\ NumbersInit
  \/ part = "numbers" /\ ContentResting /\ GroupsResting /\ NumbersInit

Next ==
  /\ UNCHANGED part
  /\ \/ part = "contents" /\ ContentNext /\ UNCHANGED <<groupVars, numberVars>>
     \/ part = "members" /\ GroupsNext /\ UNCHANGED <<logVars, numberVars>>
     \/ part = "numbers" /\ NumbersNext /\ UNCHANGED <<logVars, groupVars>>

Spec == Init /\ [][Next]_allVars

\* The type invariants of the three parts.
RecordsTypeOK == ContentTypeOK /\ GroupsTypeOK /\ NumbersTypeOK

Symmetry ==
  Permutations(Clerks) \cup Permutations(LogLayers) \cup Permutations(Admins)
=============================================================================
