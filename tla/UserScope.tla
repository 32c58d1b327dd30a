------------------------------ MODULE UserScope ------------------------------
(***************************************************************************)
(* Which people's assets a user of the service asset may see or change.    *)
(* The scope is collected from the identity provider: a walk down the      *)
(* departments, a walk down the reporting lines, and a look-up of user ids *)
(* of those found.  The two graphs are somebody else's data: they may hold *)
(* cycles, and each call may fail.  They stay as they are during a walk.   *)
(***************************************************************************)
EXTENDS Naturals

CONSTANTS
  People,       \* the employees; a person stands for its user id as well
  Departments,
  Linked,       \* the people whose entry carries the user id
  Orgs          \* the states of the identity provider

Nobody == "nobody"
NoDepartment == "no department"

OrgType == [ manager : [People -> People \cup {Nobody}],
             department : [People -> Departments \cup {NoDepartment}],
             below : [Departments -> SUBSET Departments] ]

ASSUME ScopeConstantsAssumption ==
  /\ Nobody \notin People
  /\ NoDepartment \notin Departments
  /\ Orgs \subseteq OrgType

VARIABLES
  org,       \* manager and department of everybody, departments below each
  user,      \* the user who asks
  asks,      \* as "supervisor" or as "assetUser"
  scopeStep, \* where the request is
  visited,   \* departments reached by the walk,
  level,     \*   and those whose children are to be fetched
  staff,     \* the employees that were fetched
  managed,   \* the people reached down the reporting lines,
  line,      \*   and those whose reports are still to be followed
  failed,    \* whether a call failed and was passed over
  scope      \* the result

scopeVars == <<org, user, asks, scopeStep, visited, level, staff, managed, line,
               failed, scope>>

walkVars == <<visited, level, staff, managed, line, failed, scope>>

ScopeSteps == {"start", "staff", "walking", "fallback", "line", "following",
               "resolving", "done", "thrown"}

ScopeTypeOK ==
  /\ org \in OrgType
  /\ user \in People
  /\ asks \in {"supervisor", "assetUser"}
  /\ scopeStep \in ScopeSteps
  /\ level \subseteq visited /\ visited \subseteq Departments
  /\ line \subseteq managed /\ managed \subseteq staff /\ staff \subseteq People
  /\ failed \in BOOLEAN
  /\ scope \subseteq People

MembersOf(departments) == { p \in People : org.department[p] \in departments }

HasDepartment(p) == org.department[p] # NoDepartment

ScopeInit ==
  /\ org \in Orgs
  /\ user \in People
  /\ asks \in {"supervisor", "assetUser"}
  /\ scopeStep = "start"
  /\ visited = {} /\ level = {} /\ staff = {} /\ managed = {}
  /\ line = {} /\ failed = FALSE /\ scope = {}

-----------------------------------------------------------------------------
(* buildSupervisorScope, getSubordinateUsers.                              *)

\* The entry of the user is found; otherwise the request is refused (Refuse).
FindSupervisor ==
  /\ scopeStep = "start" /\ asks = "supervisor"
  /\ scopeStep' = "staff"
  /\ UNCHANGED <<org, user, asks, walkVars>>

\* All employees; when that fails it goes on with none.
FetchStaff ==
  /\ scopeStep = "staff"
  /\ \/ staff' = People /\ failed' = failed
     \/ staff' = {} /\ failed' = TRUE
  /\ IF HasDepartment(user)
     THEN /\ visited' = {org.department[user]} /\ level' = {org.department[user]}
          /\ scopeStep' = "walking"
     ELSE /\ UNCHANGED <<visited, level>>
          /\ scopeStep' = "line"
  /\ UNCHANGED <<org, user, asks, managed, line, scope>>

\* Mutant of NewBelow: departments that were visited are not left out.
NewBelowAgain(answered) == UNION { org.below[d] : d \in answered }

NewBelow(answered) == (UNION { org.below[d] : d \in answered }) \ visited

\* getAllSubordinateDepartmentIds: a whole level at once; a department whose
\* call fails counts as one without departments below.
WalkLevel ==
  /\ scopeStep = "walking" /\ level # {}
  /\ \E answered \in SUBSET level :
       /\ visited' = visited \cup NewBelow(answered)
       /\ level' = NewBelow(answered)
       /\ failed' = (failed \/ answered # level)
  /\ UNCHANGED <<org, user, asks, scopeStep, staff, managed, line, scope>>

EndWalk ==
  /\ scopeStep = "walking" /\ level = {}
  /\ scopeStep' = IF staff = {} THEN "fallback" ELSE "line"
  /\ UNCHANGED <<org, user, asks, walkVars>>

\* getUsersFromDepartments, when there is no list of all employees.
FetchByDepartment ==
  /\ scopeStep = "fallback"
  /\ \E answered \in SUBSET visited : staff' = MembersOf(answered)
  /\ scopeStep' = "line"
  /\ UNCHANGED <<org, user, asks, visited, level, managed, line, failed, scope>>

-----------------------------------------------------------------------------
(* getAssetUserScopeIds.                                                   *)

\* The user must have a department, whose members are fetched.
FindAssetUser ==
  /\ scopeStep = "start" /\ asks = "assetUser"
  /\ HasDepartment(user)
  /\ staff' = MembersOf({org.department[user]})
  /\ scopeStep' = "line"
  /\ UNCHANGED <<org, user, asks, visited, level, managed, line, failed, scope>>

-----------------------------------------------------------------------------
(* getAllManagedUsers: the reporting lines among the people fetched.       *)

ReportsOf(p) == { q \in staff : org.manager[q] = p }

BeginLine ==
  /\ scopeStep = "line"
  /\ managed' = ReportsOf(user)
  /\ line' = ReportsOf(user)
  /\ scopeStep' = "following"
  /\ UNCHANGED <<org, user, asks, visited, level, staff, failed, scope>>

\* Mutant of FollowLine: only direct reports are taken.
FollowLineDirect ==
  /\ scopeStep = "following"
  /\ \E p \in line : line' = line \ {p}
  /\ UNCHANGED <<org, user, asks, scopeStep, visited, level, staff, managed,
                 failed, scope>>

FollowLine ==
  /\ scopeStep = "following"
  /\ \E p \in line :
       /\ managed' = managed \cup ReportsOf(p)
       /\ line' = (line \ {p}) \cup (ReportsOf(p) \ managed)
  /\ UNCHANGED <<org, user, asks, scopeStep, visited, level, staff, failed, scope>>

EndLine ==
  /\ scopeStep = "following" /\ line = {}
  /\ scopeStep' = "resolving"
  /\ UNCHANGED <<org, user, asks, walkVars>>

-----------------------------------------------------------------------------
\* The people whose ids are looked up.
Collected ==
  IF asks = "supervisor"
  THEN managed \cup (staff \cap MembersOf(visited))
  ELSE staff \cup managed \cup {user} \cup ({org.manager[user]} \ {Nobody})

\* Mutant of Resolve: the user's own id is left to the look-up.
ResolveCollected ==
  /\ scopeStep = "resolving"
  /\ \E unresolved \in SUBSET (Collected \ Linked) :
       /\ scope' = Collected \ unresolved
       /\ failed' = (failed \/ unresolved # {})
  /\ scopeStep' = "done"
  /\ UNCHANGED <<org, user, asks, visited, level, staff, managed, line>>

\* resolveEmployeesToUserIds: those whose look-up fails are left out.  The id
\* of the user, which comes with the request, is added.
Resolve ==
  /\ scopeStep = "resolving"
  /\ \E unresolved \in SUBSET (Collected \ Linked) :
       /\ scope' = {user} \cup (Collected \ unresolved)
       /\ failed' = (failed \/ unresolved # {})
  /\ scopeStep' = "done"
  /\ UNCHANGED <<org, user, asks, visited, level, staff, managed, line>>

\* A call whose failure is not passed over: the user, and for an asset user
\* its department, its manager, or that no id at all was found.
Refuse ==
  /\ \/ scopeStep = "start"
     \/ scopeStep = "staff"
     \/ asks = "assetUser" /\ scopeStep \in {"line", "following", "resolving"}
  /\ scopeStep' = "thrown"
  /\ UNCHANGED <<org, user, asks, walkVars>>

\* The next request, of anybody.
NextRequest ==
  /\ scopeStep \in {"done", "thrown"}
  /\ user' \in People /\ asks' \in {"supervisor", "assetUser"}
  /\ scopeStep' = "start"
  /\ visited' = {} /\ level' = {} /\ staff' = {} /\ managed' = {}
  /\ line' = {} /\ failed' = FALSE /\ scope' = {}
  /\ UNCHANGED org

ScopeNext ==
  \/ FindSupervisor \/ FetchStaff \/ WalkLevel \/ EndWalk \/ FetchByDepartment
  \/ FindAssetUser
  \/ BeginLine \/ FollowLine \/ EndLine
  \/ Resolve \/ Refuse
  \/ NextRequest

ScopeSpec == ScopeInit /\ [][ScopeNext]_scopeVars

-----------------------------------------------------------------------------
(* Who may do what with an asset, whose accountable and editor are people. *)

Roles == {"administrator", "auditor", "supervisor", "user"}

InScope(responsible) == responsible \cap scope # {}

\* Mutant of MayChange: the auditor's roles are not looked at first.
MayChangeAnyRole(roles, responsible) ==
  \/ "administrator" \in roles
  \/ "auditor" \in roles
  \/ "supervisor" \in roles /\ InScope(responsible)
  \/ "user" \in roles

\* AssetModificationAccessGuard, in the order of its tests.
MayChange(roles, responsible) ==
  \/ {"administrator", "auditor"} \cap roles # {}
  \/ "supervisor" \in roles /\ InScope(responsible)
  \/ /\ "user" \in roles /\ "supervisor" \notin roles
     /\ (user \in responsible \/ InScope(responsible))

\* The filter of searches and dashboards; an empty scope would not filter.
Sees(roles, responsible) ==
  \/ "administrator" \in roles
  \/ /\ "supervisor" \notin roles
     /\ ("auditor" \in roles \/ "user" \notin roles)
  \/ scope = {}
  \/ InScope(responsible)

\* The scope the roles ask for.
AskedBy(roles) == IF "supervisor" \in roles THEN "supervisor" ELSE "assetUser"

-----------------------------------------------------------------------------
\* Everybody in the user's department or one below it: in every set that
\* holds the department and, with a department, those below it.
InDepartments ==
  { p \in People : /\ HasDepartment(user) /\ HasDepartment(p)
                   /\ \A S \in SUBSET Departments :
                        /\ org.department[user] \in S
                        /\ \A d \in S : org.below[d] \subseteq S
                        => org.department[p] \in S }

ReportsIn(people, p) == { q \in people : org.manager[q] = p }

\* Everybody whose line of managers leads to the user.
InLine ==
  { p \in People : \A S \in SUBSET People :
      /\ ReportsIn(People, user) \subseteq S
      /\ \A q \in S : ReportsIn(People, q) \subseteq S
      => p \in S }

\* What the scope should be.
FullScope ==
  {user} \cup
  IF asks = "supervisor" THEN InLine \cup InDepartments
  ELSE MembersOf({org.department[user]}) \cup ({org.manager[user]} \ {Nobody})

\* Whatever calls fail, a scope holds nobody who does not belong to it, and
\* holds the user: it is never empty, which would lift the filter.
FailuresOnlyNarrow ==
  scopeStep = "done" => user \in scope /\ scope \subseteq FullScope

\* When no call fails the scope is complete, whatever cycles the departments
\* and the reporting lines hold.
ScopeIsComplete == scopeStep = "done" /\ ~ failed => scope = FullScope

\* Each round of a walk reaches somebody new or shortens what is left: neither
\* walk goes round in a cycle.
WalksAdvance ==
  [][ /\ scopeStep = "walking" /\ scopeStep' = "walking"
         => level' = {} \/ (visited \subseteq visited' /\ visited # visited')
      /\ scopeStep = "following" /\ scopeStep' = "following"
         => \/ managed \subseteq managed' /\ managed # managed'
            \/ line' \subseteq line /\ line # line' ]_scopeVars

\* A user sees every asset it may change, unless it is a supervisor and an
\* auditor at once: the guard asks for the auditor first, the search for the
\* supervisor.
ChangesOnlyWhatItSees ==
  scopeStep = "done" =>
    \A roles \in SUBSET Roles, responsible \in SUBSET People :
      /\ ~ {"supervisor", "auditor"} \subseteq roles
      /\ asks = AskedBy(roles)
      /\ MayChange(roles, responsible)
      => Sees(roles, responsible)
=============================================================================
