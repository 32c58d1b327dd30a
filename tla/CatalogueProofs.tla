--------------------------- MODULE CatalogueProofs ---------------------------
(***************************************************************************)
(* Proofs about the parts of the service asset beside its versions: the    *)
(* scope of a user is sound, and complete when no call failed, an import   *)
(* answers for every row of its file and makes no twins on its own, the    *)
(* versions of a type that is edited by one user at a time are in one      *)
(* line, and the relations between asset types lose their mirror images    *)
(* only by edits that overlap.                                             *)
(***************************************************************************)
EXTENDS MCCatalogue, SequenceTheorems,
        FiniteSetTheorems, WellFoundedInduction, TLAPS

-----------------------------------------------------------------------------
(* The scope of a user: the walks against the closures they are to find.  *)


\* The sets a walk must stay in: they hold where it starts and what follows
\* each of their elements.
BelowClosed(S) ==
  org.department[user] \in S /\ \A d \in S : org.below[d] \subseteq S

LineClosed(S) ==
  /\ ReportsIn(People, user) \subseteq S
  /\ \A q \in S : ReportsIn(People, q) \subseteq S

\* What was reached is in each of those sets.
WalkSound ==
  /\ visited # {} => HasDepartment(user)
  /\ \A S \in SUBSET Departments : BelowClosed(S) => visited \subseteq S

LineSound == \A S \in SUBSET People : LineClosed(S) => managed \subseteq S

Lining == {"line", "following", "resolving"}

\* When no call failed, the walk is one of those sets up to the level it is at.
WalkComplete ==
  asks = "supervisor" /\ ~ failed
    /\ scopeStep \in Lining \cup {"walking", "fallback"} =>
      /\ staff = People
      /\ HasDepartment(user) =>
           /\ org.department[user] \in visited
           /\ \A d \in visited \ level : org.below[d] \subseteq visited

\* So is the line of those whose reports were followed.
LineComplete ==
  scopeStep \in {"following", "resolving"} =>
    /\ ReportsOf(user) \subseteq managed
    /\ \A p \in managed \ line : ReportsOf(p) \subseteq managed

\* What the steps say of each other.
StepsInOrder ==
  /\ scopeStep \in {"start", "staff"} => staff = {} /\ visited = {} /\ ~ failed
  /\ scopeStep \in {"start", "staff", "walking", "fallback", "line"} => managed = {}
  /\ scopeStep \in Lining \cup {"fallback"} => level = {}
  /\ scopeStep = "fallback" => staff = {}
  /\ scopeStep = "resolving" => line = {}
  /\ scopeStep \in {"staff", "walking", "fallback"} => asks = "supervisor"
  /\ asks = "assetUser" /\ scopeStep \in Lining =>
       staff = MembersOf({org.department[user]}) /\ HasDepartment(user)

\* The result.
ScopeSound ==
  scopeStep = "done" => /\ user \in scope /\ scope \subseteq FullScope
                        /\ ~ failed => scope = FullScope

ScopeInv ==
  /\ ScopeTypeOK /\ StepsInOrder
  /\ WalkSound /\ LineSound /\ WalkComplete /\ LineComplete /\ ScopeSound

-----------------------------------------------------------------------------
\* Everybody found by the two walks belongs to the scope.
LEMMA CollectedSound ==
  ASSUME ScopeInv, scopeStep = "resolving"
  PROVE  {user} \cup Collected \subseteq FullScope
<1>1. CASE asks = "supervisor"
  <2>1. managed \subseteq InLine
    BY DEF ScopeInv, ScopeTypeOK, LineSound, LineClosed, InLine
  <2>2. staff \cap MembersOf(visited) \subseteq InDepartments
    <3>1. SUFFICES ASSUME NEW p \in staff \cap MembersOf(visited)
                   PROVE  p \in InDepartments
      OBVIOUS
    <3>2. p \in People /\ org.department[p] \in visited
      BY DEF ScopeInv, ScopeTypeOK, MembersOf
    <3>3. HasDepartment(user) /\ HasDepartment(p)
      BY <3>2, ScopeConstantsAssumption
         DEF ScopeInv, ScopeTypeOK, WalkSound, HasDepartment
    <3>4. ASSUME NEW S \in SUBSET Departments, BelowClosed(S)
          PROVE  org.department[p] \in S
      BY <3>2, <3>4 DEF ScopeInv, WalkSound
    <3> QED  BY <3>2, <3>3, <3>4 DEF InDepartments, BelowClosed
  <2> QED  BY <1>1, <2>1, <2>2 DEF Collected, FullScope
<1>2. CASE asks # "supervisor"
  BY <1>2 DEF ScopeInv, ScopeTypeOK, StepsInOrder, Lining, Collected, FullScope
<1> QED  BY <1>1, <1>2

\* When no call failed, everybody who belongs to the scope was found.
LEMMA CollectedComplete ==
  ASSUME ScopeInv, scopeStep = "resolving", ~ failed
  PROVE  FullScope \subseteq {user} \cup Collected
<1>1. CASE asks = "supervisor"
  <2>1. staff = People /\ line = {} /\ level = {}
    BY <1>1 DEF ScopeInv, StepsInOrder, WalkComplete, Lining
  <2>2. InLine \subseteq managed
    <3>1. LineClosed(managed) /\ managed \in SUBSET People
      BY <2>1 DEF ScopeInv, ScopeTypeOK, LineComplete, LineClosed, ReportsOf, ReportsIn
    <3> QED  BY <3>1 DEF InLine, LineClosed
  <2>3. InDepartments \subseteq MembersOf(visited)
    <3>1. SUFFICES ASSUME NEW p \in InDepartments PROVE p \in MembersOf(visited)
      OBVIOUS
    <3>2. p \in People /\ HasDepartment(user)
      BY DEF InDepartments
    <3>3. BelowClosed(visited) /\ visited \in SUBSET Departments
      BY <1>1, <2>1, <3>2 DEF ScopeInv, ScopeTypeOK, WalkComplete, Lining, BelowClosed
    <3>4. org.department[p] \in visited
      BY <3>3 DEF InDepartments, BelowClosed
    <3> QED  BY <3>2, <3>4 DEF MembersOf
  <2>4. InDepartments \subseteq People
    BY DEF InDepartments
  <2> QED  BY <1>1, <2>1, <2>2, <2>3, <2>4 DEF Collected, FullScope
<1>2. CASE asks # "supervisor"
  BY <1>2 DEF ScopeInv, ScopeTypeOK, StepsInOrder, Lining, Collected, FullScope
<1> QED  BY <1>1, <1>2

\* One round of the walk down the departments.
LEMMA WalkLevelSound ==
  ASSUME ScopeInv, WalkLevel
  PROVE  ScopeInv'
<1>1. PICK answered \in SUBSET level :
        /\ visited' = visited \cup NewBelow(answered)
        /\ level' = NewBelow(answered)
        /\ failed' = (failed \/ answered # level)
  BY DEF WalkLevel
<1>2. /\ scopeStep = "walking" /\ scopeStep' = "walking"
      /\ org' = org /\ user' = user /\ asks' = asks /\ staff' = staff
      /\ managed' = managed /\ line' = line /\ scope' = scope
  BY DEF WalkLevel
<1>3. /\ org \in OrgType /\ user \in People /\ level \subseteq visited
      /\ visited \subseteq Departments
      /\ visited # {} => HasDepartment(user)
  BY DEF ScopeInv, ScopeTypeOK, WalkSound
<1>4. \A d \in answered : org.below[d] \subseteq Departments
  BY <1>3 DEF OrgType
<1>5. ScopeTypeOK'
  <2>1. NewBelow(answered) \subseteq Departments
    BY <1>4 DEF NewBelow
  <2> QED  BY <1>1, <1>2, <2>1 DEF ScopeInv, ScopeTypeOK
<1>6. WalkSound'
  <2>1. (visited # {} => HasDepartment(user))'
    BY <1>1, <1>2, <1>3 DEF HasDepartment, NewBelow
  <2>2. ASSUME NEW S \in SUBSET Departments, BelowClosed(S)
        PROVE  visited' \subseteq S
    <3>1. visited \subseteq S
      BY <2>2 DEF ScopeInv, WalkSound
    <3>2. NewBelow(answered) \subseteq S
      BY <1>3, <2>2, <3>1 DEF NewBelow, BelowClosed
    <3> QED  BY <1>1, <3>1, <3>2
  <2>3. \A S : BelowClosed(S)' <=> BelowClosed(S)
    BY <1>2 DEF BelowClosed
  <2> QED  BY <2>1, <2>2, <2>3 DEF WalkSound
<1>7. WalkComplete'
  <2>1. SUFFICES ASSUME asks = "supervisor", ~ failed'
                 PROVE  /\ staff = People
                        /\ HasDepartment(user) =>
                             /\ org.department[user] \in visited'
                             /\ \A d \in visited' \ level' : org.below[d] \subseteq visited'
    BY <1>2 DEF WalkComplete, HasDepartment
  <2>2. answered = level /\ ~ failed
    BY <1>1, <2>1
  <2>3. /\ staff = People
        /\ HasDepartment(user) =>
             /\ org.department[user] \in visited
             /\ \A d \in visited \ level : org.below[d] \subseteq visited
    BY <1>2, <2>1, <2>2 DEF ScopeInv, WalkComplete
  <2>4. ASSUME HasDepartment(user), NEW d \in visited' \ level'
        PROVE  org.below[d] \subseteq visited'
    <3>1. d \in visited
      BY <1>1, <2>4
    <3>2. CASE d \in level
      BY <1>1, <2>2, <3>2 DEF NewBelow
    <3>3. CASE d \notin level
      BY <1>1, <2>3, <2>4, <3>1, <3>3
    <3> QED  BY <3>2, <3>3
  <2> QED  BY <1>1, <2>3, <2>4
<1>8. StepsInOrder'
  BY <1>1, <1>2 DEF ScopeInv, StepsInOrder, Lining
<1>9. LineSound' /\ LineComplete' /\ ScopeSound'
  BY <1>2 DEF ScopeInv, LineSound, LineClosed, LineComplete, ScopeSound, ReportsIn
<1> QED  BY <1>5, <1>6, <1>7, <1>8, <1>9 DEF ScopeInv

\* One person followed down the reporting lines.
LEMMA FollowLineSound ==
  ASSUME ScopeInv, FollowLine
  PROVE  ScopeInv'
<1>1. PICK p \in line :
        /\ managed' = managed \cup ReportsOf(p)
        /\ line' = (line \ {p}) \cup (ReportsOf(p) \ managed)
  BY DEF FollowLine
<1>2. /\ scopeStep = "following" /\ scopeStep' = "following"
      /\ org' = org /\ user' = user /\ asks' = asks /\ staff' = staff
      /\ visited' = visited /\ level' = level /\ failed' = failed /\ scope' = scope
  BY DEF FollowLine
<1>3. ScopeTypeOK'
  BY <1>1, <1>2 DEF ScopeInv, ScopeTypeOK, ReportsOf
<1>4. LineSound'
  <2>1. ASSUME NEW S \in SUBSET People, LineClosed(S)
        PROVE  managed' \subseteq S
    <3>1. managed \subseteq S /\ p \in S
      BY <2>1 DEF ScopeInv, ScopeTypeOK, LineSound
    <3>2. ReportsOf(p) \subseteq S
      BY <2>1, <3>1 DEF ScopeInv, ScopeTypeOK, LineClosed, ReportsOf, ReportsIn
    <3> QED  BY <1>1, <3>1, <3>2
  <2>2. \A S : LineClosed(S)' <=> LineClosed(S)
    BY <1>2 DEF LineClosed, ReportsIn
  <2> QED  BY <2>1, <2>2 DEF LineSound
<1>5. LineComplete'
  BY <1>1, <1>2 DEF ScopeInv, ScopeTypeOK, LineComplete, ReportsOf
<1>6. WalkSound' /\ WalkComplete' /\ ScopeSound'
  BY <1>2 DEF ScopeInv, WalkSound, WalkComplete, BelowClosed, HasDepartment, ScopeSound
<1>7. StepsInOrder'
  BY <1>1, <1>2 DEF ScopeInv, StepsInOrder, Lining, MembersOf, HasDepartment
<1> QED  BY <1>3, <1>4, <1>5, <1>6, <1>7 DEF ScopeInv

\* A step that begins a request.
LEMMA FreshSound ==
  ASSUME ScopeInv, UNCHANGED org, (user \in People)', asks' \in {"supervisor", "assetUser"},
         scopeStep' = "start", visited' = {}, level' = {}, staff' = {}, managed' = {},
         line' = {}, failed' = FALSE, scope' = {}
  PROVE  ScopeInv'
<1>1. ScopeTypeOK'
  BY DEF ScopeInv, ScopeTypeOK, ScopeSteps
<1>2. StepsInOrder'
  BY DEF StepsInOrder, Lining
<1>3. WalkSound' /\ LineSound' /\ WalkComplete' /\ LineComplete' /\ ScopeSound'
  BY DEF WalkSound, LineSound, WalkComplete, LineComplete, ScopeSound, Lining
<1> QED  BY <1>1, <1>2, <1>3 DEF ScopeInv

\* A step that only moves on, from one step of the request to the next.
LEMMA MovesOn ==
  ASSUME ScopeInv, UNCHANGED <<org, user, asks, walkVars>>,
         \/ scopeStep = "start" /\ asks = "supervisor" /\ scopeStep' = "staff"
         \/ scopeStep = "walking" /\ level = {} /\ staff = {} /\ scopeStep' = "fallback"
         \/ scopeStep = "walking" /\ level = {} /\ scopeStep' = "line"
         \/ scopeStep = "following" /\ line = {} /\ scopeStep' = "resolving"
         \/ scopeStep' = "thrown"
         \/ UNCHANGED scopeStep
  PROVE  ScopeInv'
<1>1. /\ org' = org /\ user' = user /\ asks' = asks /\ visited' = visited
      /\ level' = level /\ staff' = staff /\ managed' = managed /\ line' = line
      /\ failed' = failed /\ scope' = scope
  BY DEF walkVars
<1>2. ScopeTypeOK'
  BY <1>1 DEF ScopeInv, ScopeTypeOK, ScopeSteps
<1>3. StepsInOrder'
  BY <1>1 DEF ScopeInv, StepsInOrder, Lining, MembersOf, HasDepartment
<1>4. WalkSound' /\ LineSound'
  BY <1>1 DEF ScopeInv, WalkSound, LineSound, BelowClosed, LineClosed, HasDepartment, ReportsIn
<1>5. WalkComplete' /\ LineComplete'
  BY <1>1 DEF ScopeInv, WalkComplete, LineComplete, StepsInOrder, HasDepartment, ReportsOf, Lining
<1>6. ScopeSound'
  <2>1. FullScope' = FullScope
    BY <1>1 DEF FullScope, InLine, InDepartments, MembersOf, ReportsIn, HasDepartment
  <2> QED  BY <1>1, <2>1 DEF ScopeInv, ScopeSound
<1> QED  BY <1>2, <1>3, <1>4, <1>5, <1>6 DEF ScopeInv

\* The employees are fetched, and the walk begins where the user is.
LEMMA FetchStaffSound ==
  ASSUME ScopeInv, FetchStaff
  PROVE  ScopeInv'
<1>1. /\ scopeStep = "staff" /\ scopeStep' \in {"walking", "line"}
      /\ staff' = People \/ (staff' = {} /\ failed')
      /\ failed' \in BOOLEAN
      /\ org' = org /\ user' = user /\ asks' = asks
      /\ managed' = managed /\ line' = line /\ scope' = scope
  BY DEF FetchStaff, ScopeInv, ScopeTypeOK
<1>2. \/ /\ HasDepartment(user) /\ scopeStep' = "walking"
         /\ visited' = {org.department[user]} /\ level' = {org.department[user]}
      \/ /\ ~ HasDepartment(user) /\ scopeStep' = "line"
         /\ visited' = {} /\ level' = {}
  BY DEF FetchStaff, ScopeInv, ScopeTypeOK, StepsInOrder
<1>3. asks = "supervisor" /\ managed = {} /\ line = {}
  BY <1>1 DEF ScopeInv, ScopeTypeOK, StepsInOrder
<1>4. HasDepartment(user) => org.department[user] \in Departments
  BY DEF ScopeInv, ScopeTypeOK, OrgType, HasDepartment
<1>5. ScopeTypeOK'
  BY <1>1, <1>2, <1>3, <1>4 DEF ScopeInv, ScopeTypeOK, ScopeSteps
<1>6. StepsInOrder'
  BY <1>1, <1>2, <1>3 DEF StepsInOrder, Lining
<1>7. WalkSound' /\ LineSound'
  BY <1>1, <1>2, <1>3 DEF WalkSound, LineSound, BelowClosed, HasDepartment
<1>8. WalkComplete' /\ LineComplete' /\ ScopeSound'
  BY <1>1, <1>2 DEF WalkComplete, LineComplete, ScopeSound, HasDepartment, Lining
<1> QED  BY <1>5, <1>6, <1>7, <1>8 DEF ScopeInv

\* The members of the departments are fetched one department at a time.
LEMMA FetchByDepartmentSound ==
  ASSUME ScopeInv, FetchByDepartment
  PROVE  ScopeInv'
<1>1. /\ scopeStep = "fallback" /\ scopeStep' = "line" /\ staff' \subseteq People
      /\ org' = org /\ user' = user /\ asks' = asks /\ visited' = visited
      /\ level' = level /\ managed' = managed /\ line' = line
      /\ failed' = failed /\ scope' = scope
  BY DEF FetchByDepartment, MembersOf
<1>2. asks = "supervisor" /\ managed = {} /\ line = {} /\ level = {}
  BY <1>1 DEF ScopeInv, ScopeTypeOK, StepsInOrder
<1>3. failed
  BY <1>1, <1>2 DEF ScopeInv, ScopeTypeOK, StepsInOrder, WalkComplete
<1>4. ScopeTypeOK'
  BY <1>1, <1>2 DEF ScopeInv, ScopeTypeOK, ScopeSteps
<1>5. StepsInOrder'
  BY <1>1, <1>2 DEF StepsInOrder, Lining
<1>6. WalkSound' /\ LineSound'
  BY <1>1 DEF ScopeInv, WalkSound, LineSound, BelowClosed, LineClosed, HasDepartment, ReportsIn
<1>7. WalkComplete' /\ LineComplete' /\ ScopeSound'
  BY <1>1, <1>3 DEF WalkComplete, LineComplete, ScopeSound
<1> QED  BY <1>4, <1>5, <1>6, <1>7 DEF ScopeInv

\* The colleagues of an asset user are fetched.
LEMMA FindAssetUserSound ==
  ASSUME ScopeInv, FindAssetUser
  PROVE  ScopeInv'
<1>1. /\ scopeStep = "start" /\ scopeStep' = "line" /\ asks = "assetUser"
      /\ HasDepartment(user) /\ staff' = MembersOf({org.department[user]})
      /\ org' = org /\ user' = user /\ asks' = asks /\ visited' = visited
      /\ level' = level /\ managed' = managed /\ line' = line
      /\ failed' = failed /\ scope' = scope
  BY DEF FindAssetUser
<1>2. managed = {} /\ line = {} /\ visited = {} /\ level = {}
  BY <1>1 DEF ScopeInv, ScopeTypeOK, StepsInOrder
<1>3. MembersOf({org.department[user]}) \subseteq People
  BY DEF MembersOf
<1>4. ScopeTypeOK'
  BY <1>1, <1>2, <1>3 DEF ScopeInv, ScopeTypeOK, ScopeSteps
<1>5. StepsInOrder'
  BY <1>1, <1>2 DEF StepsInOrder, Lining, MembersOf, HasDepartment
<1>6. WalkSound' /\ LineSound'
  BY <1>1, <1>2 DEF WalkSound, LineSound
<1>7. WalkComplete' /\ LineComplete' /\ ScopeSound'
  BY <1>1 DEF WalkComplete, LineComplete, ScopeSound
<1> QED  BY <1>4, <1>5, <1>6, <1>7 DEF ScopeInv

\* The walk down the reporting lines begins with the user's own reports.
LEMMA BeginLineSound ==
  ASSUME ScopeInv, BeginLine
  PROVE  ScopeInv'
<1>1. /\ scopeStep = "line" /\ scopeStep' = "following"
      /\ managed' = ReportsOf(user) /\ line' = ReportsOf(user)
      /\ org' = org /\ user' = user /\ asks' = asks /\ visited' = visited
      /\ level' = level /\ staff' = staff /\ failed' = failed /\ scope' = scope
  BY DEF BeginLine
<1>2. ScopeTypeOK'
  BY <1>1 DEF ScopeInv, ScopeTypeOK, ScopeSteps, ReportsOf
<1>3. StepsInOrder'
  BY <1>1 DEF ScopeInv, StepsInOrder, Lining, MembersOf, HasDepartment
<1>4. LineSound'
  BY <1>1 DEF ScopeInv, ScopeTypeOK, LineSound, LineClosed, ReportsOf, ReportsIn
<1>5. LineComplete'
  BY <1>1 DEF LineComplete, ReportsOf
<1>6. WalkSound' /\ WalkComplete' /\ ScopeSound'
  BY <1>1 DEF ScopeInv, WalkSound, WalkComplete, BelowClosed, HasDepartment, ScopeSound, Lining
<1> QED  BY <1>2, <1>3, <1>4, <1>5, <1>6 DEF ScopeInv

\* The ids are looked up, and the scope is what was found.
LEMMA ResolveSound ==
  ASSUME ScopeInv, Resolve
  PROVE  ScopeInv'
<1>1. PICK unresolved \in SUBSET (Collected \ Linked) :
        /\ scope' = {user} \cup (Collected \ unresolved)
        /\ failed' = (failed \/ unresolved # {})
  BY DEF Resolve
<1>2. /\ scopeStep = "resolving" /\ scopeStep' = "done"
      /\ org' = org /\ user' = user /\ asks' = asks /\ visited' = visited
      /\ level' = level /\ staff' = staff /\ managed' = managed /\ line' = line
  BY DEF Resolve
<1>3. {user} \cup Collected \subseteq FullScope
  BY <1>2, CollectedSound
<1>4. FullScope' = FullScope
  BY <1>2 DEF FullScope, InLine, InDepartments, MembersOf, ReportsIn, HasDepartment
<1>5. ~ failed' => FullScope \subseteq scope'
  BY <1>1, <1>2, CollectedComplete
<1>6. ScopeSound'
  BY <1>1, <1>2, <1>3, <1>4, <1>5 DEF ScopeSound
<1>7. FullScope \subseteq People
  BY DEF ScopeInv, ScopeTypeOK, OrgType, FullScope, InLine, InDepartments, MembersOf
<1>8. ScopeTypeOK'
  BY <1>1, <1>2, <1>3, <1>7 DEF ScopeInv, ScopeTypeOK, ScopeSteps
<1>9. StepsInOrder' /\ WalkComplete' /\ LineComplete'
  BY <1>2 DEF StepsInOrder, WalkComplete, LineComplete, Lining
<1>10. WalkSound' /\ LineSound'
  BY <1>2 DEF ScopeInv, WalkSound, LineSound, BelowClosed, LineClosed, HasDepartment, ReportsIn
<1> QED  BY <1>6, <1>8, <1>9, <1>10 DEF ScopeInv

-----------------------------------------------------------------------------
\* The scope of a request is sound at each step, and complete when no call
\* failed (buildSupervisorScope, getAssetUserScopeIds).
THEOREM ScopeInvariant == ScopeSpec => []ScopeInv
<1>1. ScopeInit => ScopeInv
  <2> SUFFICES ASSUME ScopeInit PROVE ScopeInv
    OBVIOUS
  <2>1. ScopeTypeOK
    BY ScopeConstantsAssumption DEF ScopeInit, ScopeTypeOK, ScopeSteps
  <2>2. StepsInOrder
    BY DEF ScopeInit, StepsInOrder, Lining
  <2>3. WalkSound /\ LineSound /\ WalkComplete /\ LineComplete /\ ScopeSound
    BY DEF ScopeInit, WalkSound, LineSound, WalkComplete, LineComplete, ScopeSound, Lining
  <2> QED  BY <2>1, <2>2, <2>3 DEF ScopeInv
<1>2. ScopeInv /\ [ScopeNext]_scopeVars => ScopeInv'
  <2> SUFFICES ASSUME ScopeInv, [ScopeNext]_scopeVars PROVE ScopeInv'
    OBVIOUS
  <2>1. CASE FindSupervisor
    BY <2>1, MovesOn DEF FindSupervisor
  <2>2. CASE FetchStaff
    BY <2>2, FetchStaffSound
  <2>3. CASE WalkLevel
    BY <2>3, WalkLevelSound
  <2>4. CASE EndWalk
    BY <2>4, MovesOn DEF EndWalk
  <2>5. CASE FetchByDepartment
    BY <2>5, FetchByDepartmentSound
  <2>6. CASE FindAssetUser
    BY <2>6, FindAssetUserSound
  <2>7. CASE BeginLine
    BY <2>7, BeginLineSound
  <2>8. CASE FollowLine
    BY <2>8, FollowLineSound
  <2>9. CASE EndLine
    BY <2>9, MovesOn DEF EndLine
  <2>10. CASE Resolve
    BY <2>10, ResolveSound
  <2>11. CASE Refuse
    BY <2>11, MovesOn DEF Refuse
  <2>12. CASE NextRequest
    BY <2>12, FreshSound DEF NextRequest
  <2>13. CASE UNCHANGED scopeVars
    BY <2>13, MovesOn DEF scopeVars, walkVars
  <2> QED  BY <2>1, <2>2, <2>3, <2>4, <2>5, <2>6, <2>7, <2>8, <2>9, <2>10,
              <2>11, <2>12, <2>13 DEF ScopeNext
<1> QED  BY <1>1, <1>2, PTL DEF ScopeSpec

\* A failed call only narrows a scope, and a scope is never empty: an empty
\* one would lift the filter of the searches.
THEOREM FailuresNarrow == ScopeSpec => []FailuresOnlyNarrow
<1>1. ScopeInv => FailuresOnlyNarrow
  BY DEF ScopeInv, ScopeSound, FailuresOnlyNarrow
<1> QED  BY <1>1, ScopeInvariant, PTL

\* When no call failed a scope is all it should be, in any organisation:
\* whatever cycles the departments and the reporting lines hold.
THEOREM ScopeCompleteness == ScopeSpec => []ScopeIsComplete
<1>1. ScopeInv => ScopeIsComplete
  BY DEF ScopeInv, ScopeSound, ScopeIsComplete
<1> QED  BY <1>1, ScopeInvariant, PTL

\* What a user may change it sees (AssetModificationAccessGuard against the
\* filter of the searches).
THEOREM ChangesAreSeen == ScopeSpec => []ChangesOnlyWhatItSees
<1>1. ScopeInv => ChangesOnlyWhatItSees
  <2> SUFFICES ASSUME ScopeInv, scopeStep = "done",
                      NEW roles \in SUBSET Roles, NEW responsible \in SUBSET People,
                      ~ {"supervisor", "auditor"} \subseteq roles,
                      asks = AskedBy(roles),
                      MayChange(roles, responsible)
               PROVE  Sees(roles, responsible)
    BY DEF ChangesOnlyWhatItSees
  <2>1. user \in scope
    BY DEF ScopeInv, ScopeSound
  <2>2. CASE "administrator" \in roles
    BY <2>2 DEF Sees
  <2>3. CASE "administrator" \notin roles /\ "auditor" \in roles
    BY <2>3 DEF Sees
  <2>4. CASE "administrator" \notin roles /\ "auditor" \notin roles
    BY <2>1, <2>4 DEF MayChange, Sees, InScope
  <2> QED  BY <2>2, <2>3, <2>4
<1> QED  BY <1>1, ScopeInvariant, PTL

\* Neither walk goes round in a cycle.
THEOREM WalksNeverStall == ScopeSpec => WalksAdvance
<1> DEFINE Advances ==
      /\ scopeStep = "walking" /\ scopeStep' = "walking"
         => level' = {} \/ (visited \subseteq visited' /\ visited # visited')
      /\ scopeStep = "following" /\ scopeStep' = "following"
         => \/ managed \subseteq managed' /\ managed # managed'
            \/ line' \subseteq line /\ line # line'
<1>1. ScopeInv /\ [ScopeNext]_scopeVars => [Advances]_scopeVars
  <2> SUFFICES ASSUME ScopeInv, ScopeNext PROVE Advances
    OBVIOUS
  <2>1. CASE WalkLevel
    BY <2>1 DEF WalkLevel, NewBelow
  <2>2. CASE FollowLine
    BY <2>2 DEF FollowLine, ReportsOf
  <2>3. CASE ~ WalkLevel /\ ~ FollowLine
    BY <2>3 DEF ScopeNext, FindSupervisor, FetchStaff, EndWalk, FetchByDepartment,
                FindAssetUser, BeginLine, EndLine, Resolve, Refuse, NextRequest
  <2> QED  BY <2>1, <2>2, <2>3
<1> QED  BY <1>1, ScopeInvariant, PTL DEF ScopeSpec, WalksAdvance

-----------------------------------------------------------------------------
(* File imports.                                                          *)

\* The local variables of an import.
IsImport(m) ==
  m = [ st |-> m.st, file |-> m.file, row |-> m.row, saved |-> m.saved,
        reported |-> m.reported, unlucky |-> m.unlucky ]

Last(m) == Len(RowsOf[m.file])

\* The rows before the one an import is at are answered for.
Answered(m) ==
  /\ m.file \in Files
  /\ m.row \in Nat \ {0}
  /\ m.saved \subseteq 1..Last(m) /\ m.reported \subseteq 1..Last(m)
  /\ m.st \in {"check", "lookup", "create"} =>
       m.row <= Last(m) /\ 1..(m.row - 1) \subseteq m.saved \cup m.reported
  /\ m.st \in {"ending", "succeeded", "withErrors"} =>
       1..Last(m) \subseteq m.saved \cup m.reported
  /\ m.st = "succeeded" => m.reported = {}
  /\ m.st = "withErrors" => m.reported # {}

\* What import j saved is in the stock.
Stocked(j, m, assets) ==
  \A i \in m.saved :
    [type |-> Template[m.file].type, ref |-> RefOf(RowsOf[m.file][i]), by |-> j]
      \in assets

Sound(j, m, assets) ==
  /\ IsImport(m)
  /\ m.st # "none" => Answered(m)
  /\ Stocked(j, m, assets)
  /\ m.st = "none" => m.saved = {}

\* The inductive invariant.
ImportInv ==
  /\ stock \in Seq(Assets)
  /\ import = [j \in Imports |-> import[j]]
  /\ \A j \in Imports : Sound(j, import[j], Assets)

-----------------------------------------------------------------------------
\* An asset that is appended to the stock is there, and nothing gets lost.
LEMMA AppendKeeps ==
  ASSUME stock \in Seq(Assets), NEW a, stock' = Append(stock, a)
  PROVE  /\ stock' \in Seq(Assets')
         /\ Assets \subseteq Assets'
         /\ a \in Assets'
<1> DEFINE n == Len(stock)
<1>1. stock \in Seq(Assets \cup {a}) /\ n \in Nat /\ DOMAIN stock = 1..n
  <2>1. Assets \subseteq Assets \cup {a}
    OBVIOUS
  <2> QED  BY <2>1
<1>2. /\ stock' \in Seq(Assets \cup {a})
      /\ Len(stock') = n + 1
      /\ DOMAIN stock' = 1..(n + 1)
      /\ \A i \in 1..n : stock'[i] = stock[i]
      /\ stock'[n + 1] = a
  BY <1>1
<1>3. a \in Assets'
  BY <1>1, <1>2 DEF Assets
<1>4. Assets \subseteq Assets'
  BY <1>1, <1>2 DEF Assets
<1>5. \A i \in 1..Len(stock') : stock'[i] \in Assets'
  BY <1>2 DEF Assets
<1> QED  BY <1>2, <1>3, <1>4, <1>5

\* A step that gives one import sound local variables keeps the others sound.
LEMMA ImportStep ==
  ASSUME ImportInv, NEW j \in Imports, NEW record,
         stock' \in Seq(Assets'), Assets \subseteq Assets',
         Sound(j, record, Assets'),
         import' = [import EXCEPT ![j] = record]
  PROVE  ImportInv'
<1>1. import' = [k \in Imports |-> IF k = j THEN record ELSE import[k]]
  BY DEF ImportInv
<1>2. \A k \in Imports : Sound(k, import'[k], Assets')
  <2>1. \A k \in Imports : Sound(k, import[k], Assets')
    BY DEF ImportInv, Sound, Stocked
  <2> QED  BY <1>1, <2>1
<1>3. import' = [k \in Imports |-> import'[k]]
  BY <1>1
<1> QED  BY <1>2, <1>3 DEF ImportInv, Sound, IsImport, Answered, Last, Stocked, RefOf

\* A step that leaves the imports and the stock alone keeps the invariant.
LEMMA NoStep ==
  ASSUME ImportInv, stock' = stock, import' = import
  PROVE  ImportInv'
  BY DEF ImportInv, Sound, IsImport, Answered, Last, Stocked, RefOf, Assets

\* What a row's end changes in an import's local variables.
LEMMA NextRowFields ==
  ASSUME NEW j, IsImport(import[j]), NEW saved, NEW reported
  PROVE  LET m == import[j]
             next == NextRow(j, saved, reported)
         IN  /\ IsImport(next)
             /\ next.row = m.row + 1 /\ next.file = m.file
             /\ next.saved = m.saved \cup saved
             /\ next.reported = m.reported \cup reported
             /\ next.st = (IF m.row = Last(m) THEN "ending" ELSE "check")
             /\ next.unlucky = m.unlucky
<1> DEFINE m == import[j]
           o == [m EXCEPT !.row = m.row + 1]
           p == [o EXCEPT !.saved = m.saved \cup saved]
           q == [p EXCEPT !.reported = m.reported \cup reported]
           st == IF m.row = Last(m) THEN "ending" ELSE "check"
           r == [q EXCEPT !.st = st]
<1>1. NextRow(j, saved, reported) = r
  BY DEF NextRow, Last, FileRows
<1>2. /\ IsImport(o) /\ o.row = m.row + 1 /\ o.file = m.file
      /\ o.saved = m.saved /\ o.reported = m.reported /\ o.unlucky = m.unlucky
  BY DEF IsImport
<1> HIDE DEF o
<1>3. /\ IsImport(p) /\ p.row = m.row + 1 /\ p.file = m.file /\ p.unlucky = m.unlucky
      /\ p.saved = m.saved \cup saved /\ p.reported = m.reported
  BY <1>2 DEF IsImport
<1> HIDE DEF p
<1>4. /\ IsImport(q) /\ q.row = m.row + 1 /\ q.file = m.file /\ q.unlucky = m.unlucky
      /\ q.saved = m.saved \cup saved /\ q.reported = m.reported \cup reported
  BY <1>3 DEF IsImport
<1> HIDE DEF q, st
<1>5. /\ IsImport(r) /\ r.row = m.row + 1 /\ r.file = m.file /\ r.unlucky = m.unlucky
      /\ r.saved = m.saved \cup saved /\ r.reported = m.reported \cup reported
      /\ r.st = st
  BY <1>4 DEF IsImport
<1> HIDE DEF r
<1> QED  BY <1>1, <1>5 DEF st

\* A row that is saved or reported is answered for, and the import goes on.
LEMMA NextRowSound ==
  ASSUME NEW j \in Imports, NEW assets, Sound(j, import[j], assets),
         Running(j), NEW saved, NEW reported,
         \/ saved = {} /\ reported = {import[j].row}
         \/ saved = {import[j].row} /\ reported = {},
         \A i \in saved :
           [type |-> Kind(j).type, ref |-> RefOf(FileRows(j)[i]), by |-> j] \in assets
  PROVE  Sound(j, NextRow(j, saved, reported), assets)
<1> DEFINE m == import[j]
           next == NextRow(j, saved, reported)
<1>1. /\ IsImport(m) /\ Answered(m)
      /\ m.st \in {"check", "lookup", "create"}
  BY DEF Sound, Running
<1>2. Last(m) \in Nat
  BY <1>1, ImportAssumption DEF Answered, Last
<1>3. /\ IsImport(next)
      /\ next.row = m.row + 1 /\ next.file = m.file
      /\ next.saved = m.saved \cup saved
      /\ next.reported = m.reported \cup reported
      /\ next.st = IF m.row = Last(m) THEN "ending" ELSE "check"
  BY <1>1, NextRowFields
<1> HIDE DEF next
<1>4. Last(next) = Last(m)
  BY <1>3 DEF Last
<1>5. Answered(next)
  <2>1. m.row \in 1..Last(m) /\ 1..(m.row - 1) \subseteq m.saved \cup m.reported
    BY <1>1, <1>2 DEF Answered
  <2>2. 1..m.row \subseteq next.saved \cup next.reported
    BY <1>1, <1>2, <1>3, <2>1
  <2>3. next.saved \subseteq 1..Last(m) /\ next.reported \subseteq 1..Last(m)
    BY <1>1, <1>3, <2>1 DEF Answered
  <2> QED  BY <1>1, <1>2, <1>3, <1>4, <2>1, <2>2, <2>3 DEF Answered
<1>6. Stocked(j, next, assets)
  <2>1. SUFFICES ASSUME NEW i \in m.saved \cup saved
                 PROVE  [ type |-> Template[m.file].type,
                          ref |-> RefOf(RowsOf[m.file][i]), by |-> j ] \in assets
    BY <1>3 DEF Stocked
  <2>2. CASE i \in m.saved
    BY <2>2 DEF Stocked, Sound
  <2>3. CASE i \in saved
    <3>1. [type |-> Kind(j).type, ref |-> RefOf(FileRows(j)[i]), by |-> j] \in assets
      BY <2>3
    <3> QED  BY <3>1 DEF Kind, FileRows
  <2> QED  BY <2>1, <2>2, <2>3
<1>7. Sound(j, next, assets)
  BY <1>3, <1>5, <1>6 DEF Sound
<1> QED  BY <1>7 DEF next

\* An import goes on with the same row, or ends.
LEMMA StepSet ==
  ASSUME NEW j \in Imports, NEW assets, Sound(j, import[j], assets), NEW st,
         \/ Running(j) /\ st \in {"create", "broken"}
         \/ /\ import[j].st = "ending"
            /\ st = IF import[j].reported = {} THEN "succeeded" ELSE "withErrors"
  PROVE  Sound(j, [import[j] EXCEPT !.st = st], assets)
<1> DEFINE m == import[j]
           next == [m EXCEPT !.st = st]
<1>1. /\ IsImport(next) /\ next.st = st /\ next.file = m.file /\ next.row = m.row
      /\ next.saved = m.saved /\ next.reported = m.reported
  BY DEF Sound, IsImport
<1>2. Answered(m)
  BY DEF Sound, Running
<1> HIDE DEF next
<1>3. Answered(next)
  BY <1>1, <1>2 DEF Answered, Last, Running
<1>4. Sound(j, next, assets)
  BY <1>1, <1>3 DEF Sound, Stocked, Running
<1> QED  BY <1>4 DEF next

\* Whether a look-up failed makes no difference.
LEMMA LuckSet ==
  ASSUME NEW j, NEW m, NEW assets, Sound(j, m, assets), NEW unlucky
  PROVE  Sound(j, [m EXCEPT !.unlucky = unlucky], assets)
<1> DEFINE next == [m EXCEPT !.unlucky = unlucky]
<1>1. /\ IsImport(next) /\ next.st = m.st /\ next.file = m.file /\ next.row = m.row
      /\ next.saved = m.saved /\ next.reported = m.reported
  BY DEF Sound, IsImport
<1> HIDE DEF next
<1>2. Sound(j, next, assets)
  BY <1>1 DEF Sound, Answered, Last, Stocked
<1> QED  BY <1>2 DEF next

LEMMA InitSound == ImportInit => ImportInv
<1> SUFFICES ASSUME ImportInit PROVE ImportInv
  OBVIOUS
<1>1. stock \in Seq(Assets)
  BY ImportAssumption DEF ImportInit, Assets
<1>2. \A j \in Imports : Sound(j, NotAsked, Assets)
  BY DEF Sound, IsImport, Stocked, NotAsked, Import
<1> QED  BY <1>1, <1>2 DEF ImportInit, ImportInv

LEMMA StepSound == ImportInv /\ [ImportNext]_importVars => ImportInv'
<1> SUFFICES ASSUME ImportInv, [ImportNext]_importVars PROVE ImportInv'
  OBVIOUS
<1>0. CASE UNCHANGED importVars
  BY <1>0, NoStep DEF importVars
<1>1. CASE \E f \in Files, valid \in BOOLEAN : Upload(f, valid)
  BY <1>1, NoStep DEF Upload
<1>s. ASSUME stock' = stock
      PROVE  stock' \in Seq(Assets') /\ Assets' = Assets
  BY <1>s DEF ImportInv, Assets
<1>n. ASSUME NEW j \in Imports,
             \/ \E f \in Files : Apply(j, f)
             \/ CheckRow(j)
             \/ \E answers \in BOOLEAN : LookUpRow(j, answers)
             \/ CreateRow(j)
             \/ RefuseRow(j)
             \/ EndImport(j)
             \/ BreakImport(j)
      PROVE  ImportInv'
  <2> DEFINE m == import[j]
  <2>0. Sound(j, m, Assets)
    BY DEF ImportInv
  <2>1. ASSUME NEW f \in Files, Apply(j, f) PROVE ImportInv'
    <3> DEFINE st == IF Len(RowsOf[f]) = 0 THEN "ending" ELSE "check"
               next == Import(st, f, 1)
    <3>1. import' = [import EXCEPT ![j] = next] /\ stock' = stock
      BY <2>1 DEF Apply
    <3>2. /\ IsImport(next) /\ next.st = st /\ next.file = f /\ next.row = 1
          /\ next.saved = {} /\ next.reported = {}
      BY DEF Import, IsImport
    <3>3. Len(RowsOf[f]) \in Nat
      BY ImportAssumption
    <3> HIDE DEF next
    <3>4. Answered(next)
      <4>1. Last(next) = Len(RowsOf[f])
        BY <3>2 DEF Last
      <4>2. CASE Len(RowsOf[f]) = 0
        <5>1. 1..Last(next) = {}
          BY <4>1, <4>2
        <5> QED  BY <3>2, <4>2, <5>1 DEF Answered
      <4>3. CASE Len(RowsOf[f]) # 0
        <5>1. 1 <= Last(next) /\ 1..(1 - 1) = {}
          BY <3>3, <4>1, <4>3
        <5> QED  BY <3>2, <4>3, <5>1 DEF Answered
      <4> QED  BY <4>2, <4>3
    <3>5. Sound(j, next, Assets)
      BY <3>2, <3>4 DEF Sound, Stocked
    <3> QED  BY <1>n, <1>s, <3>1, <3>5, ImportStep
  <2>2. CASE CheckRow(j)
    <3>1. Running(j) /\ stock' = stock
      BY <2>2 DEF CheckRow, At, Running
    <3>2. CASE Exact(j) # {} \/ SameIp(j) # {}
      <4>1. import' = [import EXCEPT ![j] = NextRow(j, {}, {m.row})]
        BY <2>2, <3>2 DEF CheckRow
      <4>2. Sound(j, NextRow(j, {}, {m.row}), Assets)
        BY <2>0, <3>1, NextRowSound
      <4> QED  BY <1>n, <1>s, <3>1, <4>1, <4>2, ImportStep
    <3>3. CASE ~ (Exact(j) # {} \/ SameIp(j) # {})
      <4> DEFINE R == IF SameName(j) # {} THEN {m.row} ELSE {}
                 o == [m EXCEPT !.st = "lookup"]
                 next == [o EXCEPT !.reported = m.reported \cup R]
      <4>1. import' = [import EXCEPT ![j] = next]
        BY <2>2, <3>3 DEF CheckRow
      <4>2. /\ IsImport(o) /\ o.st = "lookup" /\ o.reported = m.reported
            /\ o.row = m.row /\ o.file = m.file /\ o.saved = m.saved
        BY <2>0 DEF Sound, IsImport
      <4> HIDE DEF o, R
      <4>3. /\ IsImport(next) /\ next.st = "lookup"
            /\ next.reported = m.reported \cup R
            /\ next.row = m.row /\ next.file = m.file /\ next.saved = m.saved
        BY <4>2 DEF IsImport
      <4> HIDE DEF next
      <4>4. Answered(next)
        <5>1. Answered(m) /\ m.st = "check"
          BY <2>0, <2>2 DEF Sound, CheckRow, At
        <5>2. Last(m) \in Nat /\ Last(next) = Last(m)
          BY <4>3, <5>1, ImportAssumption DEF Answered, Last
        <5>3. R \subseteq 1..Last(m)
          BY <5>1, <5>2 DEF Answered, R
        <5> QED  BY <4>3, <5>1, <5>2, <5>3 DEF Answered
      <4>5. Sound(j, next, Assets)
        BY <2>0, <4>3, <4>4 DEF Sound, Stocked
      <4> QED  BY <1>n, <1>s, <3>1, <4>1, <4>5, ImportStep
    <3> QED  BY <3>2, <3>3
  <2>3. ASSUME NEW answers \in BOOLEAN, LookUpRow(j, answers) PROVE ImportInv'
    <3>1. Running(j) /\ stock' = stock
      BY <2>3 DEF LookUpRow, At, Running
    <3>2. CASE answers /\ Found(j)
      <4>1. import' = [import EXCEPT ![j] = [m EXCEPT !.st = "create"]]
        BY <2>3, <3>2 DEF LookUpRow
      <4>2. Sound(j, [m EXCEPT !.st = "create"], Assets)
        BY <2>0, <3>1, StepSet
      <4> QED  BY <1>n, <1>s, <3>1, <4>1, <4>2, ImportStep
    <3>3. CASE ~ (answers /\ Found(j))
      <4> DEFINE next == NextRow(j, {}, {m.row})
                 unlucky == next.unlucky \/ ~ answers
      <4>1. import' = [import EXCEPT ![j] = [next EXCEPT !.unlucky = unlucky]]
        BY <2>3, <3>3 DEF LookUpRow
      <4>2. Sound(j, next, Assets)
        BY <2>0, <3>1, NextRowSound
      <4> HIDE DEF next, unlucky
      <4>3. Sound(j, [next EXCEPT !.unlucky = unlucky], Assets)
        BY <4>2, LuckSet
      <4> QED  BY <1>n, <1>s, <3>1, <4>1, <4>3, ImportStep
    <3> QED  BY <3>2, <3>3
  <2>4. CASE CreateRow(j)
    <3> DEFINE a == [type |-> Kind(j).type, ref |-> RefOf(Row(j)), by |-> j]
    <3>1. /\ Running(j)
          /\ stock' = Append(stock, a)
          /\ import' = [import EXCEPT ![j] = NextRow(j, {m.row}, {})]
      BY <2>4 DEF CreateRow, At, Running
    <3>2. /\ stock' \in Seq(Assets') /\ Assets \subseteq Assets' /\ a \in Assets'
      <4> HIDE DEF a
      <4> QED  BY <3>1, AppendKeeps DEF ImportInv
    <3>3. Sound(j, m, Assets')
      BY <2>0, <3>2 DEF Sound, Stocked
    <3>4. [type |-> Kind(j).type, ref |-> RefOf(FileRows(j)[m.row]), by |-> j] \in Assets'
      BY <3>2 DEF Row
    <3>5. Sound(j, NextRow(j, {m.row}, {}), Assets')
      <4> DEFINE assets == Assets'
      <4>1. Sound(j, import[j], assets) /\ \A i \in {m.row} :
              [type |-> Kind(j).type, ref |-> RefOf(FileRows(j)[i]), by |-> j] \in assets
        BY <3>3, <3>4
      <4> HIDE DEF assets
      <4>2. Sound(j, NextRow(j, {m.row}, {}), assets)
        BY <3>1, <4>1, NextRowSound
      <4> QED  BY <4>2 DEF assets
    <3> QED  BY <1>n, <3>1, <3>2, <3>5, ImportStep
  <2>5. CASE RefuseRow(j)
    <3> DEFINE next == NextRow(j, {}, {m.row})
    <3>1. /\ Running(j) /\ stock' = stock
          /\ import' = [import EXCEPT ![j] = [next EXCEPT !.unlucky = TRUE]]
      BY <2>5 DEF RefuseRow, At, Running
    <3>2. Sound(j, next, Assets)
      BY <2>0, <3>1, NextRowSound
    <3> HIDE DEF next
    <3>3. Sound(j, [next EXCEPT !.unlucky = TRUE], Assets)
      BY <3>2, LuckSet
    <3> QED  BY <1>n, <1>s, <3>1, <3>3, ImportStep
  <2>6. CASE EndImport(j)
    <3> DEFINE st == IF m.reported = {} THEN "succeeded" ELSE "withErrors"
    <3>1. import' = [import EXCEPT ![j] = [m EXCEPT !.st = st]] /\ stock' = stock
      BY <2>6 DEF EndImport
    <3>2. Sound(j, [m EXCEPT !.st = st], Assets)
      BY <2>0, <2>6, StepSet DEF EndImport, At
    <3> HIDE DEF st
    <3> QED  BY <1>n, <1>s, <3>1, <3>2, ImportStep
  <2>7. CASE BreakImport(j)
    <3>1. /\ Running(j) /\ stock' = stock
          /\ import' = [import EXCEPT ![j] = [m EXCEPT !.st = "broken"]]
      BY <2>7 DEF BreakImport
    <3>2. Sound(j, [m EXCEPT !.st = "broken"], Assets)
      BY <2>0, <3>1, StepSet
    <3> QED  BY <1>n, <1>s, <3>1, <3>2, ImportStep
  <2> QED  BY <1>n, <2>1, <2>2, <2>3, <2>4, <2>5, <2>6, <2>7
<1> QED  BY <1>0, <1>1, <1>n DEF ImportNext

\* However imports overlap, fail or are repeated, a finished one has saved or
\* reported each row of its file, what it saved is in the stock, and it answers
\* "success" only when it saved them all.
THEOREM ImportsAnswerEveryRow == ImportSpec => []EveryRowAnswered
<1>1. ImportInv => EveryRowAnswered
  <2> SUFFICES ASSUME ImportInv, NEW j \in Imports,
                      import[j].st \in {"succeeded", "withErrors"}
               PROVE  /\ DOMAIN FileRows(j) = import[j].saved \cup import[j].reported
                      /\ \A i \in import[j].saved :
                           [ type |-> Kind(j).type, ref |-> RefOf(FileRows(j)[i]),
                             by |-> j ] \in Assets
                      /\ At(j, "succeeded") <=> DOMAIN FileRows(j) = import[j].saved
                                                /\ import[j].reported = {}
    BY DEF EveryRowAnswered
  <2>1. Answered(import[j]) /\ Stocked(j, import[j], Assets)
    BY DEF ImportInv, Sound
  <2>2. DOMAIN FileRows(j) = 1..Last(import[j])
    BY <2>1, ImportAssumption DEF Answered, FileRows, Last
  <2>3. DOMAIN FileRows(j) = import[j].saved \cup import[j].reported
    BY <2>1, <2>2 DEF Answered
  <2>4. At(j, "succeeded") <=> import[j].reported = {}
    BY <2>1 DEF Answered, At
  <2> QED  BY <2>1, <2>3, <2>4 DEF Stocked, Kind, FileRows
<1> QED  BY <1>1, InitSound, StepSound, PTL DEF ImportSpec

-----------------------------------------------------------------------------
ImportSteps == { "none", "check", "lookup", "create", "ending",
                 "succeeded", "withErrors", "broken" }

\* What the answers do not tell: files, steps, the makers of the assets.
ImportKinds ==
  /\ uploads \in [Files -> {"none", "stored", "refused"}]
  /\ \A j \in Imports : import[j].st \in ImportSteps
  /\ \A n \in DOMAIN stock : stock[n].by \in Imports \cup {NoImport}
  /\ overlaps \subseteq SUBSET Imports

\* After a row an import is at the next one, or at the end of its file.
LEMMA NextRowIsStep ==
  ASSUME NEW j, IsImport(import[j]), NEW saved, NEW reported, NEW unlucky
  PROVE  /\ NextRow(j, saved, reported).st \in ImportSteps
         /\ [NextRow(j, saved, reported) EXCEPT !.unlucky = unlucky].st \in ImportSteps
<1> DEFINE next == NextRow(j, saved, reported)
<1>1. IsImport(next) /\ next.st \in ImportSteps
  BY NextRowFields DEF ImportSteps
<1>2. [next EXCEPT !.unlucky = unlucky].st = next.st
  <2> HIDE DEF next
  <2> QED  BY <1>1 DEF IsImport
<1> QED  BY <1>1, <1>2

\* The imports' variables, the files and the assets keep their types, however
\* imports overlap: a running one is at a row of its file, also after others
\* were refused or broke off.
THEOREM ImportsAreTyped == ImportSpec => []ImportTypeOK
<1>1. ImportInit => ImportKinds
  BY ImportAssumption DEF ImportInit, ImportKinds, ImportSteps, NotAsked, Import
<1>2. ImportInv /\ ImportKinds /\ [ImportNext]_importVars => ImportKinds'
  <2> SUFFICES ASSUME ImportInv, ImportKinds, [ImportNext]_importVars
               PROVE  ImportKinds'
    OBVIOUS
  <2> DEFINE Steps(record) == /\ record.st \in ImportSteps
                              /\ UNCHANGED uploads
                              /\ \A n \in DOMAIN stock' : stock'[n].by \in Imports \cup {NoImport}
                              /\ overlaps' \subseteq SUBSET Imports
  <2>0. CASE UNCHANGED importVars
    BY <2>0 DEF importVars, ImportKinds
  <2>1. ASSUME NEW f \in Files, NEW valid \in BOOLEAN, Upload(f, valid)
        PROVE  ImportKinds'
    BY <2>1 DEF Upload, ImportKinds
  <2>s. ASSUME NEW j \in Imports, NEW record, Steps(record),
               import' = [import EXCEPT ![j] = record]
        PROVE  ImportKinds'
    BY <2>s DEF ImportKinds, ImportInv
  <2>n. ASSUME NEW record, UNCHANGED <<uploads, stock, overlaps>>,
               record.st \in ImportSteps
        PROVE  Steps(record)
    BY <2>n DEF ImportKinds
  <2> HIDE DEF Steps
  <2>i. ASSUME NEW j \in Imports PROVE IsImport(import[j])
    BY DEF ImportInv, Sound
  <2>2. ASSUME NEW j \in Imports, NEW f \in Files, Apply(j, f) PROVE ImportKinds'
    <3> DEFINE next == Import(IF Len(RowsOf[f]) = 0 THEN "ending" ELSE "check", f, 1)
    <3>1. Steps(next)
      BY <2>2 DEF Apply, Steps, ImportKinds, Import, ImportSteps
    <3> QED  BY <2>2, <2>s, <3>1 DEF Apply
  <2>3. ASSUME NEW j \in Imports, CheckRow(j) PROVE ImportKinds'
    <3>1. CASE Exact(j) # {} \/ SameIp(j) # {}
      <4>1. Steps(NextRow(j, {}, {import[j].row}))
        BY <2>3, <2>i, <2>n, NextRowIsStep DEF CheckRow
      <4> QED  BY <2>3, <2>s, <3>1, <4>1 DEF CheckRow
    <3>2. CASE ~ (Exact(j) # {} \/ SameIp(j) # {})
      <4> DEFINE R == IF SameName(j) # {} THEN {import[j].row} ELSE {}
                 next == [import[j] EXCEPT !.st = "lookup", !.reported = @ \cup R]
      <4>1. next.st = "lookup"
        <5> HIDE DEF R
        <5> QED  BY <2>i DEF IsImport
      <4>2. import' = [import EXCEPT ![j] = next]
        BY <2>3, <3>2 DEF CheckRow
      <4> HIDE DEF next
      <4>3. Steps(next)
        BY <2>3, <2>n, <4>1 DEF CheckRow, ImportSteps
      <4> QED  BY <2>s, <4>2, <4>3
    <3> QED  BY <3>1, <3>2
  <2>4. ASSUME NEW j \in Imports, NEW answers \in BOOLEAN, LookUpRow(j, answers)
        PROVE  ImportKinds'
    <3>1. CASE answers /\ Found(j)
      <4>1. [import[j] EXCEPT !.st = "create"].st = "create"
        BY <2>i DEF IsImport
      <4>2. Steps([import[j] EXCEPT !.st = "create"])
        BY <2>4, <2>n, <4>1 DEF LookUpRow, ImportSteps
      <4> QED  BY <2>4, <2>s, <3>1, <4>2 DEF LookUpRow
    <3>2. CASE ~ (answers /\ Found(j))
      <4> DEFINE next == NextRow(j, {}, {import[j].row})
                 unlucky == next.unlucky \/ ~ answers
      <4>1. import' = [import EXCEPT ![j] = [next EXCEPT !.unlucky = unlucky]]
        BY <2>4, <3>2 DEF LookUpRow
      <4> HIDE DEF unlucky
      <4>2. Steps([next EXCEPT !.unlucky = unlucky])
        BY <2>4, <2>i, <2>n, NextRowIsStep DEF LookUpRow
      <4> QED  BY <2>s, <4>1, <4>2
    <3> QED  BY <3>1, <3>2
  <2>5. ASSUME NEW j \in Imports, CreateRow(j) PROVE ImportKinds'
    <3> DEFINE a == [type |-> Kind(j).type, ref |-> RefOf(Row(j)), by |-> j]
               next == NextRow(j, {import[j].row}, {})
    <3>1. \A n \in DOMAIN stock' : stock'[n].by \in Imports \cup {NoImport}
      <4>1. \A n \in DOMAIN stock' : \/ stock'[n] = a
                                     \/ n \in DOMAIN stock /\ stock'[n] = stock[n]
        <5>1. stock \in Seq(Assets) /\ stock' = Append(stock, a)
          BY <2>5 DEF ImportInv, CreateRow
        <5> HIDE DEF a
        <5> QED  BY <5>1
      <4> QED  BY <4>1 DEF ImportKinds
    <3>2. next.st \in ImportSteps
      BY <2>i, NextRowIsStep
    <3>3. Steps(next)
      BY <2>5, <3>1, <3>2 DEF Steps, CreateRow, ImportKinds
    <3> QED  BY <2>5, <2>s, <3>3 DEF CreateRow
  <2>6. ASSUME NEW j \in Imports, RefuseRow(j) PROVE ImportKinds'
    <3> DEFINE next == [NextRow(j, {}, {import[j].row}) EXCEPT !.unlucky = TRUE]
    <3>1. Steps(next)
      BY <2>6, <2>i, <2>n, NextRowIsStep DEF RefuseRow
    <3> QED  BY <2>6, <2>s, <3>1 DEF RefuseRow
  <2>7. ASSUME NEW j \in Imports, EndImport(j) \/ BreakImport(j) PROVE ImportKinds'
    <3>1. PICK st \in ImportSteps : import' = [import EXCEPT ![j] = [import[j] EXCEPT !.st = st]]
      BY <2>7 DEF EndImport, BreakImport, ImportSteps
    <3>2. [import[j] EXCEPT !.st = st].st = st
      BY <2>i DEF IsImport
    <3>3. Steps([import[j] EXCEPT !.st = st])
      BY <2>7, <2>n, <3>2 DEF EndImport, BreakImport
    <3> QED  BY <2>s, <3>1, <3>3
  <2> QED  BY <2>0, <2>1, <2>2, <2>3, <2>4, <2>5, <2>6, <2>7 DEF ImportNext
<1>3. ImportInv /\ ImportKinds => ImportTypeOK
  <2> SUFFICES ASSUME ImportInv, ImportKinds, NEW j \in Imports
               PROVE  /\ ~ At(j, "none") => import[j].file \in Files
                      /\ Running(j) => import[j].row \in DOMAIN FileRows(j)
    BY DEF ImportTypeOK, ImportKinds, ImportSteps
  <2>1. import[j].st # "none" => Answered(import[j])
    BY DEF ImportInv, Sound
  <2>2. ASSUME import[j].file \in Files, import[j].row \in Nat \ {0},
               import[j].row <= Last(import[j])
        PROVE  import[j].row \in DOMAIN FileRows(j)
    BY <2>2, ImportAssumption DEF Last, FileRows
  <2> QED  BY <2>1, <2>2 DEF Answered, Running, At
<1> QED  BY <1>1, <1>2, <1>3, InitSound, StepSound, PTL DEF ImportSpec

-----------------------------------------------------------------------------
\* What the row of an import says of an asset: it would be its twin.
Twin(j, a) == a.type = Kind(j).type /\ a.ref = RefOf(Row(j))

\* An import that has searched for twins of its row and not created it.
Searched(j) == import[j].st \in {"lookup", "create"}

\* Imports that run at the same time are known to.
OverlapsKnown ==
  \A j, k \in Imports : j # k /\ Running(j) /\ Running(k) => {j, k} \in overlaps

\* An asset that came after an import searched for it is another import's.
TwinsAwaited ==
  \A j \in Imports, n \in DOMAIN stock :
    Searched(j) /\ Twin(j, stock[n])
      => {stock[n].by, j} \in overlaps /\ stock[n].by # j

TwinInv == OverlapsKnown /\ TwinsAwaited /\ TwinsFromOverlap

\* A step that makes no asset: an import stays at a row it had searched for, or
\* it finds no twin, or it is not between the search and the creation.
LEMMA NothingCreated ==
  ASSUME ImportInv, TwinInv, NEW j \in Imports, NEW record,
         import' = [import EXCEPT ![j] = record], stock' = stock,
         overlaps \subseteq overlaps',
         record.st \in {"check", "lookup", "create"} =>
           Running(j) \/ \A k \in Imports : Running(k) => {j, k} \in overlaps',
         record.st \in {"lookup", "create"} =>
           /\ record.file = import[j].file /\ record.row = import[j].row
           /\ Searched(j) \/ \A n \in DOMAIN stock : ~ Twin(j, stock[n])
  PROVE  TwinInv'
<1>1. import' = [k \in Imports |-> IF k = j THEN record ELSE import[k]]
  BY DEF ImportInv
<1>2. \A k \in Imports : k # j =>
        /\ Running(k)' = Running(k) /\ Searched(k)' = Searched(k)
        /\ \A a : Twin(k, a)' <=> Twin(k, a)
  BY <1>1 DEF Running, Searched, Twin, Kind, Row, FileRows
<1>3. import'[j] = record
  BY <1>1
<1>4. OverlapsKnown'
  <2>1. SUFFICES ASSUME NEW k \in Imports, k # j, Running(k), Running(j)'
                 PROVE  {j, k} \in overlaps'
    BY <1>1, <1>2 DEF TwinInv, OverlapsKnown
  <2> QED  BY <1>3, <2>1 DEF TwinInv, OverlapsKnown, Running
<1>5. TwinsAwaited'
  <2>1. SUFFICES ASSUME NEW n \in DOMAIN stock, Searched(j)', Twin(j, stock[n])'
                 PROVE  {stock[n].by, j} \in overlaps /\ stock[n].by # j
    BY <1>2 DEF TwinInv, TwinsAwaited
  <2>2. /\ record.file = import[j].file /\ record.row = import[j].row
        /\ Searched(j) \/ ~ Twin(j, stock[n])
    BY <1>3, <2>1 DEF Searched
  <2>3. Twin(j, stock[n])
    BY <1>3, <2>1, <2>2 DEF Twin, Kind, Row, FileRows
  <2> QED  BY <2>2, <2>3 DEF TwinInv, TwinsAwaited
<1>6. TwinsFromOverlap'
  BY DEF TwinInv, TwinsFromOverlap
<1> QED  BY <1>4, <1>5, <1>6 DEF TwinInv

\* An asset is created by an import that has searched for its twins.
LEMMA CreatedSearched ==
  ASSUME ImportInv, TwinInv, NEW j \in Imports, CreateRow(j)
  PROVE  TwinInv'
<1> DEFINE a == [type |-> Kind(j).type, ref |-> RefOf(Row(j)), by |-> j]
           next == NextRow(j, {import[j].row}, {})
           n == Len(stock) + 1
<1>1. /\ Running(j) /\ Searched(j) /\ overlaps' = overlaps
      /\ stock' = Append(stock, a) /\ import' = [import EXCEPT ![j] = next]
  BY DEF CreateRow, At, Running, Searched
<1>2. next.st \in {"check", "ending"}
  <2>1. IsImport(import[j])
    BY DEF ImportInv, Sound
  <2> QED  BY <2>1, NextRowFields
<1>3. /\ a.by = j /\ a.type = Kind(j).type /\ a.ref = RefOf(Row(j))
  OBVIOUS
<1> HIDE DEF a, next
<1>4. import' = [k \in Imports |-> IF k = j THEN next ELSE import[k]]
  BY <1>1 DEF ImportInv
<1>5. \A k \in Imports : k # j =>
        /\ Running(k)' = Running(k) /\ Searched(k)' = Searched(k)
        /\ \A b : Twin(k, b)' <=> Twin(k, b)
  BY <1>4 DEF Running, Searched, Twin, Kind, Row, FileRows
<1>6. ~ Searched(j)'
  BY <1>2, <1>4 DEF Searched
<1>7. /\ DOMAIN stock = 1..Len(stock) /\ Len(stock) \in Nat
      /\ DOMAIN stock' = 1..n
      /\ \A i \in 1..Len(stock) : stock'[i] = stock[i]
      /\ stock'[n] = a
  <2>1. stock \in Seq(Assets \cup {a})
    <3>1. Assets \subseteq Assets \cup {a}
      OBVIOUS
    <3> QED  BY <3>1 DEF ImportInv
  <2> QED  BY <1>1, <2>1
<1>8. OverlapsKnown'
  <2>1. Running(j)' => Running(j)
    BY <1>1
  <2> QED  BY <1>1, <1>5, <2>1 DEF TwinInv, OverlapsKnown
<1>9. TwinsAwaited'
  <2>1. SUFFICES ASSUME NEW k \in Imports, NEW i \in DOMAIN stock', k # j,
                        Searched(k), Twin(k, stock'[i])
                 PROVE  {stock'[i].by, k} \in overlaps /\ stock'[i].by # k
    BY <1>1, <1>5, <1>6 DEF TwinsAwaited
  <2>2. CASE i \in 1..Len(stock)
    BY <1>7, <2>1, <2>2 DEF TwinInv, TwinsAwaited
  <2>3. CASE i = n
    BY <1>1, <1>3, <1>7, <2>1, <2>3
       DEF TwinInv, OverlapsKnown, Running, Searched
  <2> QED  BY <1>7, <2>2, <2>3
<1>10. TwinsFromOverlap'
  <2>1. ASSUME NEW i \in 1..Len(stock), stock[i].type = a.type, stock[i].ref = a.ref
        PROVE  {stock[i].by, a.by} \in overlaps /\ stock[i].by # a.by
    BY <1>1, <1>3, <1>7, <2>1 DEF TwinInv, TwinsAwaited, Twin
  <2>2. SUFFICES ASSUME NEW i \in DOMAIN stock', NEW k \in DOMAIN stock', i # k,
                        stock'[i].type = stock'[k].type, stock'[i].ref = stock'[k].ref,
                        {stock'[i].by, stock'[k].by} # {NoImport}
                 PROVE  /\ {stock'[i].by, stock'[k].by} \in overlaps
                        /\ stock'[i].by # stock'[k].by
    BY <1>1 DEF TwinsFromOverlap
  <2>3. CASE i # n /\ k # n
    <3>1. i \in 1..Len(stock) /\ k \in 1..Len(stock)
      BY <1>7, <2>3
    <3>2. stock'[i] = stock[i] /\ stock'[k] = stock[k] /\ {i, k} \subseteq DOMAIN stock
      BY <1>7, <3>1
    <3> QED  BY <2>2, <3>2 DEF TwinInv, TwinsFromOverlap
  <2>4. CASE i = n
    <3>1. k \in 1..Len(stock)
      BY <1>7, <2>2, <2>4
    <3>2. {stock[k].by, a.by} = {stock'[i].by, stock'[k].by}
      BY <1>7, <2>4, <3>1
    <3> QED  BY <1>7, <2>1, <2>2, <2>4, <3>1, <3>2
  <2>5. CASE k = n
    <3>1. i \in 1..Len(stock)
      BY <1>7, <2>2, <2>5
    <3> QED  BY <1>7, <2>1, <2>2, <2>5, <3>1
  <2> QED  BY <2>3, <2>4, <2>5
<1> QED  BY <1>8, <1>9, <1>10 DEF TwinInv

LEMMA TwinsInit == ImportInit => TwinInv
<1> SUFFICES ASSUME ImportInit PROVE TwinInv
  OBVIOUS
<1>1. \A j \in Imports : import[j].st = "none"
  BY DEF ImportInit, NotAsked, Import
<1>2. OverlapsKnown /\ TwinsAwaited
  BY <1>1 DEF OverlapsKnown, TwinsAwaited, Running, Searched
<1>3. \A n \in DOMAIN stock : stock[n].by = NoImport
  BY ImportAssumption DEF ImportInit
<1> QED  BY <1>2, <1>3 DEF TwinInv, TwinsFromOverlap

LEMMA TwinsStep == ImportInv /\ TwinInv /\ [ImportNext]_importVars => TwinInv'
<1> SUFFICES ASSUME ImportInv, TwinInv, [ImportNext]_importVars PROVE TwinInv'
  OBVIOUS
<1>1. ASSUME stock' = stock, import' = import, overlaps' = overlaps
      PROVE  TwinInv'
  BY <1>1 DEF TwinInv, OverlapsKnown, TwinsAwaited, TwinsFromOverlap, Running,
              Searched, Twin, Kind, Row, FileRows
<1>2. CASE UNCHANGED importVars
  BY <1>1, <1>2 DEF importVars
<1>3. CASE \E f \in Files, valid \in BOOLEAN : Upload(f, valid)
  BY <1>1, <1>3 DEF Upload
<1>4. ASSUME NEW j \in Imports,
             \/ \E f \in Files : Apply(j, f)
             \/ CheckRow(j)
             \/ \E answers \in BOOLEAN : LookUpRow(j, answers)
             \/ CreateRow(j)
             \/ RefuseRow(j)
             \/ EndImport(j)
             \/ BreakImport(j)
      PROVE  TwinInv'
  <2> DEFINE m == import[j]
             skip == NextRow(j, {}, {m.row})
  <2>1. IsImport(m)
    BY DEF ImportInv, Sound
  <2>2. IsImport(skip) /\ skip.st \in {"check", "ending"}
    BY <2>1, NextRowFields
  <2>3. \A u : [skip EXCEPT !.unlucky = u].st \in {"check", "ending"}
    <3> HIDE DEF skip
    <3> QED  BY <2>2 DEF IsImport
  <2>4. ASSUME NEW f \in Files, Apply(j, f) PROVE TwinInv'
    <3> DEFINE next == Import(IF Len(RowsOf[f]) = 0 THEN "ending" ELSE "check", f, 1)
    <3>1. /\ import' = [import EXCEPT ![j] = next] /\ stock' = stock
          /\ overlaps' = overlaps \cup {{j, k} : k \in {k \in Imports : Running(k)}}
      BY <2>4 DEF Apply
    <3>2. next.st \in {"ending", "check"}
      BY DEF Import
    <3> HIDE DEF next
    <3> QED  BY <3>1, <3>2, NothingCreated
  <2>5. CASE CheckRow(j)
    <3>1. m.st = "check" /\ stock' = stock /\ overlaps' = overlaps /\ Running(j)
      BY <2>5 DEF CheckRow, At, Running
    <3>2. CASE Exact(j) # {} \/ SameIp(j) # {}
      <4>1. import' = [import EXCEPT ![j] = skip]
        BY <2>5, <3>2 DEF CheckRow
      <4> HIDE DEF skip
      <4> QED  BY <2>2, <3>1, <4>1, NothingCreated
    <3>3. CASE Exact(j) = {} /\ SameIp(j) = {}
      <4> DEFINE o == [m EXCEPT !.st = "lookup"]
                 reported == m.reported \cup (IF SameName(j) # {} THEN {m.row} ELSE {})
                 next == [o EXCEPT !.reported = reported]
      <4>1. import' = [import EXCEPT ![j] = next]
        BY <2>5, <3>3 DEF CheckRow
      <4>2. IsImport(o) /\ o.file = m.file /\ o.row = m.row
        BY <2>1 DEF IsImport
      <4> HIDE DEF o, reported
      <4>3. next.file = m.file /\ next.row = m.row
        BY <4>2 DEF IsImport
      <4>4. \A n \in DOMAIN stock : ~ Twin(j, stock[n])
        BY <3>3 DEF Exact, Assets, Twin
      <4> HIDE DEF next
      <4> QED  BY <3>1, <4>1, <4>3, <4>4, NothingCreated
    <3> QED  BY <3>2, <3>3
  <2>6. ASSUME NEW answers \in BOOLEAN, LookUpRow(j, answers) PROVE TwinInv'
    <3>1. /\ m.st = "lookup" /\ stock' = stock /\ overlaps' = overlaps
          /\ Running(j) /\ Searched(j)
      BY <2>6 DEF LookUpRow, At, Running, Searched
    <3>2. CASE answers /\ Found(j)
      <4> DEFINE next == [m EXCEPT !.st = "create"]
      <4>1. import' = [import EXCEPT ![j] = next]
        BY <2>6, <3>2 DEF LookUpRow
      <4>2. next.file = m.file /\ next.row = m.row
        BY <2>1 DEF IsImport
      <4> HIDE DEF next
      <4> QED  BY <3>1, <4>1, <4>2, NothingCreated
    <3>3. CASE ~ (answers /\ Found(j))
      <4> DEFINE unlucky == skip.unlucky \/ ~ answers
                 next == [skip EXCEPT !.unlucky = unlucky]
      <4>1. import' = [import EXCEPT ![j] = next]
        BY <2>6, <3>3 DEF LookUpRow
      <4>2. next.st \in {"check", "ending"}
        BY <2>3
      <4> HIDE DEF next
      <4> QED  BY <3>1, <4>1, <4>2, NothingCreated
    <3> QED  BY <3>2, <3>3
  <2>7. CASE CreateRow(j)
    BY <2>7, CreatedSearched
  <2>8. CASE RefuseRow(j)
    <3> DEFINE next == [skip EXCEPT !.unlucky = TRUE]
    <3>1. /\ import' = [import EXCEPT ![j] = next] /\ stock' = stock
          /\ overlaps' = overlaps /\ Running(j)
      BY <2>8 DEF RefuseRow, At, Running
    <3>2. next.st \in {"check", "ending"}
      BY <2>3
    <3> HIDE DEF next
    <3> QED  BY <3>1, <3>2, NothingCreated
  <2>9. CASE EndImport(j)
    <3> DEFINE st == IF m.reported = {} THEN "succeeded" ELSE "withErrors"
               next == [m EXCEPT !.st = st]
    <3>1. /\ import' = [import EXCEPT ![j] = next] /\ stock' = stock
          /\ overlaps' = overlaps
      BY <2>9 DEF EndImport
    <3>2. next.st \in {"succeeded", "withErrors"}
      BY <2>1 DEF IsImport
    <3> HIDE DEF next
    <3> QED  BY <3>1, <3>2, NothingCreated
  <2>10. CASE BreakImport(j)
    <3> DEFINE next == [m EXCEPT !.st = "broken"]
    <3>1. /\ import' = [import EXCEPT ![j] = next] /\ stock' = stock
          /\ overlaps' = overlaps
      BY <2>10 DEF BreakImport
    <3>2. next.st = "broken"
      BY <2>1 DEF IsImport
    <3> HIDE DEF next
    <3> QED  BY <3>1, <3>2, NothingCreated
  <2> QED  BY <1>4, <2>4, <2>5, <2>6, <2>7, <2>8, <2>9, <2>10
<1> QED  BY <1>2, <1>3, <1>4 DEF ImportNext

\* However many imports overlap and are repeated, none makes a twin of an asset
\* it could see: two assets of one type with one reference, of which an import
\* made one, are of two imports that ran at the same time.
THEOREM TwinsComeFromOverlap == ImportSpec => []TwinsFromOverlap
<1>1. ImportInit => ImportInv /\ TwinInv
  BY InitSound, TwinsInit
<1>2. ImportInv /\ TwinInv /\ [ImportNext]_importVars => (ImportInv /\ TwinInv)'
  BY StepSound, TwinsStep
<1>3. ImportInv /\ TwinInv => TwinsFromOverlap
  BY DEF TwinInv
<1> QED  BY <1>1, <1>2, <1>3, PTL DEF ImportSpec

-----------------------------------------------------------------------------
\* A row that an import is past has its asset in the stock, or another one with
\* its address, or it needs what may be missing.
Settled(m, i, assets) ==
  LET kind == Template[m.file]
      row == RowsOf[m.file][i]
  IN  \/ \E a \in assets : a.type = kind.type /\ <<row.ip, a.ref[2]>> \in Within
      \/ kind.anyType /\ \E a \in assets : a.ref = RefOf(row)
      \/ \E n \in row.needs : i \notin m.saved /\ n[1] \in kind.relates

\* An import has done its rows in order, and unless a look-up failed on it each
\* of them is settled.
InOrder(m, assets) ==
  /\ m.saved \subseteq 1..(m.row - 1)
  /\ m.st \in {"ending", "succeeded", "withErrors"} => m.row = Last(m) + 1
  /\ ~ m.unlucky => \A i \in 1..(m.row - 1) : Settled(m, i, assets)

RetryInv ==
  \A j \in Imports : import[j].st # "none" => InOrder(import[j], Assets)

\* An import that ends a row.
LEMMA RowEnds ==
  ASSUME NEW m, NEW next, NEW old, NEW assets, old \subseteq assets,
         InOrder(m, old), Last(m) \in Nat, m.row \in 1..Last(m),
         next.file = m.file, next.row = m.row + 1,
         next.saved \subseteq m.saved \cup {m.row}, m.saved \subseteq next.saved,
         next.st = (IF m.row = Last(m) THEN "ending" ELSE "check"),
         ~ next.unlucky => ~ m.unlucky /\ Settled(next, m.row, assets)
  PROVE  InOrder(next, assets)
<1>1. m.row \in Nat /\ Last(next) = Last(m)
  BY DEF Last
<1>2. next.saved \subseteq 1..(next.row - 1)
  BY <1>1 DEF InOrder
<1>3. ASSUME ~ next.unlucky, NEW i \in 1..(next.row - 1)
      PROVE  Settled(next, i, assets)
  <2>1. CASE i = m.row
    BY <1>3, <2>1
  <2>2. CASE i # m.row
    <3>1. i \in 1..(m.row - 1)
      BY <1>1, <1>3, <2>2
    <3>2. Settled(m, i, old)
      BY <1>3, <3>1 DEF InOrder
    <3>3. i \in next.saved => i \in m.saved
      BY <2>2
    <3> QED  BY <3>2, <3>3 DEF Settled
  <2> QED  BY <2>1, <2>2
<1> QED  BY <1>1, <1>2, <1>3 DEF InOrder

\* An import that goes on with its row, or is over.
LEMMA RowGoesOn ==
  ASSUME NEW m, NEW next, NEW assets, InOrder(m, assets),
         next.file = m.file, next.row = m.row, next.saved = m.saved,
         next.unlucky = m.unlucky,
         next.st \in {"succeeded", "withErrors"} => m.st = "ending",
         next.st # "ending"
  PROVE  InOrder(next, assets)
  BY DEF InOrder, Last, Settled

\* A step of an import that keeps the assets.
LEMMA RetryStep ==
  ASSUME ImportInv, RetryInv, NEW j \in Imports, NEW record, Assets \subseteq Assets',
         import' = [import EXCEPT ![j] = record], InOrder(record, Assets')
  PROVE  RetryInv'
<1>1. import' = [k \in Imports |-> IF k = j THEN record ELSE import[k]]
  BY DEF ImportInv
<1>2. ASSUME NEW k \in Imports, k # j, import[k].st # "none"
      PROVE  InOrder(import[k], Assets')
  BY <1>2 DEF RetryInv, InOrder, Settled
<1>3. \A k \in Imports : import'[k].st # "none" => InOrder(import'[k], Assets')
  BY <1>1, <1>2
<1> QED  BY <1>3 DEF RetryInv, InOrder, Settled, Last, RefOf

\* The searches for twins and the look-ups skip a row only when it is settled.
LEMMA SkippedIsSettled ==
  ASSUME ImportInv, NEW j \in Imports, import[j].row \in DOMAIN FileRows(j),
         import[j].file \in Files, import[j].row \notin import[j].saved,
         \/ Exact(j) # {} \/ SameIp(j) # {}
         \/ ~ Found(j)
  PROVE  Settled(import[j], import[j].row, Assets)
<1> DEFINE row == RowsOf[import[j].file][import[j].row]
           kind == Template[import[j].file]
<1>1. row = Row(j) /\ kind = Kind(j)
  BY DEF Row, FileRows, Kind
<1>2. <<row.ip, row.ip>> \in Within
  BY ImportAssumption DEF FileRows
<1>3. CASE Exact(j) # {}
  <2>1. PICK a \in Assets : a.ref = RefOf(row) /\ (kind.anyType \/ a.type = kind.type)
    BY <1>1, <1>3 DEF Exact
  <2>2. a.ref[2] = row.ip
    BY <2>1 DEF RefOf
  <2> QED  BY <1>2, <2>1, <2>2 DEF Settled
<1>4. CASE SameIp(j) # {}
  BY <1>1, <1>4 DEF SameIp, Settled
<1>5. CASE ~ Found(j)
  BY <1>1, <1>5 DEF Found, Needed, Settled
<1> QED  BY <1>3, <1>4, <1>5

LEMMA RetryInit == ImportInit => RetryInv
  BY DEF ImportInit, RetryInv, NotAsked, Import

LEMMA RetryNext == ImportInv /\ RetryInv /\ [ImportNext]_importVars => RetryInv'
<1> SUFFICES ASSUME ImportInv, RetryInv, [ImportNext]_importVars PROVE RetryInv'
  OBVIOUS
<1>1. ASSUME stock' = stock PROVE Assets' = Assets
  BY <1>1 DEF Assets
<1>2. ASSUME stock' = stock, import' = import PROVE RetryInv'
  BY <1>1, <1>2 DEF RetryInv, InOrder, Settled, Last, RefOf
<1>3. CASE UNCHANGED importVars
  BY <1>2, <1>3 DEF importVars
<1>4. CASE \E f \in Files, valid \in BOOLEAN : Upload(f, valid)
  BY <1>2, <1>4 DEF Upload
<1>5. ASSUME NEW j \in Imports,
             \/ \E f \in Files : Apply(j, f)
             \/ CheckRow(j)
             \/ \E answers \in BOOLEAN : LookUpRow(j, answers)
             \/ CreateRow(j)
             \/ RefuseRow(j)
             \/ EndImport(j)
             \/ BreakImport(j)
      PROVE  RetryInv'
  <2> DEFINE m == import[j]
             skip == NextRow(j, {}, {m.row})
  <2>1. IsImport(m)
    BY DEF ImportInv, Sound
  <2>2. ASSUME Running(j)
        PROVE  /\ InOrder(m, Assets) /\ m.row \in 1..Last(m) /\ Last(m) \in Nat
               /\ m.row \in DOMAIN FileRows(j) /\ m.file \in Files
               /\ m.row \notin m.saved
    <3>1. Answered(m) /\ InOrder(m, Assets)
      BY <2>2 DEF ImportInv, Sound, RetryInv, Running
    <3>2. Last(m) \in Nat /\ DOMAIN FileRows(j) = 1..Last(m)
      BY <3>1, ImportAssumption DEF Answered, Last, FileRows
    <3>3. m.row \in 1..Last(m)
      BY <2>2, <3>1, <3>2 DEF Answered, Running
    <3>4. m.row \notin m.saved
      BY <3>1, <3>2, <3>3 DEF InOrder
    <3> QED  BY <3>1, <3>2, <3>3, <3>4 DEF Answered
  <2>3. /\ IsImport(skip) /\ skip.file = m.file /\ skip.row = m.row + 1
        /\ skip.saved = m.saved /\ skip.unlucky = m.unlucky
        /\ skip.st = (IF m.row = Last(m) THEN "ending" ELSE "check")
    <3> DEFINE nothing == {}
               some == NextRow(j, nothing, {m.row})
    <3> HIDE DEF nothing
    <3>1. /\ IsImport(some) /\ some.file = m.file /\ some.row = m.row + 1
          /\ some.saved = m.saved \cup nothing /\ some.unlucky = m.unlucky
          /\ some.st = (IF m.row = Last(m) THEN "ending" ELSE "check")
      BY <2>1, NextRowFields
    <3>2. m.saved \cup nothing = m.saved
      BY DEF nothing
    <3>3. some = skip
      BY DEF nothing
    <3> HIDE DEF some, skip
    <3> QED  BY <3>1, <3>2, <3>3
  <2>4. ASSUME Running(j), NEW u, u \in BOOLEAN,
               ~ u => ~ m.unlucky /\ Settled(m, m.row, Assets)
        PROVE  InOrder([skip EXCEPT !.unlucky = u], Assets)
    <3> DEFINE next == [skip EXCEPT !.unlucky = u]
    <3> HIDE DEF skip
    <3>1. /\ next.file = m.file /\ next.row = m.row + 1 /\ next.saved = m.saved
          /\ next.unlucky = u
          /\ next.st = (IF m.row = Last(m) THEN "ending" ELSE "check")
      BY <2>3 DEF IsImport
    <3>2. Settled(m, m.row, Assets) => Settled(next, m.row, Assets)
      BY <3>1 DEF Settled
    <3> HIDE DEF next
    <3>3. InOrder(next, Assets)
      BY <2>2, <2>4, <3>1, <3>2, RowEnds
    <3> QED  BY <3>3 DEF next
  <2>5. ASSUME NEW f \in Files, Apply(j, f) PROVE RetryInv'
    <3> DEFINE next == Import(IF Len(RowsOf[f]) = 0 THEN "ending" ELSE "check", f, 1)
    <3>1. import' = [import EXCEPT ![j] = next] /\ stock' = stock
      BY <2>5 DEF Apply
    <3>2. InOrder(next, Assets')
      BY ImportAssumption DEF InOrder, Import, Last
    <3> HIDE DEF next
    <3> QED  BY <1>1, <3>1, <3>2, RetryStep
  <2>6. CASE CheckRow(j)
    <3>1. m.st = "check" /\ stock' = stock /\ Running(j)
      BY <2>6 DEF CheckRow, At, Running
    <3>2. CASE Exact(j) # {} \/ SameIp(j) # {}
      <4>1. import' = [import EXCEPT ![j] = skip]
        BY <2>6, <3>2 DEF CheckRow
      <4>2. Settled(m, m.row, Assets)
        BY <2>2, <3>1, <3>2, SkippedIsSettled
      <4>3. Settled(skip, m.row, Assets)
        BY <2>3, <4>2 DEF Settled
      <4> HIDE DEF skip
      <4>4. InOrder(skip, Assets)
        BY <2>2, <2>3, <3>1, <4>3, RowEnds
      <4> QED  BY <1>1, <3>1, <4>1, <4>4, RetryStep
    <3>3. CASE Exact(j) = {} /\ SameIp(j) = {}
      <4> DEFINE o == [m EXCEPT !.st = "lookup"]
                 reported == m.reported \cup (IF SameName(j) # {} THEN {m.row} ELSE {})
                 next == [o EXCEPT !.reported = reported]
      <4>1. import' = [import EXCEPT ![j] = next]
        BY <2>6, <3>3 DEF CheckRow
      <4>2. /\ IsImport(o) /\ o.file = m.file /\ o.row = m.row /\ o.saved = m.saved
            /\ o.unlucky = m.unlucky /\ o.st = "lookup"
        BY <2>1 DEF IsImport
      <4> HIDE DEF o, reported
      <4>3. /\ next.file = m.file /\ next.row = m.row /\ next.saved = m.saved
            /\ next.unlucky = m.unlucky /\ next.st = "lookup"
        BY <4>2 DEF IsImport
      <4> HIDE DEF next
      <4>4. InOrder(next, Assets)
        BY <2>2, <3>1, <4>3, RowGoesOn
      <4> QED  BY <1>1, <3>1, <4>1, <4>4, RetryStep
    <3> QED  BY <3>2, <3>3
  <2>7. ASSUME NEW answers \in BOOLEAN, LookUpRow(j, answers) PROVE RetryInv'
    <3>1. m.st = "lookup" /\ stock' = stock /\ Running(j)
      BY <2>7 DEF LookUpRow, At, Running
    <3>2. CASE answers /\ Found(j)
      <4> DEFINE next == [m EXCEPT !.st = "create"]
      <4>1. import' = [import EXCEPT ![j] = next]
        BY <2>7, <3>2 DEF LookUpRow
      <4>2. /\ next.file = m.file /\ next.row = m.row /\ next.saved = m.saved
            /\ next.unlucky = m.unlucky /\ next.st = "create"
        BY <2>1 DEF IsImport
      <4> HIDE DEF next
      <4>3. InOrder(next, Assets)
        BY <2>2, <3>1, <4>2, RowGoesOn
      <4> QED  BY <1>1, <3>1, <4>1, <4>3, RetryStep
    <3>3. CASE ~ (answers /\ Found(j))
      <4> DEFINE unlucky == skip.unlucky \/ ~ answers
                 next == [skip EXCEPT !.unlucky = unlucky]
      <4>1. import' = [import EXCEPT ![j] = next]
        BY <2>7, <3>3 DEF LookUpRow
      <4>2. unlucky \in BOOLEAN
        OBVIOUS
      <4>3. ~ unlucky => ~ m.unlucky /\ Settled(m, m.row, Assets)
        <5>1. answers => ~ Found(j)
          BY <3>3
        <5>2. answers => Settled(m, m.row, Assets)
          BY <2>2, <3>1, <5>1, SkippedIsSettled
        <5> QED  BY <2>3, <5>2
      <4> HIDE DEF unlucky
      <4>4. InOrder(next, Assets)
        BY <2>4, <3>1, <4>2, <4>3
      <4> HIDE DEF next
      <4> QED  BY <1>1, <3>1, <4>1, <4>4, RetryStep
    <3> QED  BY <3>2, <3>3
  <2>8. CASE CreateRow(j)
    <3> DEFINE a == [type |-> Kind(j).type, ref |-> RefOf(Row(j)), by |-> j]
               next == NextRow(j, {m.row}, {})
               assets == Assets'
    <3>1. /\ Running(j) /\ stock' = Append(stock, a)
          /\ import' = [import EXCEPT ![j] = next]
      BY <2>8 DEF CreateRow, At, Running
    <3>2. Assets \subseteq assets /\ a \in assets
      <4> HIDE DEF a
      <4> QED  BY <3>1, AppendKeeps DEF ImportInv
    <3>3. /\ next.file = m.file /\ next.row = m.row + 1
          /\ next.saved = m.saved \cup {m.row} /\ next.unlucky = m.unlucky
          /\ next.st = (IF m.row = Last(m) THEN "ending" ELSE "check")
      BY <2>1, NextRowFields
    <3> HIDE DEF assets, next
    <3>4. Settled(next, m.row, assets)
      <4> DEFINE row == RowsOf[m.file][m.row]
      <4>1. a.type = Template[m.file].type /\ a.ref[2] = row.ip
        BY DEF Kind, Row, FileRows, RefOf
      <4>2. <<row.ip, row.ip>> \in Within
        BY <2>2, <3>1, ImportAssumption DEF FileRows
      <4> HIDE DEF a
      <4> QED  BY <3>2, <3>3, <4>1, <4>2 DEF Settled
    <3>5. InOrder(next, assets)
      BY <2>2, <3>1, <3>2, <3>3, <3>4, RowEnds
    <3> QED  BY <3>1, <3>2, <3>5, RetryStep DEF assets
  <2>9. CASE RefuseRow(j)
    <3> DEFINE next == [skip EXCEPT !.unlucky = TRUE]
    <3>1. import' = [import EXCEPT ![j] = next] /\ stock' = stock /\ Running(j)
      BY <2>9 DEF RefuseRow, At, Running
    <3>2. InOrder(next, Assets)
      BY <2>4, <3>1
    <3> HIDE DEF next
    <3> QED  BY <1>1, <3>1, <3>2, RetryStep
  <2>10. CASE EndImport(j)
    <3> DEFINE st == IF m.reported = {} THEN "succeeded" ELSE "withErrors"
               next == [m EXCEPT !.st = st]
    <3>1. import' = [import EXCEPT ![j] = next] /\ stock' = stock /\ m.st = "ending"
      BY <2>10 DEF EndImport, At
    <3>2. /\ next.file = m.file /\ next.row = m.row /\ next.saved = m.saved
          /\ next.unlucky = m.unlucky /\ next.st \in {"succeeded", "withErrors"}
      BY <2>1 DEF IsImport
    <3>3. InOrder(m, Assets)
      BY <3>1 DEF RetryInv
    <3> HIDE DEF next
    <3>4. InOrder(next, Assets)
      BY <3>1, <3>2, <3>3, RowGoesOn
    <3> QED  BY <1>1, <3>1, <3>4, RetryStep
  <2>11. CASE BreakImport(j)
    <3> DEFINE next == [m EXCEPT !.st = "broken"]
    <3>1. import' = [import EXCEPT ![j] = next] /\ stock' = stock /\ Running(j)
      BY <2>11 DEF BreakImport
    <3>2. /\ next.file = m.file /\ next.row = m.row /\ next.saved = m.saved
          /\ next.unlucky = m.unlucky /\ next.st = "broken"
      BY <2>1 DEF IsImport
    <3> HIDE DEF next
    <3>3. InOrder(next, Assets)
      BY <2>2, <3>1, <3>2, RowGoesOn
    <3> QED  BY <1>1, <3>1, <3>3, RetryStep
  <2> QED  BY <1>5, <2>5, <2>6, <2>7, <2>8, <2>9, <2>10, <2>11
<1> QED  BY <1>3, <1>4, <1>5 DEF ImportNext

\* Applying a file again completes what an earlier import of it left, however
\* many imports run at the same time: what an import was not refused or denied
\* a look-up for, and did not report for its name or address, is there.
THEOREM ImportsMayBeRepeated == ImportSpec => []RetryCompletes
<1>1. ImportInit => ImportInv /\ RetryInv
  BY InitSound, RetryInit
<1>2. ImportInv /\ RetryInv /\ [ImportNext]_importVars => (ImportInv /\ RetryInv)'
  BY StepSound, RetryNext
<1>3. ImportInv /\ RetryInv => RetryCompletes
  <2> SUFFICES ASSUME ImportInv, RetryInv, NEW j \in Imports,
                      import[j].st \in {"succeeded", "withErrors"},
                      ~ import[j].unlucky, NEW i \in DOMAIN FileRows(j)
               PROVE  Settled(import[j], i, Assets)
    BY DEF RetryCompletes, Settled, FileRows, Kind
  <2>1. Answered(import[j]) /\ InOrder(import[j], Assets)
    BY DEF ImportInv, Sound, RetryInv
  <2>2. Last(import[j]) \in Nat /\ DOMAIN FileRows(j) = 1..Last(import[j])
    BY <2>1, ImportAssumption DEF Answered, FileRows, Last
  <2>3. i \in 1..(import[j].row - 1)
    BY <2>1, <2>2 DEF InOrder
  <2> QED  BY <2>1, <2>3 DEF InOrder
<1> QED  BY <1>1, <1>2, <1>3, PTL DEF ImportSpec

-----------------------------------------------------------------------------
(* Asset types: their versions.                                            *)

\* The local variables of a handler.
EditType ==
  [ step : EditorSteps, op : {"none", "create", "place", "version", "remove"},
    type : Types \cup {"none"}, latest : TypeVersionIds \cup {0},
    version : TypeVersionIds \cup {0}, lists : 0..2,
    pairs : SUBSET (TypeVersionIds \X Kinds),
    unchecked : SUBSET (Keys \X (1..2)), extra : SUBSET Rows,
    missing : SUBSET (Keys \X (1..2)), found : SUBSET TypeVersionIds,
    overtaken : BOOLEAN ]

\* The steps of a handler that has a version of its own.
RelatingSteps == {"listing", "comparing", "reading", "deleting", "relating"}

\* A row of asset_type_version that was inserted, live or not.
Inserted(v) == typeVersion[v].number # 0

\* The rows: versions are inserted in the order of their ids, up to the room.
RowsInv ==
  /\ typeRow \in [Types -> {"none", "live", "deleted"}]
  /\ typeVersion \in [TypeVersionIds -> TypeVersionType]
  /\ relation \subseteq Rows
  /\ clients \in ClientModes
  /\ \A v \in TypeVersionIds : ~Inserted(v) => typeVersion[v] = NoTypeVersion
  /\ \A v \in TypeVersionIds : Inserted(v) => v <= clients.room
  /\ \A v, u \in TypeVersionIds : Inserted(u) /\ v < u => Inserted(v)

\* The ids a handler holds are there when its steps need them, and those of
\* versions of its type.
HoldsVersions(m) ==
  /\ m.step # "idle" => m.type \in Types
  /\ m.step \in {"updating", "inserting"} => m.latest # 0
  /\ m.step \in RelatingSteps => m.version # 0
  /\ \A v \in ({m.latest, m.version} \ {0}) \cup m.found :
       Inserted(v) /\ typeVersion[v].type = m.type

TypesInv ==
  /\ RowsInv
  /\ editor \in [Editors -> EditType]
  /\ \A e \in Editors : HoldsVersions(editor[e])

(***************************************************************************)
(* One editor at a time.  The versions of a type are numbered in the order *)
(* of their ids, and only the last of the live ones may be current.        *)
(***************************************************************************)
InOneLine(t) ==
  /\ typeRow[t] = "none" =>
       \A v \in TypeVersionIds : Inserted(v) => typeVersion[v].type # t
  /\ \A v, u \in LiveVersions(t) :
       v < u => /\ typeVersion[v].number < typeVersion[u].number
                /\ typeVersion[v].archived

\* What it looks for or is going to create.
LeadsToLive(m) ==
  \A x \in m.unchecked \cup m.missing : {x[1][1], x[1][2]} \subseteq AllLiveVersions

\* What is true of the rows at the steps of the one handler m in flight.
EditAlone(m) ==
  /\ typeRow[m.type] # "none"
  /\ m.step = "creating" =>
       \A v \in TypeVersionIds : Inserted(v) => typeVersion[v].type # m.type
  /\ m.step \in {"updating", "inserting"} =>
       /\ m.latest \in LiveVersions(m.type)
       /\ \A v \in LiveVersions(m.type) : v <= m.latest
  /\ m.step \in RelatingSteps => m.version \in AllLiveVersions
  /\ m.step = "inserting" => CurrentVersions(m.type) = {}
  /\ m.op = "version" /\ m.step \in RelatingSteps \cup {"done"} =>
       CurrentVersions(m.type) = {m.version}
  /\ m.op = "version" =>
       m.step \in RelatingSteps \cup {"updating", "inserting", "done"}
  /\ m.step = "reading" => \A p \in m.pairs : p[1] \in AllLiveVersions
  /\ m.step \in {"creating", "updating", "inserting"} =>
       m.unchecked = {} /\ m.missing = {}
  /\ m.step \in RelatingSteps => LeadsToLive(m)
  /\ m.step = "checking" => m.found = LiveVersions(m.type)
  /\ m.step = "removing" =>
       \A r \in relation : {r[1], r[2]} \cap LiveVersions(m.type) = {}

Alone ==
  /\ \A e, o \in Editors :
       editor[e].step # "idle" /\ editor[o].step # "idle" => e = o
  /\ \A t \in Types : InOneLine(t)
  /\ \A e \in Editors : editor[e].step # "idle" => EditAlone(editor[e])
  /\ \A r \in relation : {r[1], r[2]} \subseteq AllLiveVersions

AloneInv == clients.editors = 1 => Alone

-----------------------------------------------------------------------------
\* A set of numbers that is not empty has a smallest one: of the intervals that
\* end at its elements, one holds no other.
LEMMA SmallestOf ==
  ASSUME NEW S \in SUBSET Nat, S # {}
  PROVE  Min(S) \in S /\ \A y \in S : Min(S) <= y
<1> DEFINE F == {0..x : x \in S}
<1>1. F \subseteq FiniteSubsetsOf(Nat) /\ F # {}
  <2>1. \A x \in S : IsFiniteSet(0..x)
    BY FS_Interval
  <2>2. \A x \in S : 0..x \in SUBSET Nat
    OBVIOUS
  <2>3. \A x \in S : 0..x \in FiniteSubsetsOf(Nat)
    BY <2>1, <2>2 DEF FiniteSubsetsOf
  <2> QED  BY <2>3
<1>2. PICK I \in F : \A J \in F : <<J, I>> \notin StrictSubsetOrdering(Nat)
  <2> HIDE DEF F
  <2> QED  BY <1>1, FS_StrictSubsetOrderingWellFounded, WFMin
<1>3. PICK x \in S : I = 0..x
  BY <1>2
<1>4. ASSUME NEW y \in S PROVE x <= y
  <2>1. 0..y \in F /\ <<0..y, 0..x>> \notin StrictSubsetOrdering(Nat)
    BY <1>2, <1>3
  <2>2. SUFFICES ASSUME y < x PROVE FALSE
    OBVIOUS
  <2>3. 0..y \subseteq 0..x /\ x \in 0..x /\ x \notin 0..y
    BY <2>2
  <2>4. 0..y \in SUBSET Nat /\ 0..x \in SUBSET Nat
    OBVIOUS
  <2> QED  BY <2>1, <2>3, <2>4 DEF StrictSubsetOrdering
<1> QED  BY <1>4 DEF Min

\* A set of numbers with a bound has a greatest one.
LEMMA GreatestOf ==
  ASSUME NEW S \in SUBSET Nat, S # {}, NEW b \in Nat, \A x \in S : x <= b
  PROVE  Max(S) \in S /\ \A y \in S : y <= Max(S)
<1> DEFINE T == {b - x : x \in S}
<1>1. T \in SUBSET Nat /\ T # {}
  <2>1. \A x \in S : b - x \in Nat
    OBVIOUS
  <2> QED  BY <2>1
<1>2. PICK x \in S : \A y \in T : b - x <= y
  <2>1. Min(T) \in T /\ \A y \in T : Min(T) <= y
    BY <1>1, SmallestOf
  <2> QED  BY <2>1
<1>3. \A y \in S : x >= y
  BY <1>2
<1> QED  BY <1>3 DEF Max

\* The versions a sort by createdAt puts first: of a type that has any.
LEMMA LatestIsLast ==
  ASSUME RowsInv, NEW t, LiveVersions(t) # {}
  PROVE  Latest(t) \in LiveVersions(t) /\ \A v \in LiveVersions(t) : v <= Latest(t)
<1>1. LiveVersions(t) \in SUBSET Nat
  BY TypeConstantsAssumption DEF LiveVersions
<1>2. clients.room \in Nat
  BY TypeConstantsAssumption DEF RowsInv
<1>3. \A v \in LiveVersions(t) : v <= clients.room
  BY DEF RowsInv, LiveVersions, NoTypeVersion
<1> QED  BY <1>1, <1>2, <1>3, GreatestOf DEF Latest

\* The next id is that of no version so far, and follows all of them.
LEMMA NextIdFollows ==
  ASSUME RowsInv, NEW v \in TypeVersionIds, NextId(v)
  PROVE  /\ ~Inserted(v) /\ v <= clients.room
         /\ \A u \in TypeVersionIds : Inserted(u) <=> u < v
<1>0. TypeVersionIds \subseteq Nat /\ clients.room \in Nat
  BY TypeConstantsAssumption DEF RowsInv
<1>1. v <= clients.room /\ ~Inserted(v)
  BY DEF NextId, Inserted, NoTypeVersion
<1>2. ASSUME NEW u \in TypeVersionIds, u < v PROVE Inserted(u)
  BY <1>0, <1>1, <1>2 DEF NextId, RowsInv
<1>3. ASSUME NEW u \in TypeVersionIds, Inserted(u) PROVE u < v
  <2>1. u # v /\ ~(v < u)
    BY <1>1, <1>3 DEF RowsInv
  <2> QED  BY <1>0, <2>1
<1> QED  BY <1>1, <1>2, <1>3

\* What a step may not do to a version that was inserted.
VersionsStay ==
  \A v \in TypeVersionIds : Inserted(v) =>
    Inserted(v)' /\ typeVersion'[v].type = typeVersion[v].type

\* One id comes next.
LEMMA OneNextId ==
  ASSUME RowsInv, NEW v \in TypeVersionIds, NEW u \in TypeVersionIds,
         NextId(v), NextId(u)
  PROVE  v = u
<1>1. ~(v < u) /\ ~(u < v)
  BY NextIdFollows
<1> QED  BY <1>1, TypeConstantsAssumption

\* A version that is inserted comes after all others.
LEMMA InsertedRows ==
  ASSUME RowsInv, NEW t \in Types, NEW number \in Nat \ {0}, NEW v \in TypeVersionIds,
         NextId(v), InsertVersion(t, number),
         UNCHANGED <<typeRow, relation, clients>>
  PROVE  /\ RowsInv' /\ VersionsStay
         /\ typeVersion' = [u \in TypeVersionIds |-> IF u = v
               THEN [type |-> t, number |-> number, archived |-> FALSE, live |-> TRUE]
               ELSE typeVersion[u]]
<1>1. PICK n \in TypeVersionIds :
        /\ NextId(n)
        /\ typeVersion' = [typeVersion EXCEPT ![n] =
             [type |-> t, number |-> number, archived |-> FALSE, live |-> TRUE]]
  BY DEF InsertVersion
<1>2. n = v
  BY <1>1, OneNextId
<1> PICK new : new = [type |-> t, number |-> number, archived |-> FALSE, live |-> TRUE]
  OBVIOUS
<1>3. typeVersion' = [u \in TypeVersionIds |-> IF u = v THEN new ELSE typeVersion[u]]
  BY <1>1, <1>2 DEF RowsInv
<1>4. new \in TypeVersionType /\ new.number # 0 /\ new.type = t
  BY DEF TypeVersionType
<1>5. ~Inserted(v) /\ v <= clients.room
        /\ \A u \in TypeVersionIds : Inserted(u) <=> u < v
  BY NextIdFollows
<1>6. VersionsStay
  BY <1>3, <1>4, <1>5 DEF VersionsStay, Inserted
<1>7. typeVersion' \in [TypeVersionIds -> TypeVersionType]
  BY <1>3, <1>4 DEF RowsInv
<1>8. \A u \in TypeVersionIds : Inserted(u)' <=> (Inserted(u) \/ u = v)
  BY <1>3, <1>4, <1>5 DEF Inserted
<1>9. \A u, w \in TypeVersionIds : Inserted(w)' /\ u < w => Inserted(u)'
  BY <1>5, <1>8, TypeConstantsAssumption DEF RowsInv
<1>10. \A u \in TypeVersionIds : ~Inserted(u)' => typeVersion'[u] = NoTypeVersion
  BY <1>3, <1>8 DEF RowsInv
<1>11. \A u \in TypeVersionIds : Inserted(u)' => u <= clients'.room
  BY <1>5, <1>8 DEF RowsInv
<1> QED  BY <1>3, <1>6, <1>7, <1>9, <1>10, <1>11 DEF RowsInv

\* A handler that was not the one to step holds what it held.
LEMMA OthersHold ==
  ASSUME VersionsStay, NEW m \in EditType, HoldsVersions(m)
  PROVE  HoldsVersions(m)'
  BY DEF VersionsStay, HoldsVersions, EditType, RelatingSteps

\* A handler that another one overtakes keeps the rest.
SameEdit(m, r) ==
  /\ m.step = r.step /\ m.op = r.op /\ m.type = r.type /\ m.latest = r.latest
  /\ m.version = r.version /\ m.lists = r.lists /\ m.pairs = r.pairs
  /\ m.unchecked = r.unchecked /\ m.extra = r.extra /\ m.missing = r.missing
  /\ m.found = r.found

\* A step of handler e, which then holds m.
StepsTo(e, m) ==
  /\ editor' \in [Editors -> EditType]
  /\ editor'[e] = m
  /\ \A o \in Editors \ {e} : SameEdit(editor[o], editor'[o])

LEMMA SetSteps ==
  ASSUME editor \in [Editors -> EditType], NEW e \in Editors, NEW m \in EditType,
         editor' = [editor EXCEPT ![e] = m]
  PROVE  StepsTo(e, m)
<1>1. editor' \in [Editors -> EditType] /\ editor'[e] = m
  OBVIOUS
<1>2. \A o \in Editors \ {e} : editor'[o] = editor[o]
  OBVIOUS
<1> QED  BY <1>1, <1>2 DEF StepsTo, SameEdit

LEMMA OvertakingSteps ==
  ASSUME editor \in [Editors -> EditType], NEW e \in Editors,
         NEW to \in EditorSteps, NEW rows, Overtaking(e, to, rows)
  PROVE  /\ StepsTo(e, [editor[e] EXCEPT !.step = to])
         /\ [editor[e] EXCEPT !.step = to] \in EditType
         /\ \A o \in Editors \ {e} :
              ~ editor'[o].overtaken /\ editor[o].step \in {"comparing", "deleting", "relating"}
                => \A r \in rows : editor[o].version \notin {r[1], r[2]}
         /\ \A o \in Editors \ {e} : editor[o].overtaken => editor'[o].overtaken
<1> DEFINE Over(o) == /\ editor[o].step \in {"comparing", "deleting", "relating"}
                      /\ \E r \in rows : editor[o].version \in {r[1], r[2]}
<1>1. /\ DOMAIN editor' = Editors
      /\ editor' = [o \in Editors |-> editor'[o]]
      /\ editor'[e] = [editor[e] EXCEPT !.step = to]
      /\ \A o \in Editors \ {e} :
           editor'[o] = [editor[o] EXCEPT !.overtaken = editor[o].overtaken \/ Over(o)]
  BY DEF Overtaking
<1>2. [editor[e] EXCEPT !.step = to] \in EditType
  BY DEF EditType
<1>3. ASSUME NEW o \in Editors \ {e}
      PROVE  /\ editor'[o] \in EditType /\ SameEdit(editor[o], editor'[o])
             /\ editor'[o].overtaken = (editor[o].overtaken \/ Over(o))
  <2>1. editor[o] \in EditType
    OBVIOUS
  <2>2. (editor[o].overtaken \/ Over(o)) \in BOOLEAN
    OBVIOUS
  <2> PICK b \in BOOLEAN : b = (editor[o].overtaken \/ Over(o))
    BY <2>2
  <2>3. editor'[o] = [editor[o] EXCEPT !.overtaken = b]
    BY <1>1
  <2> HIDE DEF Over
  <2>4. editor'[o] \in EditType /\ editor'[o].overtaken = b
    BY <2>1, <2>3 DEF EditType
  <2>5. SameEdit(editor[o], editor'[o])
    BY <2>1, <2>3 DEF SameEdit, EditType
  <2> QED  BY <2>4, <2>5
<1>4. editor' \in [Editors -> EditType]
  BY <1>1, <1>2, <1>3
<1>5. StepsTo(e, [editor[e] EXCEPT !.step = to])
  BY <1>1, <1>3, <1>4 DEF StepsTo
<1> QED  BY <1>2, <1>3, <1>5

\* What another handler held still holds.
LEMMA OvertakenHold ==
  ASSUME VersionsStay, NEW m \in EditType, NEW r, SameEdit(m, r), HoldsVersions(m)
  PROVE  HoldsVersions(r)'
<1>1. HoldsVersions(m)'
  BY OthersHold
<1> QED  BY <1>1 DEF HoldsVersions, SameEdit, RelatingSteps

LEMMA EditorTypeStep ==
  ASSUME TypesInv, RowsInv', VersionsStay, NEW e \in Editors, NEW m,
         StepsTo(e, m), HoldsVersions(m)'
  PROVE  TypesInv'
<1>1. editor' \in [Editors -> EditType]
  BY DEF StepsTo
<1>2. ASSUME NEW o \in Editors PROVE HoldsVersions(editor[o])'
  <2>1. PICK r : r = editor'[o]
    OBVIOUS
  <2>2. HoldsVersions(r)'
    <3>1. CASE o = e
      BY <2>1, <3>1 DEF StepsTo
    <3>2. CASE o # e
      BY <2>1, <3>2, OvertakenHold DEF TypesInv, StepsTo
    <3> QED  BY <3>1, <3>2
  <2> QED  BY <2>1, <2>2
<1> QED  BY <1>1, <1>2 DEF TypesInv

\* A step that writes no version.
LEMMA SameVersions ==
  ASSUME RowsInv, UNCHANGED <<typeVersion, clients>>,
         typeRow' \in [Types -> {"none", "live", "deleted"}], relation' \subseteq Rows
  PROVE  RowsInv' /\ VersionsStay
  BY DEF RowsInv, VersionsStay, Inserted

\* The local variables of the handlers that begin.
Creating(t, lists, pairs) ==
  [ NoEdit EXCEPT !.step = "creating", !.op = "create",
                  !.type = t, !.lists = lists, !.pairs = pairs ]

Updating(op, t, latest, lists, pairs) ==
  [ NoEdit EXCEPT !.step = "updating", !.op = op, !.type = t,
                  !.latest = latest, !.lists = lists, !.pairs = pairs ]

Removing(t, found, step) ==
  [ NoEdit EXCEPT !.op = "remove", !.type = t, !.found = found, !.step = step ]

LEMMA NoEditTyped ==
  /\ NoEdit \in EditType /\ NoEdit.latest = 0 /\ NoEdit.version = 0
  /\ NoEdit.unchecked = {} /\ NoEdit.missing = {} /\ NoEdit.found = {}
  BY DEF NoEdit, EditType, EditorSteps

LEMMA CreatingTyped ==
  ASSUME NEW t \in Types, NEW lists \in 0..2,
         NEW pairs \in SUBSET (TypeVersionIds \X Kinds),
         NEW m, m = Creating(t, lists, pairs)
  PROVE  /\ m \in EditType
         /\ m.step = "creating" /\ m.op = "create" /\ m.type = t /\ m.latest = 0
         /\ m.version = 0 /\ m.found = {} /\ m.unchecked = {} /\ m.missing = {}
<1> PICK n : n = NoEdit
  OBVIOUS
<1> PICK a : a = [n EXCEPT !.step = "creating", !.op = "create", !.type = t]
  OBVIOUS
<1>1. /\ a \in EditType /\ a.step = "creating" /\ a.op = "create" /\ a.type = t
      /\ a.latest = 0 /\ a.version = 0
      /\ a.unchecked = {} /\ a.missing = {} /\ a.found = {}
  BY NoEditTyped DEF EditType, EditorSteps
<1>2. m = [a EXCEPT !.lists = lists, !.pairs = pairs]
  BY DEF Creating
<1> QED  BY <1>1, <1>2 DEF EditType

LEMMA UpdatingTyped ==
  ASSUME NEW op \in {"place", "version"},
         NEW t \in Types, NEW latest \in TypeVersionIds, NEW lists \in 0..1,
         NEW pairs \in SUBSET (TypeVersionIds \X Kinds),
         NEW m, m = Updating(op, t, latest, lists, pairs)
  PROVE  /\ m \in EditType
         /\ m.step = "updating" /\ m.op = op /\ m.type = t /\ m.latest = latest
         /\ m.version = 0 /\ m.found = {} /\ m.unchecked = {} /\ m.missing = {}
<1> PICK n : n = NoEdit
  OBVIOUS
<1> PICK a : a = [n EXCEPT !.step = "updating", !.op = op, !.type = t]
  OBVIOUS
<1>1. /\ a \in EditType /\ a.step = "updating" /\ a.op = op /\ a.type = t
      /\ a.version = 0
      /\ a.unchecked = {} /\ a.missing = {} /\ a.found = {}
  BY NoEditTyped DEF EditType, EditorSteps
<1> PICK b : b = [a EXCEPT !.latest = latest, !.lists = lists]
  OBVIOUS
<1>2. latest \in TypeVersionIds \cup {0} /\ lists \in 0..2
  OBVIOUS
<1>3. b \in EditType
  <2> PICK c : c = [a EXCEPT !.latest = latest]
    OBVIOUS
  <2>1. c \in EditType
    BY <1>1, <1>2 DEF EditType
  <2>2. b = [c EXCEPT !.lists = lists]
    OBVIOUS
  <2> QED  BY <1>2, <2>1, <2>2 DEF EditType
<1>4. /\ b.step = "updating" /\ b.op = op /\ b.type = t
      /\ b.latest = latest /\ b.version = 0
      /\ b.unchecked = {} /\ b.missing = {} /\ b.found = {}
  BY <1>1 DEF EditType
<1>5. m = [b EXCEPT !.pairs = pairs]
  BY DEF Updating
<1>6. m \in EditType
  BY <1>3, <1>5 DEF EditType
<1> QED  BY <1>3, <1>4, <1>5, <1>6 DEF EditType

LEMMA RemovingTyped ==
  ASSUME NEW t \in Types, NEW found \in SUBSET TypeVersionIds, NEW step \in EditorSteps,
         NEW m, m = Removing(t, found, step)
  PROVE  /\ m \in EditType
         /\ m.step = step /\ m.op = "remove" /\ m.type = t /\ m.latest = 0
         /\ m.version = 0 /\ m.found = found /\ m.unchecked = {} /\ m.missing = {}
<1> PICK n : n = NoEdit
  OBVIOUS
<1> PICK a : a = [n EXCEPT !.op = "remove", !.type = t]
  OBVIOUS
<1>1. /\ a \in EditType /\ a.op = "remove" /\ a.type = t
      /\ a.latest = 0 /\ a.version = 0 /\ a.unchecked = {} /\ a.missing = {}
  BY NoEditTyped DEF EditType, EditorSteps
<1>2. m = [a EXCEPT !.found = found, !.step = step]
  BY DEF Removing
<1> QED  BY <1>1, <1>2 DEF EditType

LEMMA TypesInvInit == TypesInit => TypesInv
<1> SUFFICES ASSUME TypesInit PROVE TypesInv
  OBVIOUS
<1>1. RowsInv
  BY TypeConstantsAssumption DEF TypesInit, RowsInv, Inserted, NoTypeVersion, TypeVersionType
<1>2. NoEdit \in EditType /\ HoldsVersions(NoEdit)
  BY DEF NoEdit, EditType, EditorSteps, HoldsVersions, RelatingSteps
<1> QED  BY <1>1, <1>2 DEF TypesInv, TypesInit

\* The rows a handler wants are between its version and the listed ones.
LEMMA DesiredKeys ==
  ASSUME NEW v \in TypeVersionIds, NEW pairs \in SUBSET (TypeVersionIds \X Kinds)
  PROVE  /\ Desired(v, pairs) \subseteq Keys
         /\ DesiredOfNew(v, pairs) \subseteq Desired(v, pairs)
         /\ \A k \in Desired(v, pairs) : \E p \in pairs :
              {k[1], k[2]} = {v, p[1]}
<1> DEFINE forward(S) == { <<v, p[1], p[2]>> : p \in S }
           mirrored(S) == { MirrorKey(k) : k \in { k \in forward(S) : InverseOf[k[3]] # NoKind } }
<1>0. \A S : Desired(v, S) = forward(S) \cup mirrored(S)
  BY DEF Desired
<1>1. ASSUME NEW p \in pairs
      PROVE  /\ p[1] \in TypeVersionIds /\ p[2] \in Kinds
             /\ <<v, p[1], p[2]>> \in Keys
             /\ InverseOf[p[2]] # NoKind => MirrorKey(<<v, p[1], p[2]>>) \in Keys
             /\ MirrorKey(<<v, p[1], p[2]>>) = <<p[1], v, InverseOf[p[2]]>>
  BY TypeConstantsAssumption DEF Keys, MirrorKey
<1>2. ASSUME NEW k \in Desired(v, pairs)
      PROVE  k \in Keys /\ \E p \in pairs : {k[1], k[2]} = {v, p[1]}
  <2>1. PICK p \in pairs : \/ k = <<v, p[1], p[2]>>
                           \/ /\ InverseOf[p[2]] # NoKind
                              /\ k = MirrorKey(<<v, p[1], p[2]>>)
    BY <1>0, <1>2
  <2> QED  BY <1>1, <2>1
<1>3. ASSUME NEW S \in SUBSET pairs PROVE Desired(v, S) \subseteq Desired(v, pairs)
  BY <1>0
<1>4. DesiredOfNew(v, pairs) \subseteq Desired(v, pairs)
  BY <1>3 DEF DesiredOfNew
<1> QED  BY <1>2, <1>4

\* The handler that has taken both differences.
Planned(me, extra, missing) ==
  [me EXCEPT !.step = "deleting", !.extra = extra, !.missing = missing]

LEMMA PlanTyped ==
  ASSUME NEW me \in EditType, NEW extra \in SUBSET Rows,
         NEW missing \in SUBSET (Keys \X (1..2)),
         NEW m, m = Planned(me, extra, missing)
  PROVE  /\ m \in EditType /\ m.step = "deleting" /\ m.version = me.version
         /\ m.latest = me.latest /\ m.found = me.found /\ m.type = me.type
         /\ m.op = me.op /\ m.extra = extra /\ m.missing = missing
         /\ m.unchecked = me.unchecked /\ m.pairs = me.pairs
         /\ m.overtaken = me.overtaken
  BY DEF EditType, Planned, EditorSteps

\* What ReadRelations finds to delete are rows of the table.
LEMMA ExtraRows ==
  ASSUME NEW rows, NEW extra \in OneOfEach(rows)
  PROVE  extra \subseteq rows
  BY DEF OneOfEach

LEMMA NewRowsTyped ==
  ASSUME NEW missing \in SUBSET (Keys \X (1..2)), NEW n \in RowIds
  PROVE  Numbered(missing, n) \subseteq Rows
<1>1. ASSUME NEW x \in missing
      PROVE  <<x[1][1], x[1][2], x[1][3], n + x[2]>> \in Rows
  <2>1. /\ x[1] \in Keys /\ x[2] \in 1..2 /\ n \in Nat
    BY TypeConstantsAssumption
  <2>2. /\ x[1][1] \in TypeVersionIds /\ x[1][2] \in TypeVersionIds /\ x[1][3] \in Kinds
        /\ n + x[2] \in Nat
    BY <2>1 DEF Keys
  <2> QED  BY <2>2 DEF Rows
<1> QED  BY <1>1 DEF Numbered

\* No statement of any handler breaks the types.
LEMMA TypesInvStep == TypesInv /\ [TypesNext]_typeVars => TypesInv'
<1> SUFFICES ASSUME TypesInv, [TypesNext]_typeVars PROVE TypesInv'
  OBVIOUS
<1>0. CASE UNCHANGED typeVars
  BY <1>0 DEF typeVars, TypesInv, RowsInv, HoldsVersions, Inserted, RelatingSteps
<1>r. RowsInv
  BY DEF TypesInv
<1>p. Pairs \subseteq TypeVersionIds \X Kinds /\ 1..clients.repeats \subseteq 0..2
  <2>1. clients \in [ editors : Nat, room : Nat, repeats : 1..2,
                      listed : SUBSET (TypeVersionIds \X Kinds),
                      calls : SUBSET {"create", "place", "version", "remove"} ]
    BY <1>r, TypeConstantsAssumption DEF RowsInv
  <2>2. clients.repeats \in 1..2 /\ clients.listed \subseteq TypeVersionIds \X Kinds
    BY <2>1
  <2> QED  BY <2>2 DEF Pairs
<1>l. \A t : \A v \in LiveVersions(t) :
        v \in TypeVersionIds /\ Inserted(v) /\ typeVersion[v].type = t
  BY <1>r DEF LiveVersions, RowsInv, NoTypeVersion
<1>z. 0 \notin TypeVersionIds
  BY TypeConstantsAssumption
<1>n. ASSUME NEW e \in Editors,
             \/ CreateType(e) \/ InsertFirst(e)
             \/ ReadType(e) \/ UpdateLatest(e) \/ InsertNext(e)
             \/ KeepRelations(e) \/ FindListed(e) \/ CompareRow(e) \/ EndComparing(e)
             \/ ReadRelations(e) \/ DeleteRelations(e) \/ CreateRelations(e)
             \/ FindTypeVersions(e) \/ CheckRelations(e) \/ DeleteTypeVersions(e)
             \/ DeleteType(e)
             \/ EndEdit(e)
      PROVE  TypesInv'
  <2> PICK me : me = editor[e]
    OBVIOUS
  <2>m. me \in EditType /\ HoldsVersions(me)
    BY DEF TypesInv
  <2>t. ASSUME NEW m \in EditType, editor' = [editor EXCEPT ![e] = m]
        PROVE  StepsTo(e, m)
    BY <2>t, SetSteps DEF TypesInv
  <2>s. ASSUME NEW m \in EditType, m.latest = me.latest, m.version = me.version,
               m.found = me.found, m.type = me.type, me.step # "idle",
               m.step \in {"updating", "inserting"} => me.latest # 0,
               m.step \in RelatingSteps => me.version # 0,
               StepsTo(e, m), RowsInv', VersionsStay
        PROVE  TypesInv'
    <3>1. HoldsVersions(m)
      BY <2>m, <2>s DEF HoldsVersions, RelatingSteps
    <3>2. HoldsVersions(m)'
      BY <2>s, <3>1, OthersHold
    <3> QED  BY <2>s, <3>2, EditorTypeStep
  <2>1. CASE CreateType(e)
    <3>1. PICK t \in Types, lists \in 1..clients.repeats, pairs \in SUBSET Pairs :
            /\ BeginEdit(e, Creating(t, lists, pairs))
            /\ typeRow' = [typeRow EXCEPT ![t] = "live"]
      BY <2>1 DEF CreateType, Creating
    <3> PICK m : m = Creating(t, lists, pairs)
      OBVIOUS
    <3>2. /\ m \in EditType
          /\ m.step = "creating" /\ m.type = t /\ m.latest = 0 /\ m.version = 0
          /\ m.found = {}
      BY <1>p, CreatingTyped
    <3>3. editor' = [editor EXCEPT ![e] = m]
      BY <3>1 DEF BeginEdit
    <3>4. RowsInv' /\ VersionsStay
      BY <1>r, <2>1, <3>1, SameVersions DEF CreateType, RowsInv
    <3>5. HoldsVersions(m)'
      BY <3>2 DEF HoldsVersions, RelatingSteps
    <3> QED  BY <3>2, <3>3, <3>4, <3>5, <2>t, EditorTypeStep
  <2>2. ASSUME NEW number \in Nat \ {0}, InsertVersion(me.type, number),
               NEW v \in TypeVersionIds, NextId(v), me.step # "idle",
               editor' = [editor EXCEPT ![e].step = "listing", ![e].version = v],
               UNCHANGED <<typeRow, relation, clients>>
        PROVE  TypesInv'
    <3>1. me.type \in Types
      BY <2>2, <2>m DEF HoldsVersions, RelatingSteps
    <3>2. /\ RowsInv' /\ VersionsStay
          /\ typeVersion' = [u \in TypeVersionIds |-> IF u = v
               THEN [type |-> me.type, number |-> number, archived |-> FALSE,
                     live |-> TRUE]
               ELSE typeVersion[u]]
      BY <1>r, <2>2, <3>1, InsertedRows
    <3> PICK m : m = [me EXCEPT !.step = "listing", !.version = v]
      OBVIOUS
    <3>3. /\ m \in EditType /\ m.step = "listing" /\ m.version = v
          /\ m.latest = me.latest /\ m.found = me.found /\ m.type = me.type
      BY <2>m DEF EditType, EditorSteps
    <3>4. editor' = [editor EXCEPT ![e] = m]
      BY <2>2
    <3>5. Inserted(v)' /\ typeVersion'[v].type = me.type
      BY <2>2, <3>2 DEF Inserted
    <3>6. \A u \in ({me.latest} \ {0}) \cup me.found :
            Inserted(u)' /\ typeVersion'[u].type = me.type
      BY <2>m, <3>2 DEF HoldsVersions, VersionsStay, EditType, RelatingSteps
    <3>7. HoldsVersions(m)'
      BY <1>z, <3>1, <3>3, <3>5, <3>6 DEF HoldsVersions, RelatingSteps
    <3> QED  BY <3>2, <3>3, <3>4, <3>7, <2>t, EditorTypeStep
  <2>3. CASE InsertFirst(e)
    <3>1. PICK v \in TypeVersionIds :
            /\ NextId(v)
            /\ editor' = [editor EXCEPT ![e].step = "listing", ![e].version = v]
      BY <2>3 DEF InsertFirst
    <3>2. me.step # "idle" /\ InsertVersion(me.type, 1)
            /\ UNCHANGED <<typeRow, relation, clients>>
      BY <2>3 DEF InsertFirst, Step
    <3>3. 1 \in Nat \ {0}
      OBVIOUS
    <3> HIDE <2>3
    <3> QED  BY <2>2, <3>1, <3>2, <3>3
  <2>4. CASE ReadType(e)
    <3>1. PICK t \in Types, op \in {"place", "version"}, lists \in 0..1,
               pairs \in SUBSET Pairs :
            /\ LiveVersions(t) # {}
            /\ BeginEdit(e, Updating(op, t, Latest(t), lists, pairs))
      BY <2>4 DEF ReadType, Updating
    <3> PICK last : last = Latest(t)
      OBVIOUS
    <3>2. /\ last \in TypeVersionIds /\ Inserted(last)
          /\ typeVersion[last].type = t
      BY <1>r, <1>l, <3>1, LatestIsLast
    <3> PICK m : m = Updating(op, t, last, lists, pairs)
      OBVIOUS
    <3>3. /\ m \in EditType
          /\ m.step = "updating" /\ m.type = t /\ m.latest = last
          /\ m.version = 0 /\ m.found = {}
      BY <1>p, <3>2, UpdatingTyped
    <3>4. editor' = [editor EXCEPT ![e] = m]
      BY <3>1 DEF BeginEdit
    <3>5. RowsInv' /\ VersionsStay
      BY <1>r, <2>4, SameVersions DEF ReadType, RowsInv
    <3>6. HoldsVersions(m)'
      BY <1>z, <3>2, <3>3, <3>5 DEF HoldsVersions, VersionsStay, RelatingSteps
    <3> QED  BY <3>3, <3>4, <3>5, <3>6, <2>t, EditorTypeStep
  <2>5. CASE UpdateLatest(e)
    <3>1. me.step = "updating" /\ me.latest # 0 /\ me.latest \in TypeVersionIds
      BY <2>5, <2>m DEF UpdateLatest, Step, HoldsVersions, EditType, RelatingSteps
    <3>2. CASE me.op = "place"
      <4> PICK m : m = [me EXCEPT !.step = "listing", !.version = me.latest]
        OBVIOUS
      <4>1. /\ m \in EditType /\ m.step = "listing" /\ m.version = me.latest
            /\ m.latest = me.latest /\ m.found = me.found /\ m.type = me.type
        BY <2>m, <3>1 DEF EditType, EditorSteps
      <4>2. editor' = [editor EXCEPT ![e] = m] /\ typeVersion' = typeVersion
        BY <2>5, <3>2 DEF UpdateLatest
      <4>3. RowsInv' /\ VersionsStay
        BY <1>r, <2>5, <4>2, SameVersions DEF UpdateLatest, RowsInv
      <4>4. HoldsVersions(m)
        BY <2>m, <3>1, <4>1 DEF HoldsVersions, RelatingSteps
      <4> QED  BY <4>1, <4>2, <4>3, <4>4, <2>t, EditorTypeStep, OthersHold
    <3>3. CASE me.op # "place"
      <4> PICK m : m = [me EXCEPT !.step = "inserting"]
        OBVIOUS
      <4>1. /\ m \in EditType /\ m.step = "inserting" /\ m.version = me.version
            /\ m.latest = me.latest /\ m.found = me.found /\ m.type = me.type
        BY <2>m DEF EditType, EditorSteps
      <4>2. /\ editor' = [editor EXCEPT ![e] = m]
            /\ typeVersion' = [typeVersion EXCEPT ![me.latest].archived = TRUE]
        BY <2>5, <3>3 DEF UpdateLatest
      <4>3. typeVersion' = [v \in TypeVersionIds |-> IF v = me.latest
                              THEN [typeVersion[v] EXCEPT !.archived = TRUE]
                              ELSE typeVersion[v]]
        BY <1>r, <4>2 DEF RowsInv
      <4>4. \A v \in TypeVersionIds :
              /\ typeVersion'[v] \in TypeVersionType
              /\ typeVersion'[v].number = typeVersion[v].number
              /\ typeVersion'[v].type = typeVersion[v].type
        BY <1>r, <4>3 DEF RowsInv, TypeVersionType
      <4>5. Inserted(me.latest)
        BY <2>m, <3>1 DEF HoldsVersions, RelatingSteps
      <4>6. \A v \in TypeVersionIds : ~Inserted(v)' => typeVersion'[v] = NoTypeVersion
        BY <1>r, <4>3, <4>4, <4>5 DEF RowsInv, Inserted
      <4>7. typeVersion' \in [TypeVersionIds -> TypeVersionType]
        BY <4>3, <4>4
      <4>8. RowsInv' /\ VersionsStay
        BY <1>r, <2>5, <4>4, <4>6, <4>7
        DEF UpdateLatest, RowsInv, VersionsStay, Inserted
      <4> QED  BY <2>s, <2>t, <3>1, <4>1, <4>2, <4>8 DEF RelatingSteps
    <3> QED  BY <3>2, <3>3
  <2>6. CASE InsertNext(e)
    <3>1. PICK v \in TypeVersionIds :
            /\ NextId(v)
            /\ editor' = [editor EXCEPT ![e].step = "listing", ![e].version = v]
      BY <2>6 DEF InsertNext
    <3>2. me.step = "inserting" /\ me.latest \in TypeVersionIds
      BY <2>6, <2>m DEF InsertNext, Step, HoldsVersions, EditType, RelatingSteps
    <3>3. typeVersion[me.latest].number + 1 \in Nat \ {0}
      BY <1>r, <3>2 DEF RowsInv, TypeVersionType
    <3> QED  BY <2>2, <2>6, <3>1, <3>2, <3>3 DEF InsertNext
  <2>7. CASE KeepRelations(e)
    <3> PICK m : m = [me EXCEPT !.step = "done"]
      OBVIOUS
    <3>1. /\ m \in EditType /\ m.step = "done" /\ m.version = me.version
          /\ m.latest = me.latest /\ m.found = me.found /\ m.type = me.type
      BY <2>m DEF EditType, EditorSteps
    <3>2. RowsInv' /\ VersionsStay
      BY <1>r, <2>7, SameVersions DEF KeepRelations, RowsInv
    <3> QED  BY <2>s, <2>t, <2>7, <3>1, <3>2 DEF KeepRelations, Step, RelatingSteps
  <2>8. CASE ReadRelations(e)
    <3> PICK desired : desired = Desired(me.version, me.pairs)
      OBVIOUS
    <3> PICK existing : existing = Touching(me.version)
      OBVIOUS
    <3>1. me.step = "reading" /\ me.version \in TypeVersionIds /\ me.version # 0
      BY <2>8, <2>m DEF ReadRelations, Step, HoldsVersions, EditType, RelatingSteps
    <3> PICK missing : missing = (desired \ KeysOf(existing)) \X {1}
      OBVIOUS
    <3>2. PICK extra \in IF me.pairs = {} THEN {existing}
                         ELSE OneOfEach({ r \in existing : KeyOf(r) \notin desired }) :
            editor' = [editor EXCEPT ![e].step = "deleting", ![e].extra = extra,
                                     ![e].missing = missing]
      BY <2>8 DEF ReadRelations
    <3>3. desired \subseteq Keys
      BY <2>m, <3>1, DesiredKeys DEF EditType
    <3>4. extra \in SUBSET Rows /\ missing \in SUBSET (Keys \X (1..2))
      <4>1. existing \subseteq Rows
        BY <1>r DEF Touching, RowsInv
      <4>2. extra \subseteq existing
        BY <3>2, ExtraRows
      <4> QED  BY <3>3, <4>1, <4>2
    <3> PICK m : m = Planned(me, extra, missing)
      OBVIOUS
    <3>5. /\ m \in EditType /\ m.step = "deleting" /\ m.version = me.version
          /\ m.latest = me.latest /\ m.found = me.found /\ m.type = me.type
      BY <2>m, <3>4, PlanTyped
    <3>6. editor' = [editor EXCEPT ![e] = m]
      BY <3>2 DEF Planned
    <3>7. RowsInv' /\ VersionsStay
      BY <1>r, <2>8, SameVersions DEF ReadRelations, RowsInv
    <3> QED  BY <2>s, <2>t, <3>1, <3>5, <3>6, <3>7 DEF RelatingSteps
  <2>9. CASE DeleteRelations(e)
    <3> PICK m : m = [me EXCEPT !.step = "relating"]
      OBVIOUS
    <3>1. /\ m \in EditType /\ m.step = "relating" /\ m.version = me.version
          /\ m.latest = me.latest /\ m.found = me.found /\ m.type = me.type
      BY <2>m DEF EditType, EditorSteps
    <3>2. me.step = "deleting" /\ me.version # 0
      BY <2>9, <2>m DEF DeleteRelations, Step, HoldsVersions, RelatingSteps
    <3>3. RowsInv' /\ VersionsStay
      BY <1>r, <2>9, SameVersions DEF DeleteRelations, RowsInv
    <3>4. StepsTo(e, m)
      BY <2>9, OvertakingSteps DEF DeleteRelations, TypesInv, EditorSteps
    <3> QED  BY <2>s, <2>t, <3>1, <3>2, <3>3, <3>4 DEF RelatingSteps
  <2>10. CASE CreateRelations(e)
    <3> PICK m : m = [me EXCEPT !.step = "done"]
      OBVIOUS
    <3>1. /\ m \in EditType /\ m.step = "done" /\ m.version = me.version
          /\ m.latest = me.latest /\ m.found = me.found /\ m.type = me.type
      BY <2>m DEF EditType, EditorSteps
    <3>2. PICK n \in RowIds :
            /\ relation' = relation \cup Numbered(me.missing, n)
            /\ Overtaking(e, "done", Numbered(me.missing, n))
      BY <2>10 DEF CreateRelations
    <3>3. Numbered(me.missing, n) \subseteq Rows
      BY <2>m, NewRowsTyped DEF EditType
    <3>4. RowsInv' /\ VersionsStay
      BY <1>r, <2>10, <3>2, <3>3, SameVersions DEF CreateRelations, RowsInv
    <3>5. StepsTo(e, m) /\ me.step = "relating"
      BY <2>10, <3>2, OvertakingSteps DEF CreateRelations, Step, TypesInv, EditorSteps
    <3> QED  BY <2>s, <2>t, <3>1, <3>4, <3>5 DEF RelatingSteps
  <2>17. CASE FindListed(e)
    <3> PICK wanted : wanted = IF me.op = "create"
                               THEN DesiredOfNew(me.version, me.pairs) \X (1..me.lists)
                               ELSE {}
      OBVIOUS
    <3> PICK step : step = IF me.op = "create" THEN "comparing" ELSE "reading"
      OBVIOUS
    <3>1. /\ me.step = "listing" /\ me.version \in TypeVersionIds /\ me.version # 0
          /\ step \in {"comparing", "reading"}
      BY <2>17, <2>m DEF FindListed, Step, HoldsVersions, EditType, RelatingSteps
    <3>2. wanted \in SUBSET (Keys \X (1..2))
      <4>1. DesiredOfNew(me.version, me.pairs) \subseteq Keys
        BY <2>m, <3>1, DesiredKeys DEF EditType
      <4>2. 1..me.lists \subseteq 1..2
        BY <2>m DEF EditType
      <4> QED  BY <4>1, <4>2
    <3> PICK m : m = [me EXCEPT !.step = step, !.unchecked = wanted]
      OBVIOUS
    <3>3. /\ m \in EditType /\ m.step = step /\ m.version = me.version
          /\ m.latest = me.latest /\ m.found = me.found /\ m.type = me.type
      BY <2>m, <3>1, <3>2 DEF EditType, EditorSteps
    <3>4. RowsInv' /\ VersionsStay
      BY <1>r, <2>17, SameVersions DEF FindListed, RowsInv
    <3>5. editor' = [editor EXCEPT ![e] = m]
      BY <2>17 DEF FindListed
    <3> QED  BY <2>s, <2>t, <3>1, <3>3, <3>4, <3>5 DEF RelatingSteps
  <2>18. CASE CompareRow(e)
    <3>1. PICK wanted \in me.unchecked :
            editor' = [editor EXCEPT ![e] = [me EXCEPT
              !.unchecked = me.unchecked \ {wanted},
              !.missing = IF Ids(wanted[1]) = {} THEN me.missing \cup {wanted}
                          ELSE me.missing]]
      BY <2>18 DEF CompareRow
    <3>2. me.step = "comparing" /\ me.version # 0
      BY <2>18, <2>m DEF CompareRow, Step, HoldsVersions, RelatingSteps
    <3> PICK missing : missing = IF Ids(wanted[1]) = {} THEN me.missing \cup {wanted}
                                 ELSE me.missing
      OBVIOUS
    <3>3. missing \in SUBSET (Keys \X (1..2))
      BY <2>m DEF EditType
    <3> PICK m : m = [me EXCEPT !.unchecked = me.unchecked \ {wanted}, !.missing = missing]
      OBVIOUS
    <3>4. /\ m \in EditType /\ m.step = "comparing" /\ m.version = me.version
          /\ m.latest = me.latest /\ m.found = me.found /\ m.type = me.type
      BY <2>m, <3>2, <3>3 DEF EditType
    <3>5. RowsInv' /\ VersionsStay
      BY <1>r, <2>18, SameVersions DEF CompareRow, RowsInv
    <3>6. editor' = [editor EXCEPT ![e] = m]
      BY <3>1
    <3> QED  BY <2>s, <2>t, <3>2, <3>4, <3>5, <3>6
  <2>19. CASE EndComparing(e)
    <3> PICK m : m = [me EXCEPT !.step = "relating"]
      OBVIOUS
    <3>1. /\ m \in EditType /\ m.step = "relating" /\ m.version = me.version
          /\ m.latest = me.latest /\ m.found = me.found /\ m.type = me.type
      BY <2>m DEF EditType, EditorSteps
    <3>2. me.step = "comparing" /\ me.version # 0
      BY <2>19, <2>m DEF EndComparing, Step, HoldsVersions, RelatingSteps
    <3>3. RowsInv' /\ VersionsStay
      BY <1>r, <2>19, SameVersions DEF EndComparing, RowsInv
    <3>4. editor' = [editor EXCEPT ![e] = m]
      BY <2>19 DEF EndComparing
    <3> QED  BY <2>s, <2>t, <3>1, <3>2, <3>3, <3>4
  <2>11. CASE FindTypeVersions(e)
    <3> DEFINE Then(live) == IF live = {} THEN "vanishing" ELSE "checking"
    <3>1. PICK t \in Types :
            BeginEdit(e, Removing(t, LiveVersions(t), Then(LiveVersions(t))))
      BY <2>11 DEF FindTypeVersions, Removing
    <3> PICK live : live = LiveVersions(t)
      OBVIOUS
    <3> PICK step : step = Then(live)
      OBVIOUS
    <3> PICK m : m = Removing(t, live, step)
      OBVIOUS
    <3>2. live \subseteq TypeVersionIds /\ step \in {"vanishing", "checking"}
      BY <1>l
    <3>3. /\ m \in EditType
          /\ m.step \in {"vanishing", "checking"} /\ m.type = t /\ m.latest = 0
          /\ m.version = 0 /\ m.found = live
      BY <3>2, RemovingTyped DEF EditorSteps
    <3>4. editor' = [editor EXCEPT ![e] = m]
      BY <3>1 DEF BeginEdit
    <3>5. RowsInv' /\ VersionsStay
      BY <1>r, <2>11, SameVersions DEF FindTypeVersions, RowsInv
    <3>6. HoldsVersions(m)'
      BY <1>l, <3>3, <3>5 DEF HoldsVersions, VersionsStay, RelatingSteps
    <3> QED  BY <3>3, <3>4, <3>5, <3>6, <2>t, EditorTypeStep
  <2>12. CASE CheckRelations(e)
    <3> PICK m : m = [me EXCEPT !.step = "removing"]
      OBVIOUS
    <3>1. /\ m \in EditType /\ m.step = "removing" /\ m.version = me.version
          /\ m.latest = me.latest /\ m.found = me.found /\ m.type = me.type
      BY <2>m DEF EditType, EditorSteps
    <3>2. RowsInv' /\ VersionsStay
      BY <1>r, <2>12, SameVersions DEF CheckRelations, RowsInv
    <3> QED  BY <2>s, <2>t, <2>12, <3>1, <3>2 DEF CheckRelations, Step, RelatingSteps
  <2>13. CASE DeleteTypeVersions(e)
    <3> PICK m : m = [me EXCEPT !.step = "vanishing"]
      OBVIOUS
    <3>1. /\ m \in EditType /\ m.step = "vanishing" /\ m.version = me.version
          /\ m.latest = me.latest /\ m.found = me.found /\ m.type = me.type
      BY <2>m DEF EditType, EditorSteps
    <3>2. typeVersion' = [v \in TypeVersionIds |->
            IF typeVersion[v].type = me.type
            THEN [typeVersion[v] EXCEPT !.live = FALSE] ELSE typeVersion[v]]
      BY <2>13 DEF DeleteTypeVersions
    <3>3. \A v \in TypeVersionIds :
            /\ typeVersion'[v] \in TypeVersionType
            /\ typeVersion'[v].number = typeVersion[v].number
            /\ typeVersion'[v].type = typeVersion[v].type
      BY <1>r, <3>2 DEF RowsInv, TypeVersionType
    <3>4. \A v \in TypeVersionIds : ~Inserted(v)' => typeVersion'[v] = NoTypeVersion
      <4>1. ASSUME NEW v \in TypeVersionIds, ~Inserted(v)'
            PROVE  typeVersion'[v] = NoTypeVersion
        <5> PICK row, gone : row = typeVersion[v] /\ gone = typeVersion'[v]
          OBVIOUS
        <5>1. /\ row = NoTypeVersion
              /\ row \in TypeVersionType /\ gone \in TypeVersionType
              /\ gone.type = "none" /\ gone.number = 0
          BY <1>r, <3>3, <4>1 DEF RowsInv, Inserted, NoTypeVersion
        <5>2. row.archived = FALSE /\ row.live = FALSE
          BY <5>1 DEF NoTypeVersion
        <5>3. gone = row \/ gone = [row EXCEPT !.live = FALSE]
          BY <3>2
        <5>4. gone.archived = FALSE /\ gone.live = FALSE
          BY <5>1, <5>2, <5>3 DEF TypeVersionType
        <5>5. gone = NoTypeVersion
          BY <5>1, <5>4 DEF TypeVersionType, NoTypeVersion
        <5> QED  BY <5>5
      <4> QED  BY <4>1
    <3>5. typeVersion' \in [TypeVersionIds -> TypeVersionType]
      BY <3>2, <3>3
    <3>6. RowsInv' /\ VersionsStay
      BY <1>r, <2>13, <3>3, <3>4, <3>5
      DEF DeleteTypeVersions, RowsInv, VersionsStay, Inserted
    <3>7. editor' = [editor EXCEPT ![e] = m] /\ me.step = "removing"
      BY <2>13 DEF DeleteTypeVersions, Step
    <3> QED  BY <2>s, <2>t, <3>1, <3>6, <3>7 DEF RelatingSteps
  <2>14. CASE DeleteType(e)
    <3> PICK m : m = [me EXCEPT !.step = "done"]
      OBVIOUS
    <3>1. /\ m \in EditType /\ m.step = "done" /\ m.version = me.version
          /\ m.latest = me.latest /\ m.found = me.found /\ m.type = me.type
      BY <2>m DEF EditType, EditorSteps
    <3>2. RowsInv' /\ VersionsStay
      BY <1>r, <2>14, SameVersions DEF DeleteType, RowsInv
    <3>3. editor' = [editor EXCEPT ![e] = m] /\ me.step = "vanishing"
      BY <2>14 DEF DeleteType, Step
    <3> QED  BY <2>s, <2>t, <3>1, <3>2, <3>3 DEF RelatingSteps
  <2>15. CASE EndEdit(e)
    <3>1. NoEdit \in EditType
      BY DEF NoEdit, EditType, EditorSteps
    <3>2. RowsInv' /\ VersionsStay
      BY <1>r, <2>15, SameVersions DEF EndEdit, RowsInv
    <3>3. HoldsVersions(NoEdit)'
      BY DEF NoEdit, HoldsVersions, RelatingSteps
    <3> QED  BY <2>15, <3>1, <3>2, <3>3, <2>t, EditorTypeStep DEF EndEdit
  <2> QED  BY <1>n, <2>1, <2>3, <2>4, <2>5, <2>6, <2>7, <2>8, <2>9,
              <2>10, <2>11, <2>12, <2>13, <2>14, <2>15, <2>17, <2>18,
              <2>19
<1> QED  BY <1>0, <1>n DEF TypesNext

\* The rows and the local variables of every handler keep their types, however
\* many edits overlap: among others, a handler's versions are of its type also
\* after others removed or archived them.
THEOREM TypesAreTyped == TypesSpec => []TypesTypeOK
<1>1. TypesInv => TypesTypeOK
  BY DEF TypesInv, RowsInv, HoldsVersions, EditType, TypesTypeOK, RelatingSteps
<1> QED  BY <1>1, TypesInvInit, TypesInvStep, PTL DEF TypesSpec

-----------------------------------------------------------------------------
\* With one handler kept in flight, one begins when all others rest.
LEMMA EditBeginsAlone ==
  ASSUME Alone, clients.editors = 1, NEW e \in Editors, NEW m, BeginEdit(e, m)
  PROVE  \A o \in Editors : editor[o].step = "idle"
<1> DEFINE busy == { o \in Editors : editor[o].step # "idle" }
<1>1. Cardinality(busy) < 1
  BY DEF BeginEdit
<1>2. ASSUME NEW o \in busy PROVE FALSE
  <2>1. busy = {o}
    BY <1>2 DEF Alone
  <2>2. Cardinality({o}) = 1
    BY FS_Singleton
  <2> QED  BY <1>1, <2>1, <2>2
<1> QED  BY <1>2

\* The step of the one handler in flight.
LEMMA AloneStep ==
  ASSUME NEW e \in Editors, NEW m \in EditType,
         \A o \in Editors \ {e} : editor[o].step = "idle",
         StepsTo(e, m),
         m.step # "idle" => EditAlone(m)',
         \A t \in Types : InOneLine(t)',
         \A r \in relation' : {r[1], r[2]} \subseteq AllLiveVersions'
  PROVE  Alone'
<1>1. editor'[e] = m /\ \A o \in Editors \ {e} : editor'[o].step = "idle"
  BY DEF StepsTo, SameEdit
<1>2. ASSUME NEW o \in Editors, editor'[o].step # "idle"
      PROVE  EditAlone(editor[o])'
  <2>1. o = e /\ editor'[o] = m
    BY <1>1, <1>2
  <2> QED  BY <1>2, <2>1
<1> QED  BY <1>1, <1>2 DEF Alone

\* A step that writes no version, and no row of a type back to nothing.
LEMMA SameLines ==
  ASSUME Alone, UNCHANGED typeVersion,
         \A t \in Types : typeRow'[t] = "none" => typeRow[t] = "none"
  PROVE  /\ \A t : LiveVersions(t)' = LiveVersions(t)
         /\ \A t : CurrentVersions(t)' = CurrentVersions(t)
         /\ AllLiveVersions' = AllLiveVersions
         /\ \A v : Inserted(v)' <=> Inserted(v)
         /\ \A t \in Types : InOneLine(t)'
<1>1. /\ \A t : LiveVersions(t)' = LiveVersions(t)
      /\ AllLiveVersions' = AllLiveVersions
      /\ \A v : Inserted(v)' <=> Inserted(v)
  BY DEF LiveVersions, AllLiveVersions, Inserted
<1>2. \A t : CurrentVersions(t)' = CurrentVersions(t)
  BY <1>1 DEF CurrentVersions
<1>3. \A t \in Types : InOneLine(t)'
  BY <1>1 DEF Alone, InOneLine
<1> QED  BY <1>1, <1>2, <1>3

\* A version that is inserted when the versions before it, if any, are archived
\* and have smaller numbers.
LEMMA InsertedAlone ==
  ASSUME TypesInv, Alone, NEW t \in Types, NEW number \in Nat \ {0},
         NEW v \in TypeVersionIds, NextId(v), InsertVersion(t, number),
         UNCHANGED <<typeRow, relation, clients>>, typeRow[t] # "none",
         \A u \in LiveVersions(t) : /\ typeVersion[u].number < number
                                    /\ typeVersion[u].archived
  PROVE  /\ CurrentVersions(t)' = {v}
         /\ v \in AllLiveVersions'
         /\ \A s \in Types : InOneLine(s)'
         /\ \A r \in relation' : {r[1], r[2]} \subseteq AllLiveVersions'
<1>0. RowsInv
  BY DEF TypesInv
<1> PICK new : new = [type |-> t, number |-> number, archived |-> FALSE, live |-> TRUE]
  OBVIOUS
<1>n. new.type = t /\ new.number = number /\ ~ new.archived /\ new.live
  OBVIOUS
<1>1. typeVersion' = [u \in TypeVersionIds |-> IF u = v THEN new ELSE typeVersion[u]]
  BY <1>0, InsertedRows
<1>2. ~Inserted(v) /\ \A u \in TypeVersionIds : Inserted(u) <=> u < v
  BY <1>0, NextIdFollows
<1>3. \A s : LiveVersions(s)' = IF s = t THEN LiveVersions(s) \cup {v} ELSE LiveVersions(s)
  <2>1. ~ typeVersion[v].live
    BY <1>0, <1>2 DEF RowsInv, NoTypeVersion
  <2> QED  BY <1>n, <1>1, <2>1 DEF LiveVersions
<1>4. \A s : \A u \in LiveVersions(s) : u \in TypeVersionIds /\ u < v
  BY <1>0, <1>2 DEF LiveVersions, RowsInv, NoTypeVersion
<1>5. AllLiveVersions' = AllLiveVersions \cup {v}
  <2>1. ~ typeVersion[v].live
    BY <1>0, <1>2 DEF RowsInv, NoTypeVersion
  <2> QED  BY <1>n, <1>1, <2>1 DEF AllLiveVersions
<1>6. CurrentVersions(t)' = {v}
  <2>1. \A u \in LiveVersions(t) : typeVersion'[u].archived
    BY <1>1, <1>2, <1>4
  <2>2. ~ typeVersion'[v].archived
    BY <1>n, <1>1
  <2> QED  BY <1>3, <2>1, <2>2 DEF CurrentVersions
<1>7. ASSUME NEW s \in Types PROVE InOneLine(s)'
  <2>1. \A u \in TypeVersionIds :
          Inserted(u)' => u = v \/ (Inserted(u) /\ typeVersion'[u] = typeVersion[u])
    BY <1>1 DEF Inserted
  <2>2. typeRow'[s] = "none" =>
          \A u \in TypeVersionIds : Inserted(u)' => typeVersion'[u].type # s
    BY <1>n, <1>1, <2>1 DEF Alone, InOneLine
  <2>3. ASSUME NEW u \in LiveVersions(s)', NEW w \in LiveVersions(s)', u < w
        PROVE  typeVersion'[u].number < typeVersion'[w].number
                 /\ typeVersion'[u].archived
    <3>0. /\ u \in LiveVersions(s) \cup {v} /\ w \in LiveVersions(s) \cup {v}
          /\ u \in Nat /\ w \in Nat /\ v \in Nat
      BY <1>3, <1>4, <2>3, TypeConstantsAssumption
    <3>1. u \in LiveVersions(s) /\ u # v
      <4>1. w < v \/ w = v
        BY <1>4, <3>0
      <4>2. u # v
        BY <2>3, <3>0, <4>1
      <4> QED  BY <3>0, <4>2
    <3>2. typeVersion'[u] = typeVersion[u]
      BY <1>1, <1>4, <3>1
    <3>3. CASE w = v
      <4>1. s = t
        <5>1. ~(v < v)
          BY TypeConstantsAssumption
        <5> QED  BY <1>3, <1>4, <2>3, <3>3, <5>1
      <4> QED  BY <1>n, <1>1, <3>1, <3>2, <3>3, <4>1
    <3>4. CASE w # v
      <4>1. w \in LiveVersions(s)
        BY <1>3, <2>3, <3>4
      <4>2. typeVersion'[w] = typeVersion[w]
        BY <1>1, <1>4, <3>4, <4>1
      <4> QED  BY <2>3, <3>1, <3>2, <4>1, <4>2 DEF Alone, InOneLine
    <3> QED  BY <3>3, <3>4
  <2> QED  BY <2>2, <2>3 DEF InOneLine
<1>8. \A r \in relation' : {r[1], r[2]} \subseteq AllLiveVersions'
  BY <1>5 DEF Alone
<1> QED  BY <1>5, <1>6, <1>7, <1>8

LEMMA AloneInit == TypesInit => AloneInv
  BY DEF TypesInit, AloneInv, Alone, InOneLine, LiveVersions, NoTypeVersion,
     NoEdit, Inserted

\* With one handler at a time, wherever it stops.
LEMMA AloneNext ==
  ASSUME TypesInv, Alone, clients.editors = 1, TypesNext
  PROVE  Alone'
<1>r. RowsInv
  BY DEF TypesInv
<1>p. Pairs \subseteq TypeVersionIds \X Kinds /\ 1..clients.repeats \subseteq 0..2
  <2>1. clients \in [ editors : Nat, room : Nat, repeats : 1..2,
                      listed : SUBSET (TypeVersionIds \X Kinds),
                      calls : SUBSET {"create", "place", "version", "remove"} ]
    BY <1>r, TypeConstantsAssumption DEF RowsInv
  <2>2. clients.repeats \in 1..2 /\ clients.listed \subseteq TypeVersionIds \X Kinds
    BY <2>1
  <2> QED  BY <2>2 DEF Pairs
<1>l. \A t : \A v \in LiveVersions(t) :
        /\ v \in TypeVersionIds /\ v \in Nat
        /\ Inserted(v) /\ typeVersion[v].type = t
        /\ v \in AllLiveVersions
  BY <1>r, TypeConstantsAssumption
  DEF LiveVersions, AllLiveVersions, RowsInv, NoTypeVersion, Inserted
<1> PICK e \in Editors :
      \/ CreateType(e) \/ InsertFirst(e)
      \/ ReadType(e) \/ UpdateLatest(e) \/ InsertNext(e)
      \/ KeepRelations(e) \/ FindListed(e) \/ CompareRow(e) \/ EndComparing(e)
      \/ ReadRelations(e) \/ DeleteRelations(e) \/ CreateRelations(e)
      \/ FindTypeVersions(e) \/ CheckRelations(e) \/ DeleteTypeVersions(e)
      \/ DeleteType(e)
      \/ EndEdit(e)
  BY DEF TypesNext
<1> PICK me : me = editor[e]
  OBVIOUS
<1>m. me \in EditType /\ HoldsVersions(me)
  BY DEF TypesInv
<1>t. ASSUME NEW m \in EditType, editor' = [editor EXCEPT ![e] = m]
      PROVE  StepsTo(e, m)
  BY <1>t, SetSteps DEF TypesInv
<1>o. me.step # "idle" =>
        /\ EditAlone(me) /\ me.type \in Types
        /\ \A o \in Editors \ {e} : editor[o].step = "idle"
  BY <1>m DEF Alone, HoldsVersions, RelatingSteps
<1>b. ASSUME NEW m, BeginEdit(e, m)
      PROVE  /\ editor' = [editor EXCEPT ![e] = m]
             /\ \A o \in Editors \ {e} : editor[o].step = "idle"
  BY <1>b, EditBeginsAlone DEF BeginEdit
<1>1. CASE CreateType(e)
  <2>1. PICK t \in Types, lists \in 1..clients.repeats, pairs \in SUBSET Pairs :
          /\ typeRow[t] = "none"
          /\ BeginEdit(e, Creating(t, lists, pairs))
          /\ typeRow' = [typeRow EXCEPT ![t] = "live"]
    BY <1>1 DEF CreateType, Creating
  <2> PICK m : m = Creating(t, lists, pairs)
    OBVIOUS
  <2>2. /\ m \in EditType /\ m.step = "creating" /\ m.type = t /\ m.op = "create"
        /\ m.unchecked = {} /\ m.missing = {}
    BY <1>p, CreatingTyped
  <2>3. BeginEdit(e, m)
    BY <2>1
  <2>4. UNCHANGED <<typeVersion, relation>>
          /\ \A s \in Types : typeRow'[s] = "none" => typeRow[s] = "none"
    BY <1>1, <1>r, <2>1 DEF CreateType, RowsInv
  <2>5. /\ AllLiveVersions' = AllLiveVersions
        /\ \A v : Inserted(v)' <=> Inserted(v)
        /\ \A s \in Types : InOneLine(s)'
    BY <2>4, SameLines
  <2>6. \A v \in TypeVersionIds : Inserted(v) => typeVersion[v].type # t
    BY <2>1 DEF Alone, InOneLine
  <2>7. typeRow'[t] # "none"
    BY <1>r, <2>1 DEF RowsInv
  <2>8. EditAlone(m)'
    BY <2>2, <2>4, <2>5, <2>6, <2>7 DEF EditAlone, RelatingSteps
  <2>9. \A r \in relation' : {r[1], r[2]} \subseteq AllLiveVersions'
    BY <2>4, <2>5 DEF Alone
  <2> QED  BY <1>b, <2>2, <2>3, <2>5, <2>8, <2>9, <1>t, AloneStep
<1>2. ASSUME NEW number \in Nat \ {0}, InsertVersion(me.type, number),
             NEW v \in TypeVersionIds, NextId(v), me.step \in {"creating", "inserting"},
             editor' = [editor EXCEPT ![e].step = "listing", ![e].version = v],
             UNCHANGED <<typeRow, relation, clients>>,
             \A u \in LiveVersions(me.type) : /\ typeVersion[u].number < number
                                              /\ typeVersion[u].archived
      PROVE  Alone'
  <2>1. EditAlone(me) /\ me.type \in Types /\ typeRow[me.type] # "none"
    BY <1>2, <1>o DEF EditAlone, RelatingSteps
  <2>2. /\ CurrentVersions(me.type)' = {v}
        /\ v \in AllLiveVersions'
        /\ \A s \in Types : InOneLine(s)'
        /\ \A r \in relation' : {r[1], r[2]} \subseteq AllLiveVersions'
    BY <1>2, <2>1, InsertedAlone
  <2> PICK m : m = [me EXCEPT !.step = "listing", !.version = v]
    OBVIOUS
  <2>3. /\ m \in EditType /\ m.step = "listing" /\ m.version = v
        /\ m.type = me.type /\ m.op = me.op
        /\ m.unchecked = me.unchecked /\ m.missing = me.missing
    BY <1>m DEF EditType, EditorSteps
  <2>8. m.unchecked = {} /\ m.missing = {}
    BY <1>2, <2>1, <2>3 DEF EditAlone
  <2>4. editor' = [editor EXCEPT ![e] = m]
    BY <1>2
  <2>5. typeRow'[m.type] # "none"
    BY <1>2, <2>1, <2>3
  <2>6. EditAlone(m)'
    BY <2>2, <2>3, <2>5, <2>8 DEF EditAlone, RelatingSteps, LeadsToLive
  <2>7. \A o \in Editors \ {e} : editor[o].step = "idle"
    BY <1>2, <1>o
  <2> QED  BY <2>2, <2>3, <2>4, <2>6, <2>7, <1>t, AloneStep
<1>3. CASE InsertFirst(e)
  <2>1. PICK v \in TypeVersionIds :
          /\ NextId(v)
          /\ editor' = [editor EXCEPT ![e].step = "listing", ![e].version = v]
    BY <1>3 DEF InsertFirst
  <2>2. /\ me.step = "creating" /\ InsertVersion(me.type, 1)
        /\ UNCHANGED <<typeRow, relation, clients>>
    BY <1>3 DEF InsertFirst, Step
  <2>3. LiveVersions(me.type) = {}
    BY <1>l, <1>o, <2>2 DEF EditAlone, RelatingSteps
  <2>4. 1 \in Nat \ {0}
    OBVIOUS
  <2> QED  BY <1>2, <2>1, <2>2, <2>3, <2>4
<1>4. CASE InsertNext(e)
  <2>1. PICK v \in TypeVersionIds :
          /\ NextId(v)
          /\ editor' = [editor EXCEPT ![e].step = "listing", ![e].version = v]
    BY <1>4 DEF InsertNext
  <2> PICK number : number = typeVersion[me.latest].number + 1
    OBVIOUS
  <2>2. /\ me.step = "inserting" /\ InsertVersion(me.type, number)
        /\ UNCHANGED <<typeRow, relation, clients>>
    BY <1>4 DEF InsertNext, Step
  <2>3. /\ me.latest \in LiveVersions(me.type)
        /\ \A u \in LiveVersions(me.type) : u <= me.latest
        /\ CurrentVersions(me.type) = {}
        /\ me.type \in Types
    BY <1>o, <2>2 DEF EditAlone, RelatingSteps
  <2>4. \A u \in TypeVersionIds : typeVersion[u].number \in Nat
    BY <1>r DEF RowsInv, TypeVersionType
  <2>5. number \in Nat \ {0}
    BY <1>l, <2>3, <2>4
  <2>6. ASSUME NEW u \in LiveVersions(me.type)
        PROVE  typeVersion[u].number < number /\ typeVersion[u].archived
    <3>1. u = me.latest \/ u < me.latest
      BY <1>l, <2>3
    <3>2. u < me.latest => typeVersion[u].number < typeVersion[me.latest].number
      BY <2>3 DEF Alone, InOneLine
    <3>3. typeVersion[u].archived
      BY <2>3 DEF CurrentVersions
    <3> QED  BY <1>l, <2>3, <2>4, <3>1, <3>2, <3>3
  <2> QED  BY <1>2, <2>1, <2>2, <2>5, <2>6
<1>5. CASE ReadType(e)
  <2>1. PICK t \in Types, op \in {"place", "version"}, lists \in 0..1,
             pairs \in SUBSET Pairs :
          /\ typeRow[t] = "live" /\ LiveVersions(t) # {}
          /\ BeginEdit(e, Updating(op, t, Latest(t), lists, pairs))
    BY <1>5 DEF ReadType, Updating
  <2> PICK last : last = Latest(t)
    OBVIOUS
  <2>2. last \in LiveVersions(t) /\ \A v \in LiveVersions(t) : v <= last
    BY <1>r, <2>1, LatestIsLast
  <2> PICK m : m = Updating(op, t, last, lists, pairs)
    OBVIOUS
  <2>3. /\ m \in EditType /\ m.step = "updating" /\ m.type = t
        /\ m.latest = last /\ m.unchecked = {} /\ m.missing = {}
    BY <1>p, <1>l, <2>2, UpdatingTyped
  <2>4. BeginEdit(e, m)
    BY <2>1
  <2>5. UNCHANGED <<typeRow, typeVersion, relation>>
    BY <1>5 DEF ReadType
  <2>6. /\ AllLiveVersions' = AllLiveVersions
        /\ \A s : LiveVersions(s)' = LiveVersions(s)
        /\ \A s \in Types : InOneLine(s)'
    BY <2>5, SameLines
  <2>7. EditAlone(m)'
    BY <2>1, <2>2, <2>3, <2>5, <2>6 DEF EditAlone, RelatingSteps
  <2>8. \A r \in relation' : {r[1], r[2]} \subseteq AllLiveVersions'
    BY <2>5, <2>6 DEF Alone
  <2> QED  BY <1>b, <2>3, <2>4, <2>6, <2>7, <2>8, <1>t, AloneStep
<1>6. CASE UpdateLatest(e)
  <2>1. me.step = "updating" /\ UNCHANGED <<typeRow, relation>>
    BY <1>6 DEF UpdateLatest, Step
  <2>2. /\ EditAlone(me) /\ me.type \in Types
        /\ \A o \in Editors \ {e} : editor[o].step = "idle"
    BY <1>o, <2>1
  <2>3. /\ me.latest \in LiveVersions(me.type)
        /\ \A v \in LiveVersions(me.type) : v <= me.latest
        /\ typeRow[me.type] # "none"
        /\ me.unchecked = {} /\ me.missing = {}
    BY <2>1, <2>2 DEF EditAlone, RelatingSteps
  <2>4. CASE me.op = "place"
    <3> PICK m : m = [me EXCEPT !.step = "listing", !.version = me.latest]
      OBVIOUS
    <3>1. /\ m \in EditType /\ m.step = "listing" /\ m.version = me.latest
          /\ m.type = me.type /\ m.op = "place"
          /\ m.unchecked = me.unchecked /\ m.missing = me.missing
      BY <1>m, <1>l, <2>3, <2>4 DEF EditType, EditorSteps
    <3>2. editor' = [editor EXCEPT ![e] = m] /\ typeVersion' = typeVersion
      BY <1>6, <2>4 DEF UpdateLatest
    <3>3. /\ AllLiveVersions' = AllLiveVersions
          /\ \A s \in Types : InOneLine(s)'
      BY <2>1, <3>2, SameLines
    <3>4. m.version \in AllLiveVersions
      BY <1>l, <2>3, <3>1
    <3>5. EditAlone(m)'
      BY <2>1, <2>3, <3>1, <3>3, <3>4 DEF EditAlone, RelatingSteps, LeadsToLive
    <3>6. \A r \in relation' : {r[1], r[2]} \subseteq AllLiveVersions'
      BY <2>1, <3>3 DEF Alone
    <3> QED  BY <2>2, <3>1, <3>2, <3>3, <3>5, <3>6, <1>t, AloneStep
  <2>5. CASE me.op # "place"
    <3> PICK m : m = [me EXCEPT !.step = "inserting"]
      OBVIOUS
    <3>1. /\ m \in EditType /\ m.step = "inserting" /\ m.latest = me.latest
          /\ m.type = me.type /\ m.op = me.op
          /\ m.unchecked = me.unchecked /\ m.missing = me.missing
      BY <1>m DEF EditType, EditorSteps
    <3>2. /\ editor' = [editor EXCEPT ![e] = m]
          /\ typeVersion' = [typeVersion EXCEPT ![me.latest].archived = TRUE]
      BY <1>6, <2>5 DEF UpdateLatest
    <3>3. typeVersion' = [v \in TypeVersionIds |-> IF v = me.latest
                            THEN [typeVersion[v] EXCEPT !.archived = TRUE]
                            ELSE typeVersion[v]]
      BY <1>r, <3>2 DEF RowsInv
    <3>4. \A v \in TypeVersionIds :
            /\ typeVersion'[v].number = typeVersion[v].number
            /\ typeVersion'[v].type = typeVersion[v].type
            /\ typeVersion'[v].live = typeVersion[v].live
            /\ typeVersion[v].archived => typeVersion'[v].archived
            /\ v = me.latest => typeVersion'[v].archived
      <4>1. ASSUME NEW v \in TypeVersionIds
            PROVE  /\ typeVersion'[v].number = typeVersion[v].number
                   /\ typeVersion'[v].type = typeVersion[v].type
                   /\ typeVersion'[v].live = typeVersion[v].live
                   /\ typeVersion[v].archived => typeVersion'[v].archived
                   /\ v = me.latest => typeVersion'[v].archived
        <5>1. typeVersion[v] \in TypeVersionType
          BY <1>r DEF RowsInv
        <5> QED  BY <3>3, <5>1 DEF TypeVersionType
      <4> QED  BY <4>1
    <3>5. /\ \A t : LiveVersions(t)' = LiveVersions(t)
          /\ AllLiveVersions' = AllLiveVersions
          /\ \A v \in TypeVersionIds : Inserted(v)' <=> Inserted(v)
      BY <3>4 DEF LiveVersions, AllLiveVersions, Inserted
    <3>6. ASSUME NEW t \in Types PROVE InOneLine(t)'
      <4>1. /\ typeRow'[t] = "none" =>
                 \A v \in TypeVersionIds : Inserted(v)' => typeVersion'[v].type # t
        BY <2>1, <3>4, <3>5 DEF Alone, InOneLine
      <4>2. ASSUME NEW v \in LiveVersions(t), NEW u \in LiveVersions(t), v < u
            PROVE  typeVersion'[v].number < typeVersion'[u].number
                     /\ typeVersion'[v].archived
        BY <1>l, <3>4, <4>2 DEF Alone, InOneLine
      <4> QED  BY <3>5, <4>1, <4>2 DEF InOneLine
    <3>7. CurrentVersions(me.type)' = {}
      <4>1. ASSUME NEW v \in LiveVersions(me.type) PROVE typeVersion'[v].archived
        <5>1. v = me.latest \/ v < me.latest
          BY <1>l, <2>3
        <5>2. v < me.latest => typeVersion[v].archived
          BY <2>2, <2>3 DEF Alone, InOneLine
        <5> QED  BY <1>l, <3>4, <5>1, <5>2
      <4> QED  BY <3>5, <4>1 DEF CurrentVersions
    <3>8. EditAlone(m)'
      BY <2>1, <2>3, <3>1, <3>5, <3>7 DEF EditAlone, RelatingSteps
    <3>9. \A r \in relation' : {r[1], r[2]} \subseteq AllLiveVersions'
      BY <2>1, <3>5 DEF Alone
    <3> QED  BY <2>2, <3>1, <3>2, <3>6, <3>8, <3>9, <1>t, AloneStep
  <2> QED  BY <2>4, <2>5
<1>7. ASSUME NEW m \in EditType, m.type = me.type, m.op = me.op, m.version = me.version,
             me.step # "idle", StepsTo(e, m),
             UNCHANGED typeVersion,
             \A t \in Types : typeRow'[t] = "none" => typeRow[t] = "none",
             m.step \in {"comparing", "reading", "deleting", "relating", "removing",
                         "vanishing", "done"},
             m.step \in RelatingSteps => me.step \in RelatingSteps,
             m.step = "reading" => \A p \in m.pairs : p[1] \in AllLiveVersions,
             m.step \in RelatingSteps => LeadsToLive(m),
             m.step = "removing" => me.op # "version" /\
               \A r \in relation' : {r[1], r[2]} \cap LiveVersions(m.type) = {},
             m.step = "vanishing" => me.op # "version",
             m.step = "done" /\ m.op = "version" => me.step \in RelatingSteps,
             \A r \in relation' : {r[1], r[2]} \subseteq AllLiveVersions
      PROVE  Alone'
  <2>1. /\ EditAlone(me) /\ me.type \in Types
        /\ \A o \in Editors \ {e} : editor[o].step = "idle"
    BY <1>7, <1>o
  <2>2. /\ \A t : LiveVersions(t)' = LiveVersions(t)
        /\ \A t : CurrentVersions(t)' = CurrentVersions(t)
        /\ AllLiveVersions' = AllLiveVersions
        /\ \A t \in Types : InOneLine(t)'
    BY <1>7, SameLines
  <2>3. typeRow'[m.type] # "none"
    BY <1>7, <2>1 DEF EditAlone, RelatingSteps
  <2>4. m.step \in RelatingSteps => m.version \in AllLiveVersions
    BY <1>7, <2>1 DEF EditAlone, RelatingSteps
  <2>5. m.op = "version" => /\ m.step \in RelatingSteps \cup {"done"}
                            /\ CurrentVersions(m.type) = {m.version}
    BY <1>7, <2>1 DEF EditAlone, RelatingSteps
  <2>6. EditAlone(m)'
    <3>1. LeadsToLive(m)' <=> LeadsToLive(m)
      BY <2>2 DEF LeadsToLive
    <3> QED  BY <1>7, <2>2, <2>3, <2>4, <2>5, <3>1 DEF EditAlone, RelatingSteps
  <2>7. \A r \in relation' : {r[1], r[2]} \subseteq AllLiveVersions'
    BY <1>7, <2>2
  <2> QED  BY <1>7, <2>1, <2>2, <2>6, <2>7, AloneStep
<1>8. CASE KeepRelations(e)
  <2> PICK m : m = [me EXCEPT !.step = "done"]
    OBVIOUS
  <2>1. /\ m \in EditType /\ m.step = "done" /\ m.version = me.version
        /\ m.op = me.op /\ m.type = me.type
    BY <1>m DEF EditType, EditorSteps
  <2>2. /\ me.step = "listing" /\ editor' = [editor EXCEPT ![e] = m]
        /\ UNCHANGED <<typeRow, typeVersion, relation>>
    BY <1>8 DEF KeepRelations, Step
  <2>3. \A r \in relation' : {r[1], r[2]} \subseteq AllLiveVersions
    BY <2>2 DEF Alone
  <2> QED  BY <1>7, <1>t, <2>1, <2>2, <2>3 DEF RelatingSteps
<1>9. CASE ReadRelations(e)
  <2> PICK desired : desired = Desired(me.version, me.pairs)
    OBVIOUS
  <2> PICK existing : existing = Touching(me.version)
    OBVIOUS
  <2>1. me.step = "reading" /\ me.version \in TypeVersionIds
    BY <1>9, <1>m DEF ReadRelations, Step, HoldsVersions, EditType, RelatingSteps
  <2> PICK missing : missing = (desired \ KeysOf(existing)) \X {1}
    OBVIOUS
  <2>2. PICK extra \in IF me.pairs = {} THEN {existing}
                       ELSE OneOfEach({ r \in existing : KeyOf(r) \notin desired }) :
          editor' = [editor EXCEPT ![e].step = "deleting", ![e].extra = extra,
                                   ![e].missing = missing]
    BY <1>9 DEF ReadRelations
  <2>3. /\ desired \subseteq Keys
        /\ \A k \in desired : \E p \in me.pairs : {k[1], k[2]} = {me.version, p[1]}
    BY <1>m, <2>1, DesiredKeys DEF EditType
  <2>4. extra \in SUBSET Rows /\ missing \in SUBSET (Keys \X (1..2))
    <3>1. existing \subseteq Rows
      BY <1>r DEF Touching, RowsInv
    <3>2. extra \subseteq existing
      BY <2>2, ExtraRows
    <3> QED  BY <2>3, <3>1, <3>2
  <2> PICK m : m = Planned(me, extra, missing)
    OBVIOUS
  <2>5. /\ m \in EditType /\ m.step = "deleting" /\ m.version = me.version
        /\ m.type = me.type /\ m.op = me.op /\ m.missing = missing
        /\ m.unchecked = me.unchecked
    BY <1>m, <2>4, PlanTyped
  <2>6. editor' = [editor EXCEPT ![e] = m]
    BY <2>2 DEF Planned
  <2>7. UNCHANGED <<typeRow, typeVersion, relation>>
    BY <1>9 DEF ReadRelations
  <2>8. /\ me.version \in AllLiveVersions /\ LeadsToLive(me)
        /\ \A p \in me.pairs : p[1] \in AllLiveVersions
    BY <1>o, <2>1 DEF EditAlone, RelatingSteps
  <2>9. LeadsToLive(m)
    <3>1. \A k \in desired : {k[1], k[2]} \subseteq AllLiveVersions
      BY <2>3, <2>8
    <3>2. \A x \in missing : x[1] \in desired
      OBVIOUS
    <3>3. \A x \in missing : {x[1][1], x[1][2]} \subseteq AllLiveVersions
      BY <3>1, <3>2
    <3>4. \A x \in me.unchecked : {x[1][1], x[1][2]} \subseteq AllLiveVersions
      BY <2>8 DEF LeadsToLive
    <3>5. \A x \in m.unchecked \cup m.missing : x \in me.unchecked \/ x \in missing
      BY <2>5
    <3> QED  BY <3>3, <3>4, <3>5 DEF LeadsToLive
  <2>10. \A r \in relation' : {r[1], r[2]} \subseteq AllLiveVersions
    BY <2>7 DEF Alone
  <2> QED  BY <1>7, <1>t, <2>1, <2>5, <2>6, <2>7, <2>9, <2>10 DEF RelatingSteps
<1>10. CASE DeleteRelations(e)
  <2> PICK m : m = [me EXCEPT !.step = "relating"]
    OBVIOUS
  <2>1. /\ m \in EditType /\ m.step = "relating" /\ m.version = me.version
        /\ m.op = me.op /\ m.type = me.type /\ m.missing = me.missing
        /\ m.unchecked = me.unchecked
    BY <1>m DEF EditType, EditorSteps
  <2>2. /\ me.step = "deleting" /\ relation' = relation \ me.extra
        /\ UNCHANGED <<typeRow, typeVersion>>
    BY <1>10 DEF DeleteRelations, Step
  <2>3. StepsTo(e, m)
    BY <1>10, OvertakingSteps DEF DeleteRelations, TypesInv, EditorSteps
  <2>4. \A r \in relation' : {r[1], r[2]} \subseteq AllLiveVersions
    BY <2>2 DEF Alone
  <2>5. LeadsToLive(m)
    BY <1>o, <2>1, <2>2 DEF EditAlone, LeadsToLive, RelatingSteps
  <2> QED  BY <1>7, <2>1, <2>2, <2>3, <2>4, <2>5 DEF RelatingSteps
<1>11. CASE CreateRelations(e)
  <2> PICK m : m = [me EXCEPT !.step = "done"]
    OBVIOUS
  <2>1. /\ m \in EditType /\ m.step = "done" /\ m.version = me.version
        /\ m.op = me.op /\ m.type = me.type
    BY <1>m DEF EditType, EditorSteps
  <2>2. PICK n \in RowIds :
          /\ relation' = relation \cup Numbered(me.missing, n)
          /\ Overtaking(e, "done", Numbered(me.missing, n))
    BY <1>11 DEF CreateRelations
  <2>3. me.step = "relating" /\ UNCHANGED <<typeRow, typeVersion>>
    BY <1>11 DEF CreateRelations, Step
  <2>4. StepsTo(e, m)
    BY <2>2, OvertakingSteps DEF TypesInv, EditorSteps
  <2>5. \A r \in relation' : {r[1], r[2]} \subseteq AllLiveVersions
    <3>1. LeadsToLive(me)
      BY <1>o, <2>3 DEF EditAlone, RelatingSteps
    <3>2. \A r \in Numbered(me.missing, n) : {r[1], r[2]} \subseteq AllLiveVersions
      BY <3>1 DEF Numbered, LeadsToLive
    <3> QED  BY <2>2, <3>2 DEF Alone
  <2> QED  BY <1>7, <2>1, <2>3, <2>4, <2>5 DEF RelatingSteps
<1>18. CASE FindListed(e)
  <2> PICK wanted : wanted = IF me.op = "create"
                             THEN DesiredOfNew(me.version, me.pairs) \X (1..me.lists)
                             ELSE {}
    OBVIOUS
  <2>1. me.step = "listing" /\ me.version \in TypeVersionIds
    BY <1>18, <1>m DEF FindListed, Step, HoldsVersions, EditType, RelatingSteps
  <2>2. /\ me.version \in AllLiveVersions /\ LeadsToLive(me)
        /\ \A p \in me.pairs : p[1] \in AllLiveVersions
    <3>1. me.version \in AllLiveVersions /\ LeadsToLive(me)
      BY <1>o, <2>1 DEF EditAlone, RelatingSteps
    <3>2. \A p \in me.pairs : p[1] \in TypeVersionIds /\ typeVersion[p[1]].live
      BY <1>18, <1>m DEF FindListed, EditType
    <3> QED  BY <3>1, <3>2 DEF AllLiveVersions
  <2>3. /\ DesiredOfNew(me.version, me.pairs) \subseteq Keys
        /\ \A k \in DesiredOfNew(me.version, me.pairs) :
              {k[1], k[2]} \subseteq AllLiveVersions
    <3>1. me.pairs \in SUBSET (TypeVersionIds \X Kinds)
      BY <1>m DEF EditType
    <3>2. /\ Desired(me.version, me.pairs) \subseteq Keys
          /\ DesiredOfNew(me.version, me.pairs) \subseteq Desired(me.version, me.pairs)
          /\ \A k \in Desired(me.version, me.pairs) : \E p \in me.pairs :
               {k[1], k[2]} = {me.version, p[1]}
      BY <2>1, <3>1, DesiredKeys
    <3>3. \A k \in Desired(me.version, me.pairs) : {k[1], k[2]} \subseteq AllLiveVersions
      BY <2>2, <3>2
    <3> QED  BY <3>2, <3>3
  <2>4. /\ wanted \in SUBSET (Keys \X (1..2))
        /\ \A x \in wanted : {x[1][1], x[1][2]} \subseteq AllLiveVersions
    <3>1. 1..me.lists \subseteq 1..2
      BY <1>m DEF EditType
    <3> QED  BY <2>3, <3>1
  <2> PICK step : step = IF me.op = "create" THEN "comparing" ELSE "reading"
    OBVIOUS
  <2> PICK m : m = [me EXCEPT !.step = step, !.unchecked = wanted]
    OBVIOUS
  <2>5. /\ m \in EditType /\ m.step = step /\ m.version = me.version
        /\ m.type = me.type /\ m.op = me.op /\ m.pairs = me.pairs
        /\ m.unchecked = wanted /\ m.missing = me.missing
    <3>1. step \in EditorSteps
      BY DEF EditorSteps
    <3> QED  BY <1>m, <2>4, <3>1 DEF EditType
  <2>6. /\ editor' = [editor EXCEPT ![e] = m]
        /\ UNCHANGED <<typeRow, typeVersion, relation>>
    BY <1>18 DEF FindListed
  <2>7. LeadsToLive(m)
    <3>1. \A x \in me.missing : {x[1][1], x[1][2]} \subseteq AllLiveVersions
      BY <2>2 DEF LeadsToLive
    <3> QED  BY <2>4, <2>5, <3>1 DEF LeadsToLive
  <2>8. \A r \in relation' : {r[1], r[2]} \subseteq AllLiveVersions
    BY <2>6 DEF Alone
  <2>9. step \in {"comparing", "reading"}
    OBVIOUS
  <2> QED  BY <1>7, <1>t, <2>1, <2>2, <2>5, <2>6, <2>7, <2>8, <2>9 DEF RelatingSteps
<1>19. CASE CompareRow(e)
  <2>1. PICK wanted \in me.unchecked :
          editor' = [editor EXCEPT ![e] = [me EXCEPT
            !.unchecked = me.unchecked \ {wanted},
            !.missing = IF Ids(wanted[1]) = {} THEN me.missing \cup {wanted}
                        ELSE me.missing]]
    BY <1>19 DEF CompareRow
  <2>2. me.step = "comparing" /\ UNCHANGED <<typeRow, typeVersion, relation>>
    BY <1>19 DEF CompareRow, Step
  <2>3. LeadsToLive(me)
    BY <1>o, <2>2 DEF EditAlone, RelatingSteps
  <2> PICK missing : missing = IF Ids(wanted[1]) = {} THEN me.missing \cup {wanted}
                               ELSE me.missing
    OBVIOUS
  <2>4. missing \in SUBSET (Keys \X (1..2)) /\ missing \subseteq me.missing \cup me.unchecked
    BY <1>m DEF EditType
  <2> PICK m : m = [me EXCEPT !.unchecked = me.unchecked \ {wanted}, !.missing = missing]
    OBVIOUS
  <2>5. /\ m \in EditType /\ m.step = "comparing" /\ m.version = me.version
        /\ m.type = me.type /\ m.op = me.op
        /\ m.unchecked = me.unchecked \ {wanted} /\ m.missing = missing
    BY <1>m, <2>2, <2>4 DEF EditType
  <2>6. editor' = [editor EXCEPT ![e] = m]
    BY <2>1
  <2>7. LeadsToLive(m)
    BY <2>3, <2>4, <2>5 DEF LeadsToLive
  <2>8. \A r \in relation' : {r[1], r[2]} \subseteq AllLiveVersions
    BY <2>2 DEF Alone
  <2> QED  BY <1>7, <1>t, <2>2, <2>5, <2>6, <2>7, <2>8 DEF RelatingSteps
<1>20. CASE EndComparing(e)
  <2> PICK m : m = [me EXCEPT !.step = "relating"]
    OBVIOUS
  <2>1. /\ m \in EditType /\ m.step = "relating" /\ m.version = me.version
        /\ m.op = me.op /\ m.type = me.type
        /\ m.unchecked = me.unchecked /\ m.missing = me.missing
    BY <1>m DEF EditType, EditorSteps
  <2>2. /\ me.step = "comparing" /\ editor' = [editor EXCEPT ![e] = m]
        /\ UNCHANGED <<typeRow, typeVersion, relation>>
    BY <1>20 DEF EndComparing, Step
  <2>3. LeadsToLive(m)
    BY <1>o, <2>1, <2>2 DEF EditAlone, RelatingSteps, LeadsToLive
  <2>4. \A r \in relation' : {r[1], r[2]} \subseteq AllLiveVersions
    BY <2>2 DEF Alone
  <2> QED  BY <1>7, <1>t, <2>1, <2>2, <2>3, <2>4 DEF RelatingSteps
<1>12. CASE FindTypeVersions(e)
  <2> DEFINE Then(live) == IF live = {} THEN "vanishing" ELSE "checking"
  <2>1. PICK t \in Types :
          /\ typeRow[t] # "none"
          /\ BeginEdit(e, Removing(t, LiveVersions(t), Then(LiveVersions(t))))
    BY <1>12 DEF FindTypeVersions, Removing
  <2> PICK live : live = LiveVersions(t)
    OBVIOUS
  <2> PICK step : step = Then(live)
    OBVIOUS
  <2> PICK m : m = Removing(t, live, step)
    OBVIOUS
  <2>2. live \subseteq TypeVersionIds /\ step \in {"vanishing", "checking"}
    BY <1>l
  <2>3. /\ m \in EditType /\ m.op = "remove"
        /\ m.step \in {"vanishing", "checking"} /\ m.type = t /\ m.found = live
    BY <2>2, RemovingTyped DEF EditorSteps
  <2>4. BeginEdit(e, m)
    BY <2>1
  <2>5. UNCHANGED <<typeRow, typeVersion, relation>>
    BY <1>12 DEF FindTypeVersions
  <2>6. /\ AllLiveVersions' = AllLiveVersions
        /\ \A s : LiveVersions(s)' = LiveVersions(s)
        /\ \A s \in Types : InOneLine(s)'
    BY <2>5, SameLines
  <2>7. EditAlone(m)'
    BY <2>1, <2>3, <2>5, <2>6 DEF EditAlone, RelatingSteps
  <2>8. \A r \in relation' : {r[1], r[2]} \subseteq AllLiveVersions'
    BY <2>5, <2>6 DEF Alone
  <2> QED  BY <1>b, <2>3, <2>4, <2>6, <2>7, <2>8, <1>t, AloneStep
<1>13. CASE CheckRelations(e)
  <2> PICK m : m = [me EXCEPT !.step = "removing"]
    OBVIOUS
  <2>1. /\ m \in EditType /\ m.step = "removing" /\ m.version = me.version
        /\ m.op = me.op /\ m.type = me.type
    BY <1>m DEF EditType, EditorSteps
  <2>2. /\ me.step = "checking" /\ editor' = [editor EXCEPT ![e] = m]
        /\ UNCHANGED <<typeRow, typeVersion, relation>>
        /\ Unrelated(me.found)
    BY <1>13 DEF CheckRelations, Step
  <2>3. me.found = LiveVersions(m.type) /\ me.op # "version"
    BY <1>o, <2>1, <2>2 DEF EditAlone, RelatingSteps
  <2>4. \A r \in relation' : {r[1], r[2]} \cap LiveVersions(m.type) = {}
    BY <2>2, <2>3 DEF Unrelated, Touching
  <2>5. \A r \in relation' : {r[1], r[2]} \subseteq AllLiveVersions
    BY <2>2 DEF Alone
  <2> QED  BY <1>7, <1>t, <2>1, <2>2, <2>3, <2>4, <2>5 DEF RelatingSteps
<1>14. CASE DeleteTypeVersions(e)
  <2> PICK m : m = [me EXCEPT !.step = "vanishing"]
    OBVIOUS
  <2>1. /\ m \in EditType /\ m.step = "vanishing" /\ m.version = me.version
        /\ m.op = me.op /\ m.type = me.type
    BY <1>m DEF EditType, EditorSteps
  <2>2. /\ me.step = "removing" /\ editor' = [editor EXCEPT ![e] = m]
        /\ UNCHANGED <<typeRow, relation>>
        /\ typeVersion' = [v \in TypeVersionIds |->
             IF typeVersion[v].type = me.type
             THEN [typeVersion[v] EXCEPT !.live = FALSE] ELSE typeVersion[v]]
    BY <1>14 DEF DeleteTypeVersions, Step
  <2>3. /\ EditAlone(me) /\ me.type \in Types
        /\ \A o \in Editors \ {e} : editor[o].step = "idle"
    BY <1>o, <2>2
  <2>4. ASSUME NEW v \in TypeVersionIds
        PROVE  /\ typeVersion'[v].number = typeVersion[v].number
               /\ typeVersion'[v].type = typeVersion[v].type
               /\ typeVersion'[v].archived = typeVersion[v].archived
               /\ typeVersion'[v].live <=>
                    typeVersion[v].live /\ typeVersion[v].type # me.type
    <3>1. typeVersion[v] \in TypeVersionType
      BY <1>r DEF RowsInv
    <3> QED  BY <2>2, <3>1 DEF TypeVersionType
  <2>5. \A t : LiveVersions(t)' = IF t = me.type THEN {} ELSE LiveVersions(t)
    BY <2>4 DEF LiveVersions
  <2>6. AllLiveVersions' = AllLiveVersions \ LiveVersions(me.type)
    BY <2>4 DEF LiveVersions, AllLiveVersions
  <2>7. ASSUME NEW t \in Types PROVE InOneLine(t)'
    <3>1. typeRow'[t] = "none" =>
            \A v \in TypeVersionIds : Inserted(v)' => typeVersion'[v].type # t
      BY <2>2, <2>4 DEF Alone, InOneLine, Inserted
    <3>2. ASSUME NEW v \in LiveVersions(t), NEW u \in LiveVersions(t), v < u
          PROVE  typeVersion'[v].number < typeVersion'[u].number
                   /\ typeVersion'[v].archived
      BY <1>l, <2>4, <3>2 DEF Alone, InOneLine
    <3> QED  BY <2>5, <3>1, <3>2 DEF InOneLine
  <2>8. \A r \in relation' : {r[1], r[2]} \subseteq AllLiveVersions'
    BY <2>2, <2>3, <2>6 DEF Alone, EditAlone, RelatingSteps
  <2>9. typeRow'[m.type] # "none" /\ m.op # "version"
    BY <2>1, <2>2, <2>3 DEF EditAlone, RelatingSteps
  <2>10. EditAlone(m)'
    BY <2>1, <2>9 DEF EditAlone, RelatingSteps
  <2> QED  BY <2>1, <2>2, <2>3, <2>7, <2>8, <2>10, <1>t, AloneStep
<1>15. CASE DeleteType(e)
  <2> PICK m : m = [me EXCEPT !.step = "done"]
    OBVIOUS
  <2>1. /\ m \in EditType /\ m.step = "done" /\ m.version = me.version
        /\ m.op = me.op /\ m.type = me.type
    BY <1>m DEF EditType, EditorSteps
  <2>2. /\ me.step = "vanishing" /\ editor' = [editor EXCEPT ![e] = m]
        /\ UNCHANGED <<typeVersion, relation>>
        /\ typeRow' = [typeRow EXCEPT ![me.type] = "deleted"]
    BY <1>15 DEF DeleteType, Step
  <2>3. me.op # "version"
    BY <1>o, <2>2 DEF EditAlone, RelatingSteps
  <2>4. \A t \in Types : typeRow'[t] = "none" => typeRow[t] = "none"
    BY <1>r, <2>2 DEF RowsInv
  <2>5. \A r \in relation' : {r[1], r[2]} \subseteq AllLiveVersions
    BY <2>2 DEF Alone
  <2> QED  BY <1>7, <1>t, <2>1, <2>2, <2>3, <2>4, <2>5 DEF RelatingSteps
<1>16. CASE EndEdit(e)
  <2>1. /\ me.step # "idle" /\ editor' = [editor EXCEPT ![e] = NoEdit]
        /\ UNCHANGED <<typeRow, typeVersion, relation>>
    BY <1>16 DEF EndEdit
  <2>2. NoEdit \in EditType /\ NoEdit.step = "idle"
    BY DEF NoEdit, EditType, EditorSteps
  <2>3. /\ AllLiveVersions' = AllLiveVersions
        /\ \A s \in Types : InOneLine(s)'
    BY <2>1, SameLines
  <2>4. \A r \in relation' : {r[1], r[2]} \subseteq AllLiveVersions'
    BY <2>1, <2>3 DEF Alone
  <2>5. \A o \in Editors \ {e} : editor[o].step = "idle"
    BY <1>o, <2>1
  <2> QED  BY <2>1, <2>2, <2>3, <2>4, <2>5, <1>t, AloneStep
<1> QED
  BY <1>1, <1>3, <1>4, <1>5, <1>6, <1>8, <1>9, <1>10, <1>11, <1>12, <1>13,
     <1>14, <1>15, <1>16, <1>18, <1>19, <1>20

\* With one handler at a time, throughout.
LEMMA AloneAlways == TypesSpec => [](TypesInv /\ AloneInv)
<1>1. TypesInv /\ AloneInv /\ [TypesNext]_typeVars => AloneInv'
  <2> SUFFICES ASSUME TypesInv, AloneInv, [TypesNext]_typeVars PROVE AloneInv'
    OBVIOUS
  <2>1. CASE UNCHANGED typeVars
    BY <2>1 DEF typeVars, AloneInv, Alone, InOneLine, EditAlone, LiveVersions, RelatingSteps,
       CurrentVersions, AllLiveVersions, Inserted, LeadsToLive
  <2>2. CASE TypesNext
    <3>1. clients' = clients
      BY <2>2 DEF TypesNext, CreateType, InsertFirst, ReadType, UpdateLatest,
         InsertNext, KeepRelations, FindListed, CompareRow, EndComparing,
         ReadRelations, DeleteRelations, CreateRelations, FindTypeVersions, CheckRelations, DeleteTypeVersions,
         DeleteType, EndEdit
    <3> QED  BY <2>2, <3>1, AloneNext DEF AloneInv
  <2> QED  BY <2>1, <2>2
<1> QED  BY <1>1, TypesInvInit, TypesInvStep, AloneInit, PTL DEF TypesSpec

\* However often single edits, creations and removals of asset types stop half
\* way: no relation leads to a removed version (the check of remove looks at
\* the archived versions too).
THEOREM RelationsLead == TypesSpec => []RelationsLeadToVersions
<1>1. AloneInv => RelationsLeadToVersions
  BY DEF AloneInv, Alone, RelationsLeadToVersions
<1> QED  BY <1>1, AloneAlways, PTL

\* Under the same conditions: a type has at most one current version, which is
\* its last, numbers are not used twice, and an update that makes a version and
\* gets to its end leaves that version current.
THEOREM VersionsInOneLine == TypesSpec => []OneLine
<1>1. TypesInv /\ AloneInv => OneLine
  <2> SUFFICES ASSUME TypesInv, Alone PROVE OneLine
    BY DEF AloneInv, OneLine
  <2>l. \A t : \A v \in LiveVersions(t) :
          v \in TypeVersionIds /\ v \in Nat /\ typeVersion[v].number \in Nat
    BY TypeConstantsAssumption
    DEF LiveVersions, TypesInv, RowsInv, TypeVersionType
  <2>1. ASSUME NEW t \in Types
        PROVE  /\ Cardinality(CurrentVersions(t)) <= 1
               /\ \A v, u \in LiveVersions(t) :
                    typeVersion[v].number = typeVersion[u].number => v = u
    <3>0. \A v, u \in LiveVersions(t) : v < u \/ u < v \/ v = u
      BY <2>l
    <3>1. \A v, u \in LiveVersions(t) :
            typeVersion[v].number = typeVersion[u].number => v = u
      <4>1. ASSUME NEW v \in LiveVersions(t), NEW u \in LiveVersions(t), v < u
            PROVE  typeVersion[v].number # typeVersion[u].number
        <5>1. typeVersion[v].number < typeVersion[u].number
          BY <4>1 DEF Alone, InOneLine
        <5> QED  BY <2>l, <5>1
      <4> QED  BY <3>0, <4>1
    <3>2. \A v, u \in CurrentVersions(t) : v = u
      BY <3>0 DEF Alone, InOneLine, CurrentVersions
    <3>3. ASSUME CurrentVersions(t) = {}
          PROVE  Cardinality(CurrentVersions(t)) <= 1
      <4>1. Cardinality({}) = 0
        BY FS_EmptySet
      <4> QED  BY <3>3, <4>1
    <3>4. ASSUME NEW v \in CurrentVersions(t)
          PROVE  Cardinality(CurrentVersions(t)) <= 1
      <4>1. CurrentVersions(t) = {v}
        BY <3>2
      <4>2. Cardinality({v}) = 1
        BY FS_Singleton
      <4> QED  BY <4>1, <4>2
    <3> QED  BY <3>1, <3>3, <3>4
  <2>2. ASSUME NEW e \in Editors, Step(e, "done"), editor[e].op = "version"
        PROVE  CurrentVersions(editor[e].type) = {editor[e].version}
    BY <2>2 DEF Step, Alone, EditAlone, RelatingSteps
  <2> QED  BY <2>1, <2>2 DEF OneLine
<1> QED  BY <1>1, AloneAlways, PTL

-----------------------------------------------------------------------------
(***************************************************************************)
(* Asset types: the mirror images of relations.  What a handler that is    *)
(* not overtaken goes to write is judged by the rows between its version   *)
(* and others, which nobody else writes meanwhile.                         *)
(***************************************************************************)
Between(v, k) == v \in {k[1], k[2]}

Looking == {"comparing", "deleting", "relating"}

\* What it is going to create says what no row says.
MissingIsMissing(m) ==
  \A x \in m.missing : Between(m.version, x[1]) /\ Ids(x[1]) = {}

\* create looked for the rest and found it.
Wanted(m) == DesiredOfNew(m.version, m.pairs) \X (1..m.lists)

ComparedSoFar(m) ==
  /\ Wanted(m) \subseteq Keys \X (1..2)
  /\ \A x \in Wanted(m) : Between(m.version, x[1])
  /\ m.unchecked \subseteq Wanted(m) /\ m.missing \subseteq Wanted(m)
  /\ \A x \in Wanted(m) : x \in m.unchecked \/ x \in m.missing \/ Ids(x[1]) # {}

\* What it is going to create for a relation and for its mirror image is alike.
CreatesBoth(m) ==
  \A k \in Keys : Paired(k[3]) /\ Even(k) =>
    \A i \in 1..2 : <<k, i>> \in m.missing <=> <<MirrorKey(k), i>> \in m.missing

\* It deletes as many rows for one as for the other, and of none that it creates.
Gone(m, k) == IdsIn(m.extra, k)

DeletesBoth(m) ==
  /\ \A r \in m.extra : Between(m.version, r)
  /\ \A k \in Keys : Paired(k[3]) =>
       /\ Even(k) => Cardinality(Ids(k) \ Gone(m, k))
                       = Cardinality(Ids(MirrorKey(k)) \ Gone(m, MirrorKey(k)))
       /\ \/ Gone(m, k) = {} /\ Gone(m, MirrorKey(k)) = {}
          \/ \A i \in 1..2 : <<k, i>> \notin m.missing /\ <<MirrorKey(k), i>> \notin m.missing

Judged(m) ==
  ~ m.overtaken =>
    /\ m.step \in {"creating", "inserting", "updating", "listing", "reading"} =>
         m.missing = {}
    /\ m.step \in Looking => MissingIsMissing(m)
    /\ m.step = "comparing" => ComparedSoFar(m)
    /\ m.step \in {"deleting", "relating"} => CreatesBoth(m)
    /\ m.step = "deleting" => DeletesBoth(m)

MirrorsInv == \A e \in Editors : Judged(editor[e])

-----------------------------------------------------------------------------
\* The mirror image of the mirror image is the relation.
LEMMA PairedMirrors ==
  ASSUME NEW k \in Keys, Paired(k[3])
  PROVE  /\ MirrorKey(k) \in Keys /\ Paired(MirrorKey(k)[3])
         /\ MirrorKey(MirrorKey(k)) = k
         /\ \A v : Between(v, k) <=> Between(v, MirrorKey(k))
<1> DEFINE kind == k[3]
           image == InverseOf[k[3]]
<1>1. /\ image \in Kinds /\ InverseOf[image] = kind
      /\ \A j \in Kinds : InverseOf[j] \in {kind, image} => j \in {kind, image}
  BY TypeConstantsAssumption DEF Paired, Keys
<1>2. k = <<k[1], k[2], kind>> /\ k[1] \in TypeVersionIds /\ k[2] \in TypeVersionIds
        /\ kind \in Kinds
  BY DEF Keys
<1>3. MirrorKey(k) = <<k[2], k[1], image>>
  BY DEF MirrorKey
<1>4. MirrorKey(MirrorKey(k)) = <<k[1], k[2], InverseOf[image]>>
  BY <1>3 DEF MirrorKey
<1>5. Paired(image)
  BY <1>1, <1>2, TypeConstantsAssumption DEF Paired
<1>6. MirrorKey(k) \in Keys
  BY <1>1, <1>2, <1>3 DEF Keys
<1> QED  BY <1>1, <1>2, <1>3, <1>4, <1>5, <1>6 DEF Between

\* A relation of such a kind is wanted exactly when its mirror image is.
LEMMA DesiredBoth ==
  ASSUME NEW v \in TypeVersionIds, NEW pairs \in SUBSET (TypeVersionIds \X Kinds),
         NEW k \in Keys, Paired(k[3]), k \in Desired(v, pairs)
  PROVE  MirrorKey(k) \in Desired(v, pairs)
<1> DEFINE forward == { <<v, p[1], p[2]>> : p \in pairs }
           mirrored == { MirrorKey(f) : f \in { f \in forward : InverseOf[f[3]] # NoKind } }
<1>0. Desired(v, pairs) = forward \cup mirrored
  BY DEF Desired
<1>1. CASE k \in forward
  <2>1. InverseOf[k[3]] # NoKind
    BY DEF Paired
  <2> QED  BY <1>0, <1>1, <2>1
<1>2. CASE k \in mirrored
  <2>1. PICK f \in forward : InverseOf[f[3]] # NoKind /\ k = MirrorKey(f)
    BY <1>2
  <2>2. f \in Keys /\ f[3] \in Kinds
    BY DEF Keys
  <2>3. k[3] = InverseOf[f[3]]
    BY <2>1 DEF MirrorKey
  <2>4. f[3] \in {k[3], InverseOf[k[3]]}
    BY <2>2, <2>3 DEF Paired
  <2>5. Paired(f[3])
    <3>1. Paired(MirrorKey(k)[3]) /\ MirrorKey(k)[3] = InverseOf[k[3]]
      BY PairedMirrors DEF MirrorKey
    <3> QED  BY <2>4, <3>1
  <2>6. MirrorKey(k) = f
    BY <2>1, <2>2, <2>5, PairedMirrors
  <2> QED  BY <1>0, <2>6
<1> QED  BY <1>0, <1>1, <1>2

LEMMA DesiredAlike ==
  ASSUME NEW v \in TypeVersionIds, NEW pairs \in SUBSET (TypeVersionIds \X Kinds),
         NEW k \in Keys, Paired(k[3])
  PROVE  k \in Desired(v, pairs) <=> MirrorKey(k) \in Desired(v, pairs)
<1>1. /\ MirrorKey(k) \in Keys /\ Paired(MirrorKey(k)[3])
      /\ MirrorKey(MirrorKey(k)) = k
  BY PairedMirrors
<1> PICK l \in Keys : l = MirrorKey(k)
  BY <1>1
<1>2. l \in Desired(v, pairs) => MirrorKey(l) \in Desired(v, pairs)
  BY <1>1, DesiredBoth
<1> QED  BY <1>1, <1>2, DesiredBoth

LEMMA DesiredOfNewAlike ==
  ASSUME NEW v \in TypeVersionIds, NEW pairs \in SUBSET (TypeVersionIds \X Kinds),
         NEW k \in Keys, Paired(k[3])
  PROVE  k \in DesiredOfNew(v, pairs) <=> MirrorKey(k) \in DesiredOfNew(v, pairs)
<1> DEFINE S == { p \in pairs : InverseOf[p[2]] # NoKind }
<1>1. S \in SUBSET (TypeVersionIds \X Kinds)
  OBVIOUS
<1> HIDE DEF S
<1>2. k \in Desired(v, S) <=> MirrorKey(k) \in Desired(v, S)
  BY <1>1, DesiredAlike
<1> QED  BY <1>2 DEF DesiredOfNew, S

-----------------------------------------------------------------------------
\* The rows that say k, by their ids.
LEMMA IdOfRow ==
  ASSUME NEW rows, rows \subseteq Rows, NEW k \in Keys, NEW i
  PROVE  i \in IdsIn(rows, k) <=> <<k[1], k[2], k[3], i>> \in rows
<1>1. k = <<k[1], k[2], k[3]>>
  BY DEF Keys
<1>2. ASSUME NEW r \in rows PROVE r = <<r[1], r[2], r[3], r[4]>>
  BY DEF Rows
<1>3. ASSUME <<k[1], k[2], k[3], i>> \in rows PROVE i \in IdsIn(rows, k)
  <2> PICK r \in rows : r = <<k[1], k[2], k[3], i>>
    BY <1>3
  <2>1. KeyOf(r) = k /\ r[4] = i
    BY <1>1 DEF KeyOf
  <2> QED  BY <2>1 DEF IdsIn
<1>4. ASSUME i \in IdsIn(rows, k) PROVE <<k[1], k[2], k[3], i>> \in rows
  <2>1. PICK r \in rows : KeyOf(r) = k /\ r[4] = i
    BY <1>4 DEF IdsIn
  <2>2. k[1] = r[1] /\ k[2] = r[2] /\ k[3] = r[3]
    BY <2>1 DEF KeyOf
  <2> QED  BY <1>2, <2>1, <2>2
<1> QED  BY <1>3, <1>4

\* The rows a handler creates for k.
LEMMA RowsNumbered ==
  ASSUME NEW missing \in SUBSET (Keys \X (1..2)), NEW n, NEW k \in Keys, NEW d
  PROVE  <<k[1], k[2], k[3], d>> \in Numbered(missing, n)
           <=> \E i \in 1..2 : <<k, i>> \in missing /\ d = n + i
<1>0. k = <<k[1], k[2], k[3]>>
  BY DEF Keys
<1>1. ASSUME NEW x \in missing
      PROVE  x = <<x[1], x[2]>> /\ x[2] \in 1..2 /\ x[1] = <<x[1][1], x[1][2], x[1][3]>>
  <2>1. x[1] \in Keys /\ x = <<x[1], x[2]>> /\ x[2] \in 1..2
    OBVIOUS
  <2> QED  BY <2>1 DEF Keys
<1>2. ASSUME <<k[1], k[2], k[3], d>> \in Numbered(missing, n)
      PROVE  \E i \in 1..2 : <<k, i>> \in missing /\ d = n + i
  <2>1. PICK x \in missing :
          <<k[1], k[2], k[3], d>> = <<x[1][1], x[1][2], x[1][3], n + x[2]>>
    BY <1>2 DEF Numbered
  <2>2. k = x[1] /\ d = n + x[2]
    BY <1>0, <1>1, <2>1
  <2> QED  BY <1>1, <2>2
<1>3. ASSUME NEW i \in 1..2, <<k, i>> \in missing, d = n + i
      PROVE  <<k[1], k[2], k[3], d>> \in Numbered(missing, n)
  <2> PICK x \in missing : x = <<k, i>>
    BY <1>3
  <2>1. x[1] = k /\ x[2] = i
    OBVIOUS
  <2> QED  BY <1>3, <2>1 DEF Numbered
<1> QED  BY <1>2, <1>3

\* The ids of the rows of the table.
LEMMA IdsAre ==
  ASSUME relation \subseteq Rows, NEW k \in Keys, NEW i
  PROVE  i \in Ids(k) <=> <<k[1], k[2], k[3], i>> \in relation
<1>1. PICK before : before = relation
  OBVIOUS
<1>2. before \subseteq Rows
  BY <1>1
<1>3. i \in IdsIn(before, k) <=> <<k[1], k[2], k[3], i>> \in before
  BY <1>2, IdOfRow
<1> QED  BY <1>1, <1>3 DEF Ids

LEMMA IdsWillBe ==
  ASSUME relation' \subseteq Rows, NEW k \in Keys, NEW i
  PROVE  i \in Ids(k)' <=> <<k[1], k[2], k[3], i>> \in relation'
<1>1. PICK after : after = relation'
  OBVIOUS
<1>2. after \subseteq Rows
  BY <1>1
<1>3. i \in IdsIn(after, k) <=> <<k[1], k[2], k[3], i>> \in after
  BY <1>2, IdOfRow
<1> QED  BY <1>1, <1>3 DEF Ids

\* Rows that do not touch a version leave the rows between it and others alone.
LEMMA Untouched ==
  ASSUME relation \subseteq Rows, NEW rows, rows \subseteq Rows,
         relation' = relation \ rows \/ relation' = relation \cup rows,
         NEW v, \A r \in rows : v \notin {r[1], r[2]},
         NEW k \in Keys, Between(v, k)
  PROVE  Ids(k)' = Ids(k)
<1>1. relation' \subseteq Rows
  OBVIOUS
<1>2. ASSUME NEW i PROVE i \in Ids(k)' <=> i \in Ids(k)
  <2> PICK r : r = <<k[1], k[2], k[3], i>>
    OBVIOUS
  <2>1. r \notin rows
    BY DEF Between
  <2>2. (i \in Ids(k) <=> r \in relation) /\ (i \in Ids(k)' <=> r \in relation')
    BY <1>1, IdsAre, IdsWillBe
  <2> QED  BY <2>1, <2>2
<1>3. \A i : i \in Ids(k)' <=> i \in Ids(k)
  BY <1>2
<1> PICK a : a = Ids(k)'
  OBVIOUS
<1> PICK b : b = Ids(k)
  OBVIOUS
<1>4. a = b
  BY <1>3
<1> QED  BY <1>4

\* There are finitely many rows that say the same.
IdsFinite == \A k \in Keys : IsFiniteSet(Ids(k))

LEMMA EvenAndNone ==
  ASSUME IdsFinite, NEW k \in Keys, Paired(k[3]), Even(k)
  PROVE  Ids(k) = {} <=> Ids(MirrorKey(k)) = {}
<1>1. IsFiniteSet(Ids(k)) /\ IsFiniteSet(Ids(MirrorKey(k)))
  BY PairedMirrors DEF IdsFinite
<1> QED  BY <1>1, FS_EmptySet DEF Even

\* What a handler holds for a relation that is not of its version.
LEMMA NotBetween ==
  ASSUME NEW m \in EditType, \A r \in m.extra : Between(m.version, r),
         NEW k \in Keys, ~ Between(m.version, k)
  PROVE  Gone(m, k) = {}
<1>1. ASSUME NEW i \in Gone(m, k) PROVE FALSE
  <2>1. PICK r \in m.extra : KeyOf(r) = k
    BY <1>1 DEF Gone, IdsIn
  <2>2. k[1] = r[1] /\ k[2] = r[2]
    BY <2>1 DEF KeyOf
  <2> QED  BY <2>1, <2>2 DEF Between
<1> QED  BY <1>1

\* What a handler that is not overtaken judged stays as it was.
LEMMA JudgedStays ==
  ASSUME NEW m \in EditType, NEW r, SameEdit(m, r), m.overtaken => r.overtaken,
         Judged(m),
         ~ r.overtaken /\ m.step \in Looking =>
           \A k \in Keys : Between(m.version, k) => Ids(k)' = Ids(k)
  PROVE  Judged(r)'
<1> SUFFICES ASSUME ~ r.overtaken, m.step \in Looking
             PROVE  Judged(r)'
  BY DEF Judged, SameEdit, Looking
<1>0. ~ m.overtaken /\ \A k \in Keys : Between(m.version, k) => Ids(k)' = Ids(k)
  OBVIOUS
<1>m. \A x \in m.missing : x[1] \in Keys
  BY DEF EditType
<1>1. MissingIsMissing(m)'
  BY <1>0, <1>m DEF Judged, MissingIsMissing
<1>2. ASSUME NEW k \in Keys, Paired(k[3]), Between(m.version, k)
      PROVE  /\ Ids(k)' = Ids(k) /\ Ids(MirrorKey(k))' = Ids(MirrorKey(k))
             /\ Even(k)' <=> Even(k)
  <2>1. Ids(k)' = Ids(k) /\ Ids(MirrorKey(k))' = Ids(MirrorKey(k))
    BY <1>0, <1>2, PairedMirrors
  <2> QED  BY <2>1 DEF Even
<1>3. ASSUME NEW k \in Keys, Paired(k[3]), ~ Between(m.version, k), NEW i
      PROVE  <<k, i>> \notin m.missing /\ <<MirrorKey(k), i>> \notin m.missing
  <2>1. ~ Between(m.version, MirrorKey(k))
    BY <1>3, PairedMirrors
  <2>2. \A x \in m.missing : Between(m.version, x[1])
    BY <1>0 DEF Judged, MissingIsMissing
  <2> QED  BY <1>3, <2>1, <2>2
<1>4. m.step = "comparing" => ComparedSoFar(m)'
  BY <1>0 DEF Judged, ComparedSoFar, Wanted
<1>5. m.step \in {"deleting", "relating"} => CreatesBoth(m)'
  BY <1>0, <1>2, <1>3 DEF Judged, CreatesBoth
<1>6. m.step = "deleting" => DeletesBoth(m)'
  <2> SUFFICES ASSUME m.step = "deleting" PROVE DeletesBoth(m)'
    OBVIOUS
  <2>1. DeletesBoth(m)
    BY <1>0 DEF Judged
  <2>2. ASSUME NEW k \in Keys, Paired(k[3]), Even(k)'
        PROVE  Cardinality(Ids(k)' \ Gone(m, k))
                 = Cardinality(Ids(MirrorKey(k))' \ Gone(m, MirrorKey(k)))
    <3>1. CASE Between(m.version, k)
      BY <1>2, <2>1, <2>2, <3>1 DEF DeletesBoth
    <3>2. CASE ~ Between(m.version, k)
      <4>1. Gone(m, k) = {} /\ Gone(m, MirrorKey(k)) = {}
        BY <2>1, <2>2, <3>2, NotBetween, PairedMirrors DEF DeletesBoth
      <4> QED  BY <2>2, <4>1 DEF Even
    <3> QED  BY <3>1, <3>2
  <2> QED  BY <2>1, <2>2 DEF DeletesBoth, Gone
<1> QED  BY <1>1, <1>4, <1>5, <1>6 DEF Judged, SameEdit, MissingIsMissing, ComparedSoFar,
            Wanted, CreatesBoth, DeletesBoth, Gone, Looking

\* A step that writes no row of the table.
LEMMA JudgedAlone ==
  ASSUME TypesInv, MirrorsInv, IdsFinite, UNCHANGED relation,
         NEW e \in Editors, NEW m \in EditType, StepsTo(e, m), Judged(m),
         editor' = [editor EXCEPT ![e] = m]
  PROVE  MirrorsInv' /\ IdsFinite'
<1>1. \A k : Ids(k)' = Ids(k)
  BY DEF Ids
<1>2. ASSUME NEW o \in Editors PROVE Judged(editor[o])'
  <2>1. PICK r : r = editor'[o]
    OBVIOUS
  <2>2. r \in EditType /\ Judged(r)
    BY <2>1 DEF TypesInv, MirrorsInv
  <2>3. Judged(r)'
    BY <1>1, <2>2, JudgedStays DEF SameEdit
  <2> QED  BY <2>1, <2>3
<1>3. IdsFinite'
  BY <1>1 DEF IdsFinite
<1> QED  BY <1>2, <1>3 DEF MirrorsInv

LEMMA OneLess ==
  ASSUME NEW S, IsFiniteSet(S), NEW d \in S
  PROVE  Cardinality(S \ {d}) = Cardinality(S) - 1
<1>1. Cardinality(S \ {d}) = IF d \in S THEN Cardinality(S) - 1 ELSE Cardinality(S)
  BY FS_RemoveElement
<1> QED  BY <1>1

LEMMA OneLessLeft ==
  ASSUME NEW S, IsFiniteSet(S), NEW d \in S, NEW T, \A x : x \in T <=> x \in S /\ x # d
  PROVE  Cardinality(T) = Cardinality(S) - 1
<1>1. T = S \ {d}
  OBVIOUS
<1> QED  BY <1>1, OneLess

\* Both differences of replaceRelations.
ReadBoth(m, desired, existing) ==
  /\ desired = Desired(m.version, m.pairs)
  /\ existing \subseteq relation
  /\ \A r \in relation : r \in existing <=> Between(m.version, r)
  /\ m.missing = (desired \ KeysOf(existing)) \X {1}
  /\ m.extra \in IF m.pairs = {} THEN {existing}
                 ELSE OneOfEach({ r \in existing : KeyOf(r) \notin desired })

LEMMA ReadJudged ==
  ASSUME relation \subseteq Rows, IdsFinite, NEW m \in EditType, m.version \in TypeVersionIds,
         m.step = "deleting",
         NEW desired, NEW existing, ReadBoth(m, desired, existing)
  PROVE  Judged(m)
<1>b. /\ desired = Desired(m.version, m.pairs)
      /\ existing \subseteq relation
      /\ \A r \in relation : r \in existing <=> Between(m.version, r)
      /\ m.missing = (desired \ KeysOf(existing)) \X {1}
      /\ m.extra \in IF m.pairs = {} THEN {existing}
                     ELSE OneOfEach({ r \in existing : KeyOf(r) \notin desired })
  BY DEF ReadBoth
<1> USE <1>b
<1>p. m.pairs \in SUBSET (TypeVersionIds \X Kinds)
  BY DEF EditType
<1>d. /\ desired \subseteq Keys /\ \A k \in desired : Between(m.version, k)
      /\ \A k \in Keys : Paired(k[3]) => (k \in desired <=> MirrorKey(k) \in desired)
      /\ m.pairs = {} => desired = {}
  <2>1. \A k \in Keys : Paired(k[3]) => (k \in desired <=> MirrorKey(k) \in desired)
    BY <1>p, DesiredAlike
  <2>2. desired \subseteq Keys /\ \A k \in desired : \E p \in m.pairs :
          {k[1], k[2]} = {m.version, p[1]}
    BY <1>p, DesiredKeys
  <2> QED  BY <2>1, <2>2 DEF Between
<1>e. /\ existing \subseteq relation /\ existing \subseteq Rows
      /\ \A r \in relation : r \in existing <=> Between(m.version, r)
  OBVIOUS
<1>k. ASSUME NEW k \in Keys, Between(m.version, k)
      PROVE  /\ IdsIn(existing, k) = Ids(k)
             /\ Ids(k) = {} <=> k \notin KeysOf(existing)
  <2>1. ASSUME NEW r \in relation, KeyOf(r) = k PROVE r \in existing
    <3>1. r[1] = k[1] /\ r[2] = k[2]
      BY <2>1 DEF KeyOf
    <3> QED  BY <1>e, <1>k, <3>1 DEF Between
  <2>2. { r \in relation : KeyOf(r) = k } = { r \in existing : KeyOf(r) = k }
    BY <1>e, <2>1
  <2> QED  BY <2>2 DEF Ids, IdsIn, KeysOf
<1>x. m.extra \subseteq existing
  BY ExtraRows
<1>1. MissingIsMissing(m)
  <2>1. ASSUME NEW x \in m.missing
        PROVE  Between(m.version, x[1]) /\ Ids(x[1]) = {}
    <3>1. x[1] \in desired /\ x[1] \notin KeysOf(existing)
      BY <2>1
    <3> QED  BY <1>d, <1>k, <3>1
  <2> QED  BY <2>1 DEF MissingIsMissing
<1>2. ASSUME NEW k \in Keys, NEW i
      PROVE  <<k, i>> \in m.missing <=> k \in desired /\ Ids(k) = {} /\ i = 1
  BY <1>d, <1>k
<1>3. CreatesBoth(m)
  <2>1. ASSUME NEW k \in Keys, Paired(k[3]), Even(k), NEW i \in 1..2
        PROVE  <<k, i>> \in m.missing <=> <<MirrorKey(k), i>> \in m.missing
    <3>1. MirrorKey(k) \in Keys /\ (Ids(k) = {} <=> Ids(MirrorKey(k)) = {})
      BY <2>1, PairedMirrors, EvenAndNone
    <3> QED  BY <1>2, <1>d, <2>1, <3>1
  <2> QED  BY <2>1 DEF CreatesBoth
<1>4. \A r \in m.extra : Between(m.version, r)
  BY <1>e, <1>x
<1>5. ASSUME NEW k \in Keys, Paired(k[3])
      PROVE  /\ Even(k) => Cardinality(Ids(k) \ Gone(m, k))
                             = Cardinality(Ids(MirrorKey(k)) \ Gone(m, MirrorKey(k)))
             /\ \/ Gone(m, k) = {} /\ Gone(m, MirrorKey(k)) = {}
                \/ \A i \in 1..2 : <<k, i>> \notin m.missing /\ <<MirrorKey(k), i>> \notin m.missing
  <2> PICK l : l = MirrorKey(k)
    OBVIOUS
  <2>l. l \in Keys /\ (Between(m.version, k) <=> Between(m.version, l))
          /\ (k \in desired <=> l \in desired)
    BY <1>d, <1>5, PairedMirrors
  <2>1. CASE ~ Between(m.version, k)
    <3>1. Gone(m, k) = {} /\ Gone(m, l) = {}
      BY <1>4, <2>1, <2>l, NotBetween
    <3> QED  BY <3>1 DEF Even
  <2>2. CASE Between(m.version, k) /\ m.pairs = {}
    <3>1. m.extra = existing
      BY <2>2
    <3>2. Gone(m, k) = Ids(k) /\ Gone(m, l) = Ids(l)
      BY <1>k, <2>2, <2>l, <3>1 DEF Gone
    <3>3. Ids(k) \ Gone(m, k) = Ids(l) \ Gone(m, l)
      BY <3>2
    <3>4. \A i \in 1..2 : <<k, i>> \notin m.missing /\ <<l, i>> \notin m.missing
      BY <1>2, <1>d, <2>2, <2>l
    <3> QED  BY <3>3, <3>4
  <2>3. CASE m.pairs # {} /\ k \in desired
    <3>0. m.extra \subseteq { r \in existing : KeyOf(r) \notin desired }
      BY <2>3, ExtraRows
    <3>1. Gone(m, k) = {} /\ Gone(m, l) = {}
      BY <2>3, <2>l, <3>0 DEF Gone, IdsIn
    <3> QED  BY <3>1 DEF Even
  <2>4. CASE Between(m.version, k) /\ m.pairs # {} /\ k \notin desired
    <3> PICK rows : rows = { r \in existing : KeyOf(r) \notin desired }
      OBVIOUS
    <3>0. rows \subseteq Rows /\ m.extra \in OneOfEach(rows)
      BY <1>e, <2>4
    <3>1. \A i \in 1..2 : <<k, i>> \notin m.missing /\ <<l, i>> \notin m.missing
      BY <1>2, <2>4, <2>l
    <3>2. ASSUME NEW q \in {k, l}
          PROVE  /\ q \in Keys /\ Between(m.version, q) /\ q \notin desired
                 /\ IsFiniteSet(Ids(q))
                 /\ Ids(q) # {} => Cardinality(Ids(q) \ Gone(m, q)) = Cardinality(Ids(q)) - 1
    
      <4>1. q \in Keys /\ Between(m.version, q) /\ q \notin desired /\ IsFiniteSet(Ids(q))
        BY <2>4, <2>l DEF IdsFinite
      <4>2. ASSUME Ids(q) # {}
            PROVE  Cardinality(Ids(q) \ Gone(m, q)) = Cardinality(Ids(q)) - 1
        <5>1. q \in KeysOf(rows)
          BY <1>k, <4>1, <4>2 DEF KeysOf
        <5>2. PICK s \in m.extra : { t \in m.extra : KeyOf(t) = q } = {s}
          BY <3>0, <5>1 DEF OneOfEach
        <5>3. Gone(m, q) = {s[4]}
          BY <5>2 DEF Gone, IdsIn
        <5> PICK d : d = s[4]
          OBVIOUS
        <5>4. d \in Ids(q)
          <6>1. s \in relation /\ KeyOf(s) = q
            BY <1>x, <1>e, <5>2
          <6> QED  BY <6>1 DEF Ids, IdsIn
        <5>5. Cardinality(Ids(q) \ {d}) = Cardinality(Ids(q)) - 1
          <6> PICK S : S = Ids(q)
            OBVIOUS
          <6> PICK T : T = S \ {d}
            OBVIOUS
          <6>1. IsFiniteSet(S) /\ d \in S /\ \A x : x \in T <=> x \in S /\ x # d
            BY <4>1, <5>4
          <6>2. Cardinality(T) = Cardinality(S) - 1
            BY <6>1, OneLessLeft
          <6> QED  BY <6>2
        <5> QED  BY <5>3, <5>5
      <4> QED  BY <4>1, <4>2
    <3>3. ASSUME Even(k)
          PROVE  Cardinality(Ids(k) \ Gone(m, k)) = Cardinality(Ids(l) \ Gone(m, l))
      <4>1. Ids(k) = {} <=> Ids(l) = {}
        BY <1>5, <3>3, EvenAndNone
      <4>2. CASE Ids(k) = {}
        <5>1. Ids(k) \ Gone(m, k) = {} /\ Ids(l) \ Gone(m, l) = {}
          BY <4>1, <4>2
        <5> QED  BY <5>1
      <4>3. CASE Ids(k) # {}
        BY <3>2, <3>3, <4>1, <4>3 DEF Even
      <4> QED  BY <4>2, <4>3
    <3> QED  BY <3>1, <3>3
  <2>5. \/ ~ Between(m.version, k)
        \/ (Between(m.version, k) /\ m.pairs = {})
        \/ (m.pairs # {} /\ k \in desired)
        \/ (Between(m.version, k) /\ m.pairs # {} /\ k \notin desired)
    OBVIOUS
  <2> QED  BY <2>1, <2>2, <2>3, <2>4, <2>5
<1>6. DeletesBoth(m)
  BY <1>4, <1>5 DEF DeletesBoth
<1> QED  BY <1>1, <1>3, <1>6 DEF Judged

\* The rows between two versions after a statement.
LEMMA IdsLeft ==
  ASSUME relation \subseteq Rows, NEW extra, extra \subseteq Rows,
         relation' = relation \ extra, NEW k \in Keys
  PROVE  Ids(k)' = Ids(k) \ IdsIn(extra, k)
<1>1. relation' \subseteq Rows
  OBVIOUS
<1>2. ASSUME NEW i PROVE i \in Ids(k)' <=> i \in Ids(k) /\ i \notin IdsIn(extra, k)
  <2> PICK r : r = <<k[1], k[2], k[3], i>>
    OBVIOUS
  <2>1. (i \in Ids(k) <=> r \in relation) /\ (i \in Ids(k)' <=> r \in relation')
    BY <1>1, IdsAre, IdsWillBe
  <2>2. i \in IdsIn(extra, k) <=> r \in extra
    BY IdOfRow
  <2> QED  BY <2>1, <2>2
<1> PICK a, b, c : a = Ids(k)' /\ b = Ids(k) /\ c = IdsIn(extra, k)
  OBVIOUS
<1>3. a = b \ c
  BY <1>2
<1> QED  BY <1>3

LEMMA IdsMade ==
  ASSUME relation \subseteq Rows, NEW missing \in SUBSET (Keys \X (1..2)),
         NEW n \in RowIds,
         relation' = relation \cup Numbered(missing, n), NEW k \in Keys
  PROVE  Ids(k)' = Ids(k) \cup { n + i : i \in { i \in 1..2 : <<k, i>> \in missing } }
<1>0. Numbered(missing, n) \subseteq Rows
  BY NewRowsTyped
<1>1. relation' \subseteq Rows
  BY <1>0
<1> PICK c : c = { n + i : i \in { i \in 1..2 : <<k, i>> \in missing } }
  OBVIOUS
<1>2. ASSUME NEW d PROVE d \in Ids(k)' <=> d \in Ids(k) \/ d \in c
  <2> PICK r : r = <<k[1], k[2], k[3], d>>
    OBVIOUS
  <2>1. (d \in Ids(k) <=> r \in relation) /\ (d \in Ids(k)' <=> r \in relation')
    BY <1>1, IdsAre, IdsWillBe
  <2>2. r \in Numbered(missing, n) <=> \E i \in 1..2 : <<k, i>> \in missing /\ d = n + i
    BY RowsNumbered
  <2> QED  BY <2>1, <2>2
<1> PICK a, b : a = Ids(k)' /\ b = Ids(k)
  OBVIOUS
<1>4. a = b \cup c
  BY <1>2
<1> QED  BY <1>4

LEMMA FiniteLeft ==
  ASSUME IdsFinite, relation \subseteq Rows, NEW extra, extra \subseteq Rows,
         relation' = relation \ extra
  PROVE  IdsFinite'
<1>1. ASSUME NEW k \in Keys PROVE IsFiniteSet(Ids(k)')
  <2> PICK a, b : a = Ids(k)' /\ b = Ids(k)
    OBVIOUS
  <2>1. a \subseteq b /\ IsFiniteSet(b)
    BY IdsLeft DEF IdsFinite
  <2>2. IsFiniteSet(a)
    BY <2>1, FS_Subset
  <2> QED  BY <2>2
<1> QED  BY <1>1 DEF IdsFinite

LEMMA FiniteMade ==
  ASSUME IdsFinite, relation \subseteq Rows, NEW missing \in SUBSET (Keys \X (1..2)),
         NEW n \in RowIds, relation' = relation \cup Numbered(missing, n)
  PROVE  IdsFinite'
<1>0. n \in Nat
  BY TypeConstantsAssumption
<1>1. ASSUME NEW k \in Keys PROVE IsFiniteSet(Ids(k)')
  <2> PICK a, b, c : /\ a = Ids(k)' /\ b = Ids(k)
                     /\ c = { n + i : i \in { i \in 1..2 : <<k, i>> \in missing } }
    OBVIOUS
  <2>1. a = b \cup c /\ IsFiniteSet(b)
    BY IdsMade DEF IdsFinite
  <2>2. IsFiniteSet(c)
    <3>1. c \subseteq n..(n + 2)
      <4>1. ASSUME NEW d \in c PROVE d \in n..(n + 2)
        <5>1. PICK i \in 1..2 : d = n + i
          OBVIOUS
        <5> QED  BY <1>0, <5>1
      <4> QED  BY <4>1
    <3>2. IsFiniteSet(n..(n + 2))
      BY <1>0, FS_Interval
    <3> QED  BY <3>1, <3>2, FS_Subset
  <2>3. IsFiniteSet(b \cup c)
    BY <2>1, <2>2, FS_Union
  <2>4. IsFiniteSet(a)
    BY <2>1, <2>3
  <2> QED  BY <2>4
<1> QED  BY <1>1 DEF IdsFinite

\* A step that writes rows.
LEMMA JudgedBeside ==
  \A rows \in SUBSET Rows : \A e, o \in Editors, to \in EditorSteps :
    /\ TypesInv /\ MirrorsInv
    /\ relation' = relation \ rows \/ relation' = relation \cup rows
    /\ Overtaking(e, to, rows) /\ o # e
    => Judged(editor[o])'
<1>a. SUFFICES ASSUME TypesInv, MirrorsInv, NEW rows \in SUBSET Rows,
                      relation' = relation \ rows \/ relation' = relation \cup rows,
                      NEW e \in Editors, NEW to \in EditorSteps, Overtaking(e, to, rows),
                      NEW o \in Editors, o # e
               PROVE  Judged(editor[o])'
  OBVIOUS
<1>m. PICK m : m = editor[o]
  OBVIOUS
<1>r. PICK r : r = editor'[o]
  OBVIOUS
<1>1. m \in EditType /\ Judged(m) /\ relation \subseteq Rows
  BY <1>a, <1>m DEF TypesInv, MirrorsInv, RowsInv
<1>2. /\ SameEdit(m, r) /\ (m.overtaken => r.overtaken)
      /\ ~ r.overtaken /\ m.step \in Looking
           => \A row \in rows : m.version \notin {row[1], row[2]}
  BY <1>a, <1>m, <1>r, OvertakingSteps DEF TypesInv, StepsTo, Looking
<1>3. ASSUME ~ r.overtaken, m.step \in Looking, NEW k \in Keys, Between(m.version, k)
      PROVE  Ids(k)' = Ids(k)
  BY <1>a, <1>1, <1>2, <1>3, Untouched
<1>4. ~ r.overtaken /\ m.step \in Looking =>
        \A k \in Keys : Between(m.version, k) => Ids(k)' = Ids(k)
  BY <1>3
<1>5. Judged(r)'
  BY <1>1, <1>2, <1>4, JudgedStays
<1> QED  BY <1>5, <1>r

\* The handler that deleted what it was going to.
LEMMA DeletedJudged ==
  ASSUME relation \subseteq Rows, NEW m \in EditType, Judged(m), m.step = "deleting",
         relation' = relation \ m.extra,
         NEW r \in EditType, r.step = "relating", r.version = m.version,
         r.missing = m.missing, r.overtaken = m.overtaken
  PROVE  Judged(r)'
<1> SUFFICES ASSUME ~ m.overtaken PROVE MissingIsMissing(r)' /\ CreatesBoth(r)'
  BY DEF Judged, Looking
<1>1. MissingIsMissing(m) /\ CreatesBoth(m) /\ DeletesBoth(m)
  BY DEF Judged, Looking
<1>2. \A k \in Keys : Ids(k)' = Ids(k) \ Gone(m, k)
  <2>1. m.extra \subseteq Rows
    BY DEF EditType
  <2> QED  BY <2>1, IdsLeft DEF Gone
<1>3. MissingIsMissing(r)'
  BY <1>1, <1>2 DEF MissingIsMissing, EditType
<1>4. ASSUME NEW k \in Keys, Paired(k[3]), Even(k)', NEW i \in 1..2
      PROVE  <<k, i>> \in m.missing <=> <<MirrorKey(k), i>> \in m.missing
  <2> PICK l : l = MirrorKey(k)
    OBVIOUS
  <2>l. l \in Keys
    BY <1>4, PairedMirrors
  <2>1. CASE Gone(m, k) = {} /\ Gone(m, l) = {}
    <3>1. Ids(k)' = Ids(k) /\ Ids(l)' = Ids(l)
      BY <1>2, <2>1, <2>l
    <3>2. Even(k)
      BY <1>4, <3>1 DEF Even
    <3> QED  BY <1>1, <1>4, <3>2 DEF CreatesBoth
  <2>2. CASE <<k, i>> \notin m.missing /\ <<l, i>> \notin m.missing
    BY <2>2
  <2> QED  BY <1>1, <1>4, <2>1, <2>2 DEF DeletesBoth
<1>5. CreatesBoth(r)'
  BY <1>4 DEF CreatesBoth
<1> QED  BY <1>3, <1>5

\* What create begins to look for, and goes to create once it looked for all.
LEMMA WantedBetween ==
  ASSUME NEW m \in EditType, m.version \in TypeVersionIds
  PROVE  /\ Wanted(m) \subseteq Keys \X (1..2)
         /\ \A x \in Wanted(m) : Between(m.version, x[1])
<1>1. /\ DesiredOfNew(m.version, m.pairs) \subseteq Keys
      /\ \A k \in DesiredOfNew(m.version, m.pairs) : Between(m.version, k)
  <2>1. m.pairs \in SUBSET (TypeVersionIds \X Kinds)
    BY DEF EditType
  <2>2. /\ Desired(m.version, m.pairs) \subseteq Keys
        /\ DesiredOfNew(m.version, m.pairs) \subseteq Desired(m.version, m.pairs)
        /\ \A k \in Desired(m.version, m.pairs) : \E p \in m.pairs :
             {k[1], k[2]} = {m.version, p[1]}
    BY <2>1, DesiredKeys
  <2> QED  BY <2>2 DEF Between
<1>2. 1..m.lists \subseteq 1..2
  BY DEF EditType
<1> QED  BY <1>1, <1>2 DEF Wanted

LEMMA ComparingJudged ==
  ASSUME NEW m \in EditType, m.version \in TypeVersionIds, m.step = "comparing",
         m.unchecked = Wanted(m), m.missing = {}
  PROVE  Judged(m)
<1>1. MissingIsMissing(m) /\ ComparedSoFar(m)
  BY WantedBetween DEF MissingIsMissing, ComparedSoFar
<1> QED  BY <1>1 DEF Judged

LEMMA ComparedJudged ==
  ASSUME NEW m \in EditType, Judged(m), m.step = "comparing", NEW wanted \in m.unchecked,
         NEW r \in EditType, r.step = "comparing", r.version = m.version,
         r.pairs = m.pairs, r.lists = m.lists, r.overtaken = m.overtaken,
         r.unchecked = m.unchecked \ {wanted},
         r.missing = IF Ids(wanted[1]) = {} THEN m.missing \cup {wanted} ELSE m.missing
  PROVE  Judged(r)
<1> SUFFICES ASSUME ~ m.overtaken PROVE MissingIsMissing(r) /\ ComparedSoFar(r)
  BY DEF Judged
<1>1. MissingIsMissing(m) /\ ComparedSoFar(m)
  BY DEF Judged, Looking
<1>2. Wanted(r) = Wanted(m)
  BY DEF Wanted
<1>3. MissingIsMissing(r)
  BY <1>1 DEF MissingIsMissing, ComparedSoFar
<1>4. ComparedSoFar(r)
  BY <1>1, <1>2 DEF ComparedSoFar
<1> QED  BY <1>3, <1>4

LEMMA AllComparedJudged ==
  ASSUME IdsFinite, NEW m \in EditType, m.version \in TypeVersionIds,
         Judged(m), m.step = "comparing", m.unchecked = {},
         NEW r \in EditType, r.step = "relating", r.version = m.version,
         r.missing = m.missing, r.overtaken = m.overtaken
  PROVE  Judged(r)
<1> SUFFICES ASSUME ~ m.overtaken PROVE MissingIsMissing(r) /\ CreatesBoth(r)
  BY DEF Judged
<1>1. MissingIsMissing(m) /\ ComparedSoFar(m)
  BY DEF Judged, Looking
<1>2. ASSUME NEW k \in Keys, NEW i \in 1..2
      PROVE  <<k, i>> \in m.missing <=> <<k, i>> \in Wanted(m) /\ Ids(k) = {}
  <2> PICK x : x = <<k, i>>
    OBVIOUS
  <2>1. x[1] = k
    OBVIOUS
  <2>2. x \in m.missing <=> x \in Wanted(m) /\ Ids(x[1]) = {}
    BY <1>1 DEF MissingIsMissing, ComparedSoFar
  <2> QED  BY <2>1, <2>2
<1>3. ASSUME NEW k \in Keys, Paired(k[3]), Even(k), NEW i \in 1..2
      PROVE  <<k, i>> \in m.missing <=> <<MirrorKey(k), i>> \in m.missing
  <2> PICK l : l = MirrorKey(k)
    OBVIOUS
  <2>1. l \in Keys /\ (Ids(k) = {} <=> Ids(l) = {})
    BY <1>3, PairedMirrors, EvenAndNone
  <2>2. k \in DesiredOfNew(m.version, m.pairs) <=> l \in DesiredOfNew(m.version, m.pairs)
    BY <1>3, DesiredOfNewAlike DEF EditType
  <2>3. <<k, i>> \in Wanted(m) <=> <<l, i>> \in Wanted(m)
    BY <2>2 DEF Wanted
  <2> QED  BY <1>2, <1>3, <2>1, <2>3
<1>4. CreatesBoth(r)
  BY <1>3 DEF CreatesBoth
<1> QED  BY <1>1, <1>4 DEF MissingIsMissing

\* A handler that has not begun to look, or has done with it.
LEMMA JudgedAway ==
  ASSUME NEW m \in EditType, m.step \notin Looking,
         m.step \in {"creating", "inserting", "updating", "listing", "reading"} =>
           m.missing = {} \/ m.overtaken
  PROVE  Judged(m)
  BY DEF Judged, Looking

\* A handler that comes to another step and keeps what it found missing.
LEMMA JudgedOn ==
  ASSUME NEW m, NEW r, Judged(m), r.missing = m.missing, r.overtaken = m.overtaken,
         m.step \in {"creating", "inserting", "updating", "listing"}
           \/ r.step \in {"removing", "vanishing", "done"},
         r.step \in {"inserting", "listing", "reading", "removing", "vanishing", "done"}
  PROVE  Judged(r)
  BY DEF Judged, Looking

MirrorsAll == MirrorsInv /\ IdsFinite

LEMMA MirrorsInit == TypesInit => MirrorsAll
<1> SUFFICES ASSUME TypesInit PROVE MirrorsInv /\ IdsFinite
  BY DEF MirrorsAll
<1>1. Judged(NoEdit)
  BY DEF Judged, NoEdit, Looking
<1>2. \A k : Ids(k) = {}
  BY DEF TypesInit, Ids, IdsIn
<1> QED  BY <1>1, <1>2, FS_EmptySet DEF TypesInit, MirrorsInv, IdsFinite

LEMMA MirrorsStep == TypesInv /\ MirrorsAll /\ [TypesNext]_typeVars => MirrorsAll'
<1> SUFFICES ASSUME TypesInv, MirrorsAll, [TypesNext]_typeVars PROVE MirrorsAll'
  OBVIOUS
<1>f. MirrorsInv /\ IdsFinite /\ relation \subseteq Rows
  BY DEF MirrorsAll, TypesInv, RowsInv
<1>p. Pairs \subseteq TypeVersionIds \X Kinds /\ 1..clients.repeats \subseteq 0..2
  <2>1. clients \in [ editors : Nat, room : Nat, repeats : 1..2,
                      listed : SUBSET (TypeVersionIds \X Kinds),
                      calls : SUBSET {"create", "place", "version", "remove"} ]
    BY TypeConstantsAssumption DEF TypesInv, RowsInv
  <2>2. clients.repeats \in 1..2 /\ clients.listed \subseteq TypeVersionIds \X Kinds
    BY <2>1
  <2> QED  BY <2>2 DEF Pairs
<1>0. CASE UNCHANGED typeVars
  BY <1>0 DEF typeVars, MirrorsAll, MirrorsInv, IdsFinite, Judged, MissingIsMissing,
     ComparedSoFar, CreatesBoth, DeletesBoth, Even, Ids
<1>n. ASSUME NEW e \in Editors,
             \/ CreateType(e) \/ InsertFirst(e)
             \/ ReadType(e) \/ UpdateLatest(e) \/ InsertNext(e)
             \/ KeepRelations(e) \/ FindListed(e) \/ CompareRow(e) \/ EndComparing(e)
             \/ ReadRelations(e) \/ DeleteRelations(e) \/ CreateRelations(e)
             \/ FindTypeVersions(e) \/ CheckRelations(e) \/ DeleteTypeVersions(e)
             \/ DeleteType(e)
             \/ EndEdit(e)
      PROVE  MirrorsAll'
  <2> PICK me : me = editor[e]
    OBVIOUS
  <2>m. me \in EditType /\ Judged(me) /\ (me.step \in RelatingSteps => me.version \in TypeVersionIds)
    BY <1>f DEF TypesInv, MirrorsInv, HoldsVersions, EditType
  <2>s. ASSUME NEW m \in EditType, editor' = [editor EXCEPT ![e] = m],
               UNCHANGED relation, Judged(m)
        PROVE  MirrorsAll'
    <3>1. StepsTo(e, m)
      BY <2>s, SetSteps DEF TypesInv
    <3> QED  BY <1>f, <2>s, <3>1, JudgedAlone DEF MirrorsAll
  <2>1. CASE CreateType(e)
    <3>1. PICK t \in Types, lists \in 1..clients.repeats, pairs \in SUBSET Pairs :
            BeginEdit(e, Creating(t, lists, pairs))
      BY <2>1 DEF CreateType, Creating
    <3> PICK m : m = Creating(t, lists, pairs)
      OBVIOUS
    <3>2. m \in EditType /\ m.step = "creating" /\ m.missing = {}
      BY <1>p, CreatingTyped
    <3>3. Judged(m)
      BY <3>2 DEF Judged, Looking
    <3> QED  BY <2>s, <2>1, <3>1, <3>2, <3>3 DEF BeginEdit, CreateType
  <2>2. ASSUME NEW v \in TypeVersionIds, me.step \in {"creating", "inserting"},
               editor' = [editor EXCEPT ![e].step = "listing", ![e].version = v],
               UNCHANGED relation
        PROVE  MirrorsAll'
    <3> PICK m : m = [me EXCEPT !.step = "listing", !.version = v]
      OBVIOUS
    <3>1. /\ m \in EditType /\ m.step = "listing" /\ m.missing = me.missing
          /\ m.overtaken = me.overtaken
      BY <2>m DEF EditType, EditorSteps
    <3>2. editor' = [editor EXCEPT ![e] = m]
      BY <2>2
    <3>3. Judged(m)
      BY <2>2, <2>m, <3>1, JudgedOn
    <3> QED  BY <2>2, <2>s, <3>1, <3>2, <3>3
  <2>3. CASE InsertFirst(e) \/ InsertNext(e)
    <3>1. PICK v \in TypeVersionIds :
            editor' = [editor EXCEPT ![e].step = "listing", ![e].version = v]
      BY <2>3 DEF InsertFirst, InsertNext
    <3>2. me.step \in {"creating", "inserting"} /\ UNCHANGED relation
      BY <2>3 DEF InsertFirst, InsertNext, Step
    <3> HIDE <2>3
    <3> QED  BY <2>2, <3>1, <3>2
  <2>4. CASE ReadType(e)
    <3>1. PICK t \in Types, op \in {"place", "version"}, lists \in 0..1,
               pairs \in SUBSET Pairs :
            /\ LiveVersions(t) # {}
            /\ BeginEdit(e, Updating(op, t, Latest(t), lists, pairs))
      BY <2>4 DEF ReadType, Updating
    <3> PICK last : last = Latest(t)
      OBVIOUS
    <3>2. last \in TypeVersionIds
      BY <3>1, LatestIsLast DEF TypesInv, LiveVersions
    <3> PICK m : m = Updating(op, t, last, lists, pairs)
      OBVIOUS
    <3>3. m \in EditType /\ m.step = "updating" /\ m.missing = {}
      BY <1>p, <3>2, UpdatingTyped
    <3>4. editor' = [editor EXCEPT ![e] = m]
      BY <3>1 DEF BeginEdit
    <3>5. Judged(m)
      BY <3>3 DEF Judged, Looking
    <3> QED  BY <2>s, <2>4, <3>3, <3>4, <3>5 DEF ReadType
  <2>5. CASE UpdateLatest(e)
    <3>1. me.step = "updating" /\ me.latest \in TypeVersionIds /\ UNCHANGED relation
      BY <2>5, <2>m DEF UpdateLatest, Step, TypesInv, HoldsVersions, EditType
    <3>2. CASE me.op = "place"
      <4> PICK m : m = [me EXCEPT !.step = "listing", !.version = me.latest]
        OBVIOUS
      <4>1. /\ m \in EditType /\ m.step = "listing" /\ m.missing = me.missing
            /\ m.overtaken = me.overtaken
        BY <2>m, <3>1 DEF EditType, EditorSteps
      <4>2. editor' = [editor EXCEPT ![e] = m]
        BY <2>5, <3>2 DEF UpdateLatest
      <4>3. Judged(m)
        BY <2>m, <3>1, <4>1, JudgedOn
      <4> QED  BY <2>s, <3>1, <4>1, <4>2, <4>3
    <3>3. CASE me.op # "place"
      <4> PICK m : m = [me EXCEPT !.step = "inserting"]
        OBVIOUS
      <4>1. /\ m \in EditType /\ m.step = "inserting" /\ m.missing = me.missing
            /\ m.overtaken = me.overtaken
        BY <2>m, <3>1 DEF EditType, EditorSteps
      <4>2. editor' = [editor EXCEPT ![e] = m]
        BY <2>5, <3>3 DEF UpdateLatest
      <4>3. Judged(m)
        BY <2>m, <3>1, <4>1, JudgedOn
      <4> QED  BY <2>s, <3>1, <4>1, <4>2, <4>3
    <3> QED  BY <3>2, <3>3
  <2>6. ASSUME NEW step \in {"removing", "vanishing", "done"}, UNCHANGED relation,
               editor' = [editor EXCEPT ![e].step = step]
        PROVE  MirrorsAll'
    <3> PICK m : m = [me EXCEPT !.step = step]
      OBVIOUS
    <3>1. /\ m \in EditType /\ m.step = step /\ m.missing = me.missing
          /\ m.overtaken = me.overtaken
      BY <2>m DEF EditType, EditorSteps
    <3>2. editor' = [editor EXCEPT ![e] = m]
      BY <2>6
    <3>3. Judged(m)
      BY <2>m, <3>1, JudgedOn
    <3> QED  BY <2>6, <2>s, <3>1, <3>2, <3>3
  <2>7. CASE KeepRelations(e) \/ CheckRelations(e) \/ DeleteTypeVersions(e) \/ DeleteType(e)
    <3>1. PICK step \in {"removing", "vanishing", "done"} :
            editor' = [editor EXCEPT ![e].step = step]
      BY <2>7 DEF KeepRelations, CheckRelations, DeleteTypeVersions, DeleteType
    <3>2. UNCHANGED relation
      BY <2>7 DEF KeepRelations, CheckRelations, DeleteTypeVersions, DeleteType
    <3> HIDE <2>7
    <3> QED  BY <2>6, <3>1, <3>2
  <2>8. CASE FindListed(e)
    <3> PICK wanted : wanted = IF me.op = "create" THEN Wanted(me) ELSE {}
      OBVIOUS
    <3> PICK step : step = IF me.op = "create" THEN "comparing" ELSE "reading"
      OBVIOUS
    <3>1. me.step = "listing" /\ me.version \in TypeVersionIds /\ UNCHANGED relation
      BY <2>8, <2>m DEF FindListed, Step, RelatingSteps
    <3>2. wanted \in SUBSET (Keys \X (1..2))
      BY <2>m, <3>1, WantedBetween
    <3> PICK m : m = [me EXCEPT !.step = step, !.unchecked = wanted]
      OBVIOUS
    <3>3. /\ m \in EditType /\ m.step = step /\ m.version = me.version
          /\ m.pairs = me.pairs /\ m.lists = me.lists
          /\ m.missing = me.missing /\ m.overtaken = me.overtaken /\ m.unchecked = wanted
      BY <2>m, <3>1, <3>2 DEF EditType, EditorSteps
    <3>4. editor' = [editor EXCEPT ![e] = m]
      BY <2>8 DEF FindListed, Wanted
    <3>5. Judged(m)
      <4>1. CASE m.overtaken
        BY <4>1 DEF Judged
      <4>2. CASE ~ m.overtaken /\ step = "comparing"
        <5>1. m.missing = {}
          BY <2>m, <3>1, <3>3, <4>2 DEF Judged
        <5>2. m.unchecked = Wanted(m)
          BY <3>3, <4>2 DEF Wanted
        <5> QED  BY <3>1, <3>3, <4>2, <5>1, <5>2, ComparingJudged
      <4>3. CASE step = "reading"
        BY <2>m, <3>1, <3>3, <4>3, JudgedOn
      <4> QED  BY <4>1, <4>2, <4>3
    <3> QED  BY <2>s, <3>1, <3>3, <3>4, <3>5
  <2>9. CASE CompareRow(e)
    <3>1. PICK wanted \in me.unchecked :
            editor' = [editor EXCEPT ![e] = [me EXCEPT
              !.unchecked = me.unchecked \ {wanted},
              !.missing = IF Ids(wanted[1]) = {} THEN me.missing \cup {wanted}
                          ELSE me.missing]]
      BY <2>9 DEF CompareRow
    <3>2. me.step = "comparing" /\ UNCHANGED relation
      BY <2>9 DEF CompareRow, Step
    <3> PICK missing : missing = IF Ids(wanted[1]) = {} THEN me.missing \cup {wanted}
                                 ELSE me.missing
      OBVIOUS
    <3>3. missing \in SUBSET (Keys \X (1..2))
      BY <2>m DEF EditType
    <3> PICK m : m = [me EXCEPT !.unchecked = me.unchecked \ {wanted}, !.missing = missing]
      OBVIOUS
    <3>4. /\ m \in EditType /\ m.step = "comparing" /\ m.version = me.version
          /\ m.pairs = me.pairs /\ m.lists = me.lists /\ m.overtaken = me.overtaken
          /\ m.unchecked = me.unchecked \ {wanted} /\ m.missing = missing
      BY <2>m, <3>2, <3>3 DEF EditType
    <3>5. editor' = [editor EXCEPT ![e] = m]
      BY <3>1
    <3>6. Judged(m)
      BY <2>m, <3>2, <3>4, ComparedJudged
    <3> QED  BY <2>s, <3>2, <3>4, <3>5, <3>6
  <2>10. CASE EndComparing(e)
    <3> PICK m : m = [me EXCEPT !.step = "relating"]
      OBVIOUS
    <3>1. /\ m \in EditType /\ m.step = "relating" /\ m.version = me.version
          /\ m.missing = me.missing /\ m.overtaken = me.overtaken
      BY <2>m DEF EditType, EditorSteps
    <3>2. /\ me.step = "comparing" /\ me.unchecked = {} /\ UNCHANGED relation
          /\ me.version \in TypeVersionIds
      BY <2>10, <2>m DEF EndComparing, Step, RelatingSteps
    <3>3. editor' = [editor EXCEPT ![e] = m]
      BY <2>10 DEF EndComparing
    <3>4. Judged(m)
      BY <1>f, <2>m, <3>1, <3>2, AllComparedJudged
    <3> QED  BY <2>s, <3>1, <3>2, <3>3, <3>4
  <2>11. CASE ReadRelations(e)
    <3> PICK desired : desired = Desired(me.version, me.pairs)
      OBVIOUS
    <3> PICK existing : existing = Touching(me.version)
      OBVIOUS
    <3>1. me.step = "reading" /\ me.version \in TypeVersionIds /\ UNCHANGED relation
      BY <2>11, <2>m DEF ReadRelations, Step, RelatingSteps
    <3> PICK missing : missing = (desired \ KeysOf(existing)) \X {1}
      OBVIOUS
    <3>2. PICK extra \in IF me.pairs = {} THEN {existing}
                         ELSE OneOfEach({ r \in existing : KeyOf(r) \notin desired }) :
            editor' = [editor EXCEPT ![e].step = "deleting", ![e].extra = extra,
                                     ![e].missing = missing]
      BY <2>11 DEF ReadRelations
    <3>e. existing \subseteq relation
            /\ \A r \in relation : r \in existing <=> Between(me.version, r)
      BY DEF Touching, Between
    <3>3. desired \subseteq Keys
      BY <2>m, <3>1, DesiredKeys DEF EditType
    <3>4. extra \in SUBSET Rows /\ missing \in SUBSET (Keys \X (1..2))
      <4>1. existing \subseteq Rows
        BY <1>f, <3>e
      <4>2. extra \subseteq existing
        BY <3>2, ExtraRows
      <4> QED  BY <3>3, <4>1, <4>2
    <3> PICK m : m = Planned(me, extra, missing)
      OBVIOUS
    <3>5. /\ m \in EditType /\ m.step = "deleting" /\ m.version = me.version
          /\ m.pairs = me.pairs /\ m.extra = extra /\ m.missing = missing
      BY <2>m, <3>4, PlanTyped
    <3>6. editor' = [editor EXCEPT ![e] = m]
      BY <3>2 DEF Planned
    <3>7. ReadBoth(m, desired, existing)
      BY <3>2, <3>e, <3>5 DEF ReadBoth
    <3>8. Judged(m)
      BY <1>f, <3>1, <3>5, <3>7, ReadJudged
    <3> QED  BY <2>s, <3>1, <3>5, <3>6, <3>8
  <2>12. CASE FindTypeVersions(e)
    <3> DEFINE Then(live) == IF live = {} THEN "vanishing" ELSE "checking"
    <3>1. PICK t \in Types :
            BeginEdit(e, Removing(t, LiveVersions(t), Then(LiveVersions(t))))
      BY <2>12 DEF FindTypeVersions, Removing
    <3> PICK live : live = LiveVersions(t)
      OBVIOUS
    <3> PICK step : step = Then(live)
      OBVIOUS
    <3> PICK m : m = Removing(t, live, step)
      OBVIOUS
    <3>2. live \subseteq TypeVersionIds /\ step \in {"vanishing", "checking"}
      BY DEF LiveVersions
    <3>3. m \in EditType /\ m.step \in {"vanishing", "checking"}
      BY <3>2, RemovingTyped DEF EditorSteps
    <3>4. editor' = [editor EXCEPT ![e] = m]
      BY <3>1 DEF BeginEdit
    <3>5. Judged(m)
      BY <3>3 DEF Judged, Looking
    <3> QED  BY <2>s, <2>12, <3>3, <3>4, <3>5 DEF FindTypeVersions
  <2>13. CASE EndEdit(e)
    <3>1. NoEdit \in EditType /\ Judged(NoEdit)
      BY DEF NoEdit, EditType, EditorSteps, Judged, Looking
    <3> QED  BY <2>s, <2>13, <3>1 DEF EndEdit
  <2>14. CASE DeleteRelations(e)
    <3> PICK rows : rows = relation \cap me.extra
      OBVIOUS
    <3> PICK m : m = [me EXCEPT !.step = "relating"]
      OBVIOUS
    <3>1. /\ m \in EditType /\ m.step = "relating" /\ m.version = me.version
          /\ m.missing = me.missing /\ m.overtaken = me.overtaken
      BY <2>m DEF EditType, EditorSteps
    <3>2. /\ me.step = "deleting" /\ relation' = relation \ me.extra
          /\ relation' = relation \ rows /\ Overtaking(e, "relating", rows)
          /\ rows \subseteq Rows /\ me.extra \subseteq Rows
      BY <1>f, <2>m, <2>14 DEF DeleteRelations, Step, EditType
    <3>3. editor'[e] = m
      BY <3>2 DEF Overtaking
    <3>4. Judged(m)'
      BY <1>f, <2>m, <3>1, <3>2, DeletedJudged
    <3>5. \A o \in Editors : o # e => Judged(editor[o])'
      BY <1>f, <3>2, JudgedBeside DEF EditorSteps
    <3>6. MirrorsInv'
      BY <3>3, <3>4, <3>5 DEF MirrorsInv
    <3>7. IdsFinite'
      BY <1>f, <3>2, FiniteLeft
    <3> QED  BY <3>6, <3>7 DEF MirrorsAll
  <2>15. CASE CreateRelations(e)
    <3> PICK m : m = [me EXCEPT !.step = "done"]
      OBVIOUS
    <3>1. m \in EditType /\ m.step = "done"
      BY <2>m DEF EditType, EditorSteps
    <3>2. PICK n \in RowIds :
            /\ relation' = relation \cup Numbered(me.missing, n)
            /\ Overtaking(e, "done", Numbered(me.missing, n))
      BY <2>15 DEF CreateRelations
    <3>m. me.missing \in SUBSET (Keys \X (1..2))
      BY <2>m DEF EditType
    <3> PICK rows : rows = Numbered(me.missing, n)
      OBVIOUS
    <3>3. rows \in SUBSET Rows
      BY <3>m, NewRowsTyped
    <3>4. editor'[e] = m
      BY <3>2 DEF Overtaking
    <3>5. Judged(m)'
      BY <3>1 DEF Judged, Looking
    <3>6. \A o \in Editors : o # e => Judged(editor[o])'
      BY <1>f, <3>2, <3>3, JudgedBeside DEF EditorSteps
    <3>7. MirrorsInv'
      BY <3>4, <3>5, <3>6 DEF MirrorsInv
    <3>8. IdsFinite'
      BY <1>f, <3>2, <3>m, FiniteMade
    <3> QED  BY <3>7, <3>8 DEF MirrorsAll
  <2> QED  BY <1>n, <2>1, <2>3, <2>4, <2>5, <2>7, <2>8, <2>9, <2>10,
              <2>11, <2>12, <2>13, <2>14, <2>15
<1> QED  BY <1>0, <1>n DEF TypesNext

\* The two statements of a handler that was not overtaken.
LEMMA DeletedEven ==
  ASSUME relation \subseteq Rows, NEW m \in EditType, Judged(m), ~ m.overtaken,
         m.step = "deleting", relation' = relation \ m.extra,
         NEW k \in Keys, Paired(k[3]), Even(k)
  PROVE  Even(k)'
<1> PICK l : l = MirrorKey(k)
  OBVIOUS
<1>1. l \in Keys
  BY PairedMirrors
<1>2. Cardinality(Ids(k) \ Gone(m, k)) = Cardinality(Ids(l) \ Gone(m, l))
  BY DEF Judged, DeletesBoth
<1>3. Ids(k)' = Ids(k) \ Gone(m, k) /\ Ids(l)' = Ids(l) \ Gone(m, l)
  <2>1. m.extra \subseteq Rows
    BY DEF EditType
  <2> QED  BY <1>1, <2>1, IdsLeft DEF Gone
<1> QED  BY <1>2, <1>3 DEF Even

LEMMA CreatedEven ==
  ASSUME relation \subseteq Rows, NEW m \in EditType, Judged(m), ~ m.overtaken,
         m.step = "relating",
         NEW n \in RowIds, relation' = relation \cup Numbered(m.missing, n),
         NEW k \in Keys, Paired(k[3]), Even(k)
  PROVE  Even(k)'
<1> PICK l : l = MirrorKey(k)
  OBVIOUS
<1> PICK missing : missing = m.missing
  OBVIOUS
<1> DEFINE New(key) == { n + i : i \in { i \in 1..2 : <<key, i>> \in missing } }
<1>1. l \in Keys
  BY PairedMirrors
<1>2. Ids(k)' = Ids(k) \cup New(k) /\ Ids(l)' = Ids(l) \cup New(l)
  <2>1. missing \in SUBSET (Keys \X (1..2))
    BY DEF EditType
  <2> QED  BY <1>1, <2>1, IdsMade
<1>3. \A i \in 1..2 : <<k, i>> \in missing <=> <<l, i>> \in missing
  BY DEF Judged, CreatesBoth
<1>4. New(k) = New(l)
  BY <1>3
<1>5. CASE New(k) = {}
  <2>1. Ids(k)' = Ids(k) /\ Ids(l)' = Ids(l)
    BY <1>2, <1>4, <1>5
  <2> QED  BY <2>1 DEF Even
<1>6. CASE New(k) # {}
  <2>1. PICK i \in 1..2 : <<k, i>> \in missing /\ <<l, i>> \in missing
    BY <1>3, <1>6
  <2>2. MissingIsMissing(m)
    BY DEF Judged, Looking
  <2>3. Ids(k) = {} /\ Ids(l) = {}
    <3> PICK x, y : x = <<k, i>> /\ y = <<l, i>>
      OBVIOUS
    <3>1. x \in missing /\ y \in missing /\ x[1] = k /\ y[1] = l
      BY <2>1
    <3> QED  BY <2>2, <3>1 DEF MissingIsMissing
  <2> HIDE DEF New
  <2>4. Ids(k)' = Ids(l)'
    BY <1>2, <1>4, <2>3
  <2> QED  BY <2>4 DEF Even
<1> QED  BY <1>5, <1>6

LEMMA BreaksByOverlap ==
  ASSUME TypesInv, MirrorsAll, [TypesNext]_typeVars,
         NEW k \in Keys, Paired(k[3]), Even(k), ~ Even(k)'
  PROVE  \E e \in Editors : /\ editor[e].overtaken
                            /\ editor[e].step \in {"deleting", "relating"}
                            /\ editor'[e].step # editor[e].step
<1>0. relation' # relation
  BY DEF Even, Ids
<1>1. relation \subseteq Rows
  BY DEF TypesInv, RowsInv
<1>2. PICK e \in Editors : DeleteRelations(e) \/ CreateRelations(e)
  BY <1>0 DEF typeVars, TypesNext, CreateType, InsertFirst, ReadType, UpdateLatest, InsertNext,
     KeepRelations, FindListed, CompareRow, EndComparing, ReadRelations,
     FindTypeVersions, CheckRelations, DeleteTypeVersions, DeleteType, EndEdit
<1> PICK me : me = editor[e]
  OBVIOUS
<1>3. me \in EditType /\ Judged(me)
  BY DEF TypesInv, MirrorsAll, MirrorsInv
<1>4. CASE DeleteRelations(e)
  <2>1. me.step = "deleting" /\ relation' = relation \ me.extra
    BY <1>4 DEF DeleteRelations, Step
  <2>2. editor'[e].step = "relating"
    BY <1>3, <1>4 DEF DeleteRelations, Overtaking, EditType
  <2>3. me.overtaken
    BY <1>1, <1>3, <2>1, DeletedEven
  <2> QED  BY <2>1, <2>2, <2>3
<1>5. CASE CreateRelations(e)
  <2>1. PICK n \in RowIds : /\ relation' = relation \cup Numbered(me.missing, n)
                            /\ Overtaking(e, "done", Numbered(me.missing, n))
    BY <1>5 DEF CreateRelations
  <2>2. me.step = "relating"
    BY <1>5 DEF CreateRelations, Step
  <2>3. editor'[e].step = "done"
    BY <1>3, <2>1 DEF Overtaking, EditType
  <2>4. me.overtaken
    BY <1>1, <1>3, <2>1, <2>2, CreatedEven
  <2> QED  BY <2>2, <2>3, <2>4
<1> QED  BY <1>2, <1>4, <1>5

\* However many edits overlap, stop half way or make copies, a relation whose
\* kind and inverse are each other's has lost or kept its mirror image alone only
\* by a statement of create or replaceRelations of an editor whose version got
\* rows from another one since it compared.
THEOREM MirrorsStay == TypesSpec => MirrorsBreakByOverlap
<1>1. TypesInit => TypesInv /\ MirrorsAll
  BY TypesInvInit, MirrorsInit
<1>2. TypesInv /\ MirrorsAll /\ [TypesNext]_typeVars => (TypesInv /\ MirrorsAll)'
  BY TypesInvStep, MirrorsStep
<1>3. TypesInv /\ MirrorsAll /\ [TypesNext]_typeVars =>
        [ \A k \in Keys :
            Paired(k[3]) /\ Even(k) /\ ~ Even(k)' =>
              \E e \in Editors : /\ editor[e].overtaken
                                 /\ editor[e].step \in {"deleting", "relating"}
                                 /\ editor'[e].step # editor[e].step ]_typeVars
  BY BreaksByOverlap
<1> QED  BY <1>1, <1>2, <1>3, PTL DEF TypesSpec, MirrorsBreakByOverlap

-----------------------------------------------------------------------------
(* The catalogue together.                                                 *)

\* The parts share no state: a step of one leaves the others as they are.
LEMMA EachPart == Spec => TypesSpec /\ ScopeSpec /\ ImportSpec
<1>1. Init => TypesInit /\ ScopeInit /\ ImportInit
  BY DEF Init, TypesResting, ScopeResting
<1>2. [Next]_allVars => /\ [TypesNext]_typeVars
                        /\ [ScopeNext]_scopeVars
                        /\ [ImportNext]_importVars
  BY DEF Next, allVars, typeVars, scopeVars, importVars
<1> QED  BY <1>1, <1>2, PTL DEF Spec, TypesSpec, ScopeSpec, ImportSpec

\* Asset types, scopes and imports keep their types, whatever editors and
\* imports overlap, stop half way or fail.
THEOREM CatalogueIsTyped == Spec => []CatalogueTypeOK
<1>1. ScopeInv => ScopeTypeOK
  BY DEF ScopeInv
<1>2. TypesTypeOK /\ ScopeTypeOK /\ ImportTypeOK => CatalogueTypeOK
  BY DEF CatalogueTypeOK
<1> QED  BY <1>1, <1>2, EachPart, TypesAreTyped, ScopeInvariant, ImportsAreTyped, PTL
=============================================================================
