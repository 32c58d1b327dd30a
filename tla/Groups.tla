------------------------------- MODULE Groups -------------------------------
(***************************************************************************)
(* The groups of the service sampa and who belongs to them.  A group is    *)
(* created with its lead in one transaction; its members are added (POST)  *)
(* and replaced (PATCH) by handlers that save one row after the other, and *)
(* save the members' own rows on the way, next to the two consumers.       *)
(***************************************************************************)
EXTENDS MemberSync

CONSTANTS
  GroupIds,   \* the groups that may be created,
  Lead,       \*   and who creates each
  BelongIds,  \* the ids of group_membership, in order of creation
  Admins      \* the handlers that may be in flight together

NoGroup == "no group"

ASSUME GroupAssumption ==
  /\ Lead \in [GroupIds -> Users]
  /\ BelongIds \subseteq Nat \ {0}
  /\ NoGroup \notin GroupIds

VARIABLES
  group,    \* group[g]: "none", "live" or soft-"deleted"
  belong,   \* the rows of group_membership
  admin     \* local variables of each handler

groupVars == <<syncVars, group, belong, admin>>

\* own: history, whether it is the row that was created with its group.
NoBelong == [group |-> NoGroup, user |-> "nobody", isLead |-> FALSE,
             isMember |-> FALSE, live |-> FALSE, own |-> FALSE]

Belongs(g) == {n \in BelongIds : belong[n].group = g /\ belong[n].live}
MemberRows(g) == {n \in Belongs(g) : belong[n].isMember}

\* A handler: listed are the users of its request, todo those whose rows it
\* still has to save, at is the one it is saving, isNew what it found of that
\* one, and row the membership of that one that it holds, or 0.  History: marked
\* are those it has saved as members, alone is whether no other handler ran
\* during this one.
AtDesk == [st |-> "idle", op |-> "none", group |-> NoGroup, listed |-> {},
           todo |-> {}, at |-> "nobody", isNew |-> FALSE, row |-> 0,
           marked |-> {}, alone |-> TRUE]

Busy(a) == admin[a].st \notin {"idle", "done"}

Admits(a) == /\ admin[a].st = "idle"
             /\ Cardinality({b \in Admins : admin[b].st # "idle"}) < load.admins

\* The free ids are handed out in order.
Free(k) == {n \in BelongIds : n <= load.rows /\ belong[n] = NoBelong /\ Cardinality(
              {m \in BelongIds : m < n /\ belong[m] = NoBelong}) < k}

BelongRow(g, u, isLead, isMember) ==
  [group |-> g, user |-> u, isLead |-> isLead, isMember |-> isMember,
   live |-> TRUE, own |-> FALSE]

InsertBelong(row) ==
  \E n \in Free(1) : belong' = [belong EXCEPT ![n] = row]

Become(a, record) ==
  admin' = [b \in Admins |->
    IF b = a THEN [record EXCEPT !.alone = ~ \E c \in Admins \ {a} : Busy(c)]
    ELSE IF Busy(b) THEN [admin[b] EXCEPT !.alone = FALSE] ELSE admin[b]]

-----------------------------------------------------------------------------
GroupsInit ==
  /\ SyncInit
  /\ group = [g \in GroupIds |-> "none"]
  /\ belong = [n \in BelongIds |-> NoBelong]
  /\ admin = [a \in Admins |-> AtDesk]

\* createGroup: the name is looked for, and unique among live groups; group
\* and lead are one transaction.  The lead is not a "member".
CreateGroup(g) ==
  /\ group[g] = "none"
  /\ member[Lead[g]].there
  /\ InsertBelong([BelongRow(g, Lead[g], TRUE, FALSE) EXCEPT !.own = TRUE])
  /\ group' = [group EXCEPT ![g] = "live"]
  /\ UNCHANGED <<syncVars, admin>>

\* POST: the identity provider creates or finds every user; nothing looks for
\* the group, whose row the foreign key wants, deleted or not.
AddMembers(a, g, users) ==
  /\ Admits(a) /\ group[g] # "none" /\ users # {}
  /\ Become(a, [AtDesk EXCEPT !.st = "select", !.op = "add", !.group = g,
                              !.listed = users, !.todo = users])
  /\ UNCHANGED <<syncVars, group, belong>>

\* PATCH: the group must be live; an empty list removes it, and no list at all
\* stands for an empty one.
UpdateMembers(a, g, users) ==
  /\ Admits(a) /\ group[g] = "live"
  /\ \E st \in {"replace", "remove"} :
       /\ st = "remove" => users = {}
       /\ Become(a, [AtDesk EXCEPT !.st = st, !.op = "update", !.group = g,
                                   !.listed = users, !.todo = users])
  /\ UNCHANGED <<syncVars, group, belong>>

\* Two soft deletes are sent together; either may fail.
RemoveGroup(a) ==
  /\ admin[a].st = "remove"
  /\ \E rows, itself \in BOOLEAN :
       /\ belong' = [n \in BelongIds |->
            IF rows /\ n \in Belongs(admin[a].group)
            THEN [belong[n] EXCEPT !.live = FALSE] ELSE belong[n]]
       /\ group' = [group EXCEPT ![admin[a].group] = IF itself THEN "deleted" ELSE @]
  /\ admin' = [admin EXCEPT ![a] = AtDesk]
  /\ UNCHANGED syncVars

\* Mutant of Dropped: the lead's row is not left out.
DroppedAny(a) ==
  {n \in Belongs(admin[a].group) : belong[n].user \notin admin[a].listed}

\* The member rows of users who are not listed any more.
Dropped(a) ==
  {n \in MemberRows(admin[a].group) : belong[n].user \notin admin[a].listed}

DropMembers(a) ==
  /\ admin[a].st = "replace"
  /\ belong' = [n \in BelongIds |->
       IF n \in Dropped(a) THEN [belong[n] EXCEPT !.live = FALSE] ELSE belong[n]]
  /\ admin' = [admin EXCEPT ![a].st =
                 IF admin[a].todo = {} THEN "done" ELSE "select"]
  /\ UNCHANGED <<syncVars, group>>

\* The row of the next user, found or not ...
SelectMember(a, u) ==
  /\ admin[a].st = "select" /\ u \in admin[a].todo
  /\ admin' = [admin EXCEPT ![a].st = "save", ![a].at = u,
                            ![a].isNew = ~member[u].there]
  /\ UNCHANGED <<syncVars, group, belong>>

\* ... and saved, without its roles.  POST saves all of them before it inserts.
SaveMember(a) ==
  LET u == admin[a].at  rest == admin[a].todo \ {u} IN
  /\ admin[a].st = "save"
  /\ ~ (admin[a].isNew /\ member[u].there)
  /\ member' = [member EXCEPT ![u].there = TRUE]
  /\ admin' = [admin EXCEPT ![a].st =
                 IF admin[a].op = "update" THEN "join"
                 ELSE IF rest = {} THEN "insert" ELSE "select",
               ![a].todo = IF admin[a].op = "update" THEN @ ELSE rest]
  /\ UNCHANGED <<sent, settled, rejected, consumer, load, group, belong>>

\* PATCH: a member row of the user, if there is one ...
FindBelong(a) ==
  LET rows == {n \in MemberRows(admin[a].group) : belong[n].user = admin[a].at} IN
  /\ admin[a].st = "join"
  /\ \E n \in IF rows = {} THEN {0} ELSE rows :
       admin' = [admin EXCEPT ![a].st = "write", ![a].row = n]
  /\ UNCHANGED <<syncVars, group, belong>>

\* ... is saved with the flags of the request, or one inserted.  The save writes
\* deletedAt too: a row that was deleted meanwhile comes back.
WriteBelong(a, isLead, isMember) ==
  LET u == admin[a].at  rest == admin[a].todo \ {u}
      row == BelongRow(admin[a].group, u, isLead, isMember)
  IN
  /\ admin[a].st = "write"
  /\ IF admin[a].row = 0 THEN InsertBelong(row)
     ELSE belong' = [belong EXCEPT ![admin[a].row] = row]
  /\ admin' = [admin EXCEPT ![a].todo = rest,
                            ![a].st = IF rest = {} THEN "done" ELSE "select",
                            ![a].row = 0,
                            ![a].marked = IF isMember THEN @ \cup {u} ELSE @]
  /\ UNCHANGED <<syncVars, group>>

\* POST: the rows of all users, with the flags of the request, sent together;
\* any of them may fail.
InsertMembers(a) ==
  /\ admin[a].st = "insert"
  /\ \E users \in SUBSET admin[a].listed :
       /\ Cardinality(Free(Cardinality(users))) = Cardinality(users)
       /\ \E row \in [Free(Cardinality(users)) -> users],
             lead, mark \in [users -> BOOLEAN] :
            /\ \A u \in users : \E n \in DOMAIN row : row[n] = u
            /\ belong' = [n \in BelongIds |->
                 IF n \in DOMAIN row
                 THEN BelongRow(admin[a].group, row[n], lead[row[n]], mark[row[n]])
                 ELSE belong[n]]
  /\ admin' = [admin EXCEPT ![a].st = "done"]
  /\ UNCHANGED <<syncVars, group>>

\* It answers, or fails at any statement (a collision among others): what it
\* did stays.
EndAdmin(a) ==
  /\ admin[a].st # "idle"
  /\ admin' = [admin EXCEPT ![a] = AtDesk]
  /\ UNCHANGED <<syncVars, group, belong>>

\* The process ends: consumers and handlers lose their variables, and what was
\* not acknowledged is delivered again.
Restart ==
  /\ consumer' = [q \in Queues |-> Waiting]
  /\ admin' = [a \in Admins |-> AtDesk]
  /\ UNCHANGED <<member, sent, settled, rejected, load, group, belong>>

GroupsNext ==
  \/ SyncStep /\ UNCHANGED <<group, belong, admin>>
  \/ \E g \in GroupIds : CreateGroup(g)
  \/ \E a \in Admins :
       \/ \E g \in GroupIds, users \in SUBSET Users :
            AddMembers(a, g, users) \/ UpdateMembers(a, g, users)
       \/ RemoveGroup(a)
       \/ DropMembers(a)
       \/ \E u \in Users : SelectMember(a, u)
       \/ SaveMember(a)
       \/ FindBelong(a)
       \/ \E isLead, isMember \in BOOLEAN : WriteBelong(a, isLead, isMember)
       \/ InsertMembers(a)
       \/ EndAdmin(a)
  \/ Restart

GroupsSpec == GroupsInit /\ [][GroupsNext]_groupVars

-----------------------------------------------------------------------------
GroupsTypeOK ==
  /\ SyncTypeOK
  /\ group \in [GroupIds -> {"none", "live", "deleted"}]
  /\ \A n \in BelongIds : belong[n].live =>
       /\ belong[n].group \in GroupIds /\ group[belong[n].group] # "none"
       /\ member[belong[n].user].there
  /\ \A a \in Admins :
       /\ admin[a].st \in {"idle", "select", "save", "join", "write", "insert",
                           "remove", "replace", "done"}
       /\ admin[a].row # 0 => /\ belong[admin[a].row].group = admin[a].group
                              /\ belong[admin[a].row].user = admin[a].at
       /\ admin[a].todo \subseteq admin[a].listed /\ admin[a].listed \subseteq Users

MembersOf(g) == {belong[n].user : n \in MemberRows(g)}

HasLead(g) == \E n \in Belongs(g) :
  belong[n].own /\ belong[n].isLead /\ belong[n].user = Lead[g]

\* An update that ran alone and gets to its end leaves as members only users it
\* lists, and all of those whom it lists as members, whatever earlier handlers
\* did half.  (Not exactly those: of a user with two rows, one is saved.)  And
\* only the removal of a group takes away or changes the row its lead got with
\* it, without which its members cannot create requests: updates and additions
\* that overlap in any way, with any flags, do not.
UpdateSetsMembers ==
  [][ /\ \A a \in Admins :
           (/\ Busy(a) /\ admin[a].op = "update" /\ admin[a].alone
            /\ admin'[a].st = "done") =>
             /\ admin'[a].marked \subseteq MembersOf(admin[a].group)'
             /\ MembersOf(admin[a].group)' \subseteq admin[a].listed
      /\ \A g \in GroupIds : HasLead(g) /\ ~HasLead(g)' =>
           \E a \in Admins : admin[a].st = "remove" /\ admin[a].group = g ]_groupVars
=============================================================================
