---------------------------- MODULE GroupsProofs ----------------------------
(***************************************************************************)
(* Members and groups: roles arrive in order, updates of a group set its   *)
(* members and leave its lead, and rows refer to rows that are there, for  *)
(* any number of users, roles, messages, groups and handlers.              *)
(***************************************************************************)
EXTENDS Groups, TLAPS

\* The records of the tables, the consumers and the handlers.
MemberFields == {"there", "roles"}
ConsumerFields == {"st", "isNew"}
BelongFields == {"group", "user", "isLead", "isMember", "live", "own"}
AdminFields == {"st", "op", "group", "listed", "todo", "at", "isNew", "row", "marked",
                "alone"}

IsMemberRow(m) == m = [f \in MemberFields |-> m[f]]
IsConsumer(m) == m = [f \in ConsumerFields |-> m[f]]
IsBelongRow(m) == m = [f \in BelongFields |-> m[f]]
IsAdmin(m) == m = [f \in AdminFields |-> m[f]]

-----------------------------------------------------------------------------
(* The queues.                                                             *)

\* A member's row, and what a queue and its consumer have come to.
MemberOK(u) ==
  /\ IsMemberRow(member[u])
  /\ member[u].there \in BOOLEAN
  /\ member[u].roles \subseteq SeededRoles
  /\ ~member[u].there => member[u].roles = {}

QueueOK(q) ==
  /\ sent[q] \in Seq(Message)
  /\ Len(sent[q]) <= load[q]
  /\ settled[q] \in Nat /\ settled[q] <= Len(sent[q])
  /\ rejected[q] \subseteq 1..settled[q]
  /\ IsConsumer(consumer[q])
  /\ consumer[q].st \in {"waiting", "saving", "saved"}
  /\ consumer[q].st # "waiting" => settled[q] < Len(sent[q])

SyncInv ==
  /\ load \in Loads
  /\ member = [u \in Users |-> member[u]]
  /\ sent = [q \in Queues |-> sent[q]]
  /\ settled = [q \in Queues |-> settled[q]]
  /\ rejected = [q \in Queues |-> rejected[q]]
  /\ consumer = [q \in Queues |-> consumer[q]]
  /\ \A u \in Users : MemberOK(u)
  /\ \A q \in Queues : QueueOK(q)

\* The lists of roles of a member that were acknowledged, and those that have
\* been in the consumer's hands.
Accepted(u) == Lists(u, settled["role"]) \ rejected["role"]
Handled(u) == Lists(u, Len(sent["role"])) \cap 1..settled["role"] + 1

Arrived(u) ==
  \/ \E i \in Handled(u) : /\ \A j \in Accepted(u) : j <= i
                           /\ member[u].roles = sent["role"][i].roles \cap SeededRoles
  \/ Accepted(u) = {} /\ member[u].roles = {}

\* Also between the save and the acknowledgement, when the given list is there.
RolesInv ==
  /\ \A u \in Users : Arrived(u)
  /\ consumer["role"].st = "saved" /\ Given("role").listed =>
       member[Given("role").user].roles = Given("role").roles \cap SeededRoles

-----------------------------------------------------------------------------
\* A row is saved without its roles.
LEMMA RowIsThere ==
  ASSUME SyncInv, NEW u, member' = [member EXCEPT ![u].there = TRUE]
  PROVE  /\ member' = [x \in Users |-> member'[x]]
         /\ \A x \in Users : /\ MemberOK(x)'
                             /\ member'[x].roles = member[x].roles
                             /\ member'[x].there = TRUE \/ member'[x] = member[x]
         /\ u \in Users => member'[u].there = TRUE
<1>1. member' = [x \in Users |-> IF x = u THEN [member[x] EXCEPT !.there = TRUE]
                                 ELSE member[x]]
  BY DEF SyncInv
<1>2. ASSUME NEW x \in Users
      PROVE  LET m == [member[x] EXCEPT !.there = TRUE]
             IN  IsMemberRow(m) /\ m.there = TRUE /\ m.roles = member[x].roles
  BY DEF SyncInv, MemberOK, IsMemberRow, MemberFields
<1>3. \A x \in Users : /\ IsMemberRow(member'[x])
                       /\ member'[x].roles = member[x].roles
                       /\ member'[x].there = TRUE \/ member'[x] = member[x]
  BY <1>1, <1>2 DEF SyncInv, MemberOK
<1>4. \A x \in Users : MemberOK(x)'
  BY <1>3 DEF SyncInv, MemberOK, IsMemberRow, MemberFields
<1> QED  BY <1>1, <1>2, <1>3, <1>4

\* What has arrived stays while no list is accepted.
LEMMA ArrivedStays ==
  ASSUME NEW u, Arrived(u), member'[u].roles = member[u].roles,
         Accepted(u)' \subseteq Accepted(u), Handled(u) \subseteq Handled(u)',
         \A i \in Handled(u) : sent'["role"][i] = sent["role"][i]
  PROVE  Arrived(u)'
  BY DEF Arrived

\* A step that leaves the queue of roles and what it was given alone.
LEMMA RolesStay ==
  ASSUME RolesInv, SyncInv, sent' = sent, settled' = settled, rejected' = rejected,
         \/ consumer'["role"] = consumer["role"]
         \/ consumer'["role"].st # "saved",
         \A u \in Users : member'[u].roles = member[u].roles
  PROVE  RolesInv'
<1>1. \A u \in Users : Arrived(u)'
  BY ArrivedStays DEF RolesInv, Accepted, Handled, Lists
<1>2. consumer["role"].st = "saved" => Given("role").user \in Users
  <2>1. consumer["role"].st = "saved" => sent["role"][settled["role"] + 1] \in Message
    BY DEF SyncInv, QueueOK, Queues
  <2> QED  BY <2>1 DEF Given, Message
<1> QED  BY <1>1, <1>2 DEF RolesInv, Given

-----------------------------------------------------------------------------
LEMMA QueuesBegin == SyncInit => SyncInv /\ RolesInv
<1> SUFFICES ASSUME SyncInit PROVE SyncInv /\ RolesInv
  OBVIOUS
<1>1. \A u \in Users : MemberOK(u)
  BY DEF SyncInit, MemberOK, IsMemberRow, MemberFields
<1>2. \A q \in Queues : QueueOK(q)
  BY SyncAssumption DEF SyncInit, QueueOK, Queues, IsConsumer, ConsumerFields, Waiting
<1>3. \A u \in Users : Accepted(u) = {} /\ member[u].roles = {}
  BY DEF SyncInit, Accepted, Lists, Queues
<1>4. consumer["role"].st # "saved"
  BY DEF SyncInit, Waiting, Queues
<1>5. RolesInv
  BY <1>3, <1>4 DEF RolesInv, Arrived
<1> QED  BY <1>1, <1>2, <1>5 DEF SyncInit, SyncInv

\* A message is published.
LEMMA PublishKeeps ==
  ASSUME SyncInv, RolesInv, NEW q \in Queues, NEW m \in Messages(q), Publish(q, m)
  PROVE  SyncInv' /\ RolesInv'
<1>1. /\ sent' = [o \in Queues |-> IF o = q THEN Append(sent[o], m) ELSE sent[o]]
      /\ Len(sent[q]) < load[q]
      /\ UNCHANGED <<member, settled, rejected, consumer, load>>
  BY DEF Publish, SyncInv
<1>2. m \in Message
  BY DEF Messages
<1>3. \A o \in Queues : load[o] \in Nat
  BY SyncAssumption DEF SyncInv, Queues
<1>4. \A o \in Queues : QueueOK(o)'
  BY <1>1, <1>2, <1>3 DEF SyncInv, QueueOK, IsConsumer
<1>5. SyncInv'
  BY <1>1, <1>4 DEF SyncInv, MemberOK, IsMemberRow
<1>6. /\ sent["role"] \in Seq(Message) /\ settled["role"] \in Nat
      /\ settled["role"] <= Len(sent["role"])
      /\ consumer["role"].st # "waiting" => settled["role"] < Len(sent["role"])
  BY DEF SyncInv, QueueOK, Queues
<1>7. /\ Len(sent'["role"]) >= Len(sent["role"]) /\ Len(sent'["role"]) \in Nat
      /\ \A i \in 1..Len(sent["role"]) : sent'["role"][i] = sent["role"][i]
  BY <1>1, <1>2, <1>6 DEF Queues
<1>8. \A u \in Users : Arrived(u)'
  <2> SUFFICES ASSUME NEW u \in Users PROVE Arrived(u)'
    OBVIOUS
  <2>1. Accepted(u)' = Accepted(u)
    <3>1. \A i \in 1..settled["role"] : sent'["role"][i] = sent["role"][i]
      BY <1>6, <1>7
    <3>2. Lists(u, settled["role"])' = Lists(u, settled["role"])
      BY <1>1, <3>1 DEF Lists
    <3> QED  BY <1>1, <3>2 DEF Accepted
  <2>2. Handled(u) \subseteq Handled(u)'
    BY <1>1, <1>6, <1>7 DEF Handled, Lists
  <2>3. \A i \in Handled(u) : sent'["role"][i] = sent["role"][i]
    BY <1>6, <1>7 DEF Handled, Lists
  <2> QED  BY <1>1, <2>1, <2>2, <2>3, ArrivedStays DEF RolesInv
<1>9. consumer["role"].st = "saved" => Given("role")' = Given("role")
  <2>1. consumer["role"].st = "saved" => settled["role"] + 1 \in 1..Len(sent["role"])
    BY <1>6
  <2> QED  BY <1>1, <1>7, <2>1 DEF Given
<1> QED  BY <1>1, <1>5, <1>8, <1>9 DEF RolesInv

\* A consumer is given a message, or done with it.
LEMMA DeliverKeeps ==
  ASSUME SyncInv, RolesInv, NEW q \in Queues, Deliver(q)
  PROVE  SyncInv' /\ RolesInv'
<1> DEFINE next == [st |-> "saving", isNew |-> ~member[Given(q).user].there]
<1>1. consumer' = [o \in Queues |-> IF o = q THEN next ELSE consumer[o]]
  BY DEF Deliver, SyncInv
<1>2. IsConsumer(next) /\ next.st = "saving"
  BY DEF IsConsumer, ConsumerFields
<1> HIDE DEF next
<1>3. /\ UNCHANGED <<member, sent, settled, rejected, load>>
      /\ settled[q] < Len(sent[q])
  BY DEF Deliver
<1>4. \A o \in Queues : QueueOK(o)'
  BY <1>1, <1>2, <1>3 DEF SyncInv, QueueOK, IsConsumer
<1>5. SyncInv'
  BY <1>1, <1>3, <1>4 DEF SyncInv, MemberOK, IsMemberRow
<1>6. consumer'["role"] = consumer["role"] \/ consumer'["role"].st # "saved"
  BY <1>1, <1>2 DEF Queues
<1> QED  BY <1>3, <1>5, <1>6, RolesStay

\* A message is settled: accepted when it was saved, or rejected.
LEMMA SettleKeeps ==
  ASSUME SyncInv, RolesInv, NEW q \in Queues, Settle(q),
         \/ consumer[q].st = "saved" /\ rejected' = rejected
         \/ /\ consumer[q].st = "saving"
            /\ rejected' = [rejected EXCEPT ![q] = @ \cup {settled[q] + 1}]
  PROVE  SyncInv' /\ RolesInv'
<1>1. /\ settled' = [o \in Queues |-> IF o = q THEN settled[o] + 1 ELSE settled[o]]
      /\ consumer' = [o \in Queues |-> IF o = q THEN Waiting ELSE consumer[o]]
      /\ UNCHANGED <<member, sent, load>>
  BY DEF Settle, SyncInv
<1>2. IsConsumer(Waiting) /\ Waiting.st = "waiting"
  BY DEF IsConsumer, ConsumerFields, Waiting
<1>3. /\ rejected' = [o \in Queues |-> rejected'[o]]
      /\ \A o \in Queues : o # q => rejected'[o] = rejected[o]
      /\ \/ consumer[q].st = "saved" /\ rejected'[q] = rejected[q]
         \/ rejected'[q] = rejected[q] \cup {settled[q] + 1}
  BY DEF SyncInv
<1>4. \A o \in Queues : QueueOK(o)'
  <2>1. QueueOK(q)'
    <3>1. /\ settled[q] \in Nat /\ settled[q] < Len(sent[q]) /\ Len(sent[q]) \in Nat
          /\ rejected[q] \subseteq 1..settled[q]
      BY DEF SyncInv, QueueOK
    <3>2. rejected'[q] \subseteq 1..settled[q] + 1
      BY <1>3, <3>1
    <3> QED  BY <1>1, <1>2, <3>1, <3>2 DEF SyncInv, QueueOK, IsConsumer
  <2>2. ASSUME NEW o \in Queues, o # q PROVE QueueOK(o)'
    BY <1>1, <1>3, <2>2 DEF SyncInv, QueueOK, IsConsumer
  <2> QED  BY <2>1, <2>2
<1>5. SyncInv'
  BY <1>1, <1>3, <1>4 DEF SyncInv, MemberOK, IsMemberRow
<1>6. CASE q # "role"
  <2>1. /\ settled'["role"] = settled["role"] /\ rejected'["role"] = rejected["role"]
        /\ consumer'["role"] = consumer["role"]
    BY <1>1, <1>3, <1>6 DEF Queues
  <2>2. \A u \in Users : Arrived(u)'
    BY <1>1, <2>1, ArrivedStays DEF RolesInv, Accepted, Handled, Lists
  <2> QED  BY <1>1, <1>5, <2>1, <2>2 DEF RolesInv, Given
<1>7. CASE q = "role"
  <2> DEFINE s == settled["role"]
  <2>1. /\ s \in Nat /\ s < Len(sent["role"]) /\ Len(sent["role"]) \in Nat
        /\ settled'["role"] = s + 1
    BY <1>1, <1>7 DEF SyncInv, QueueOK, Queues
  <2>2. \A u \in Users : Handled(u) \subseteq Handled(u)'
    BY <1>1, <2>1 DEF Handled, Lists
  <2>3. \A u \in Users : Accepted(u)' \subseteq Accepted(u) \cup {s + 1}
    BY <1>1, <1>3, <1>7, <2>1 DEF Accepted, Lists
  <2>4. \A u \in Users : s + 1 \in Accepted(u)' =>
          consumer["role"].st = "saved" /\ Given("role").user = u /\ Given("role").listed
    BY <1>1, <1>3, <1>7, <2>1 DEF Accepted, Lists, Given
  <2>5. ASSUME NEW u \in Users PROVE Arrived(u)'
    <3>1. CASE s + 1 \notin Accepted(u)'
      BY <1>1, <2>2, <2>3, <3>1, ArrivedStays DEF RolesInv
    <3>2. CASE s + 1 \in Accepted(u)'
      <4>1. s + 1 \in Handled(u)'
        BY <1>1, <2>1, <3>2 DEF Handled, Accepted, Lists
      <4>2. \A j \in Accepted(u)' : j <= s + 1
        BY <2>1 DEF Accepted, Lists
      <4>3. member'[u].roles = sent'["role"][s + 1].roles \cap SeededRoles
        BY <1>1, <2>4, <3>2 DEF RolesInv, Given
      <4> QED  BY <4>1, <4>2, <4>3 DEF Arrived
    <3> QED  BY <3>1, <3>2
  <2>6. consumer'["role"].st # "saved"
    BY <1>1, <1>2, <1>7
  <2> QED  BY <1>5, <2>5, <2>6 DEF RolesInv
<1> QED  BY <1>6, <1>7

\* A new user is saved.
LEMMA SaveUserKeeps ==
  ASSUME SyncInv, RolesInv, SaveUser
  PROVE  SyncInv' /\ RolesInv'
<1> DEFINE next == [consumer["user"] EXCEPT !.st = "saved"]
<1>1. /\ consumer' = [o \in Queues |-> IF o = "user" THEN next ELSE consumer[o]]
      /\ UNCHANGED <<sent, settled, rejected, load>>
      /\ consumer["user"].st = "saving"
  BY DEF SaveUser, SyncInv
<1>2. IsConsumer(next) /\ next.st = "saved"
  BY DEF SyncInv, QueueOK, Queues, IsConsumer, ConsumerFields
<1> HIDE DEF next
<1>3. /\ member' = [x \in Users |-> member'[x]]
      /\ \A x \in Users : MemberOK(x)' /\ member'[x].roles = member[x].roles
  BY RowIsThere DEF SaveUser
<1>4. \A o \in Queues : QueueOK(o)'
  BY <1>1, <1>2 DEF SyncInv, QueueOK, IsConsumer
<1>5. SyncInv'
  BY <1>1, <1>3, <1>4 DEF SyncInv
<1>6. consumer'["role"] = consumer["role"]
  BY <1>1 DEF Queues
<1> QED  BY <1>1, <1>3, <1>5, <1>6, RolesStay

\* The roles of a member are saved.
LEMMA SaveRolesKeeps ==
  ASSUME SyncInv, RolesInv, SaveRoles
  PROVE  SyncInv' /\ RolesInv'
<1>a. PICK m : m = Given("role")
  OBVIOUS
<1>b. PICK roles : roles = RolesAfter(m)
  OBVIOUS
<1>c. PICK saved : saved = [there |-> TRUE, roles |-> roles]
  OBVIOUS
<1>d. PICK next : next = [consumer["role"] EXCEPT !.st = "saved"]
  OBVIOUS
<1>e. PICK s : s = settled["role"]
  OBVIOUS
<1>1. /\ s \in Nat /\ s < Len(sent["role"]) /\ sent["role"] \in Seq(Message)
      /\ consumer["role"].st = "saving" /\ m = sent["role"][s + 1] /\ m \in Message
  BY <1>a, <1>e DEF SaveRoles, SyncInv, QueueOK, Queues, Given
<1>2. /\ consumer' = [o \in Queues |-> IF o = "role" THEN next ELSE consumer[o]]
      /\ member' = [x \in Users |-> IF x = m.user THEN saved ELSE member[x]]
      /\ UNCHANGED <<sent, settled, rejected, load>>
  BY <1>a, <1>b, <1>c, <1>d DEF SaveRoles, SyncInv
<1>3. IsConsumer(next) /\ next.st = "saved"
  BY <1>d DEF SyncInv, QueueOK, Queues, IsConsumer, ConsumerFields
<1>4. IsMemberRow(saved) /\ saved.there = TRUE /\ saved.roles = roles
  BY <1>c DEF IsMemberRow, MemberFields
<1>5. /\ m.user \in Users
      /\ m.listed => roles = m.roles \cap SeededRoles
      /\ ~m.listed => roles = member[m.user].roles
  BY <1>1, <1>b DEF Message, RolesAfter
<1>6. roles \subseteq SeededRoles
  BY <1>5 DEF SyncInv, MemberOK
<1>7. \A o \in Queues : QueueOK(o)'
  BY <1>1, <1>e, <1>2, <1>3 DEF SyncInv, QueueOK, IsConsumer
<1>8. \A x \in Users : MemberOK(x)'
  BY <1>2, <1>4, <1>6 DEF SyncInv, MemberOK, IsMemberRow
<1>9. SyncInv'
  BY <1>2, <1>7, <1>8 DEF SyncInv
<1>10. \A u \in Users : /\ Accepted(u)' = Accepted(u) /\ Handled(u)' = Handled(u)
                        /\ \A j \in Accepted(u) : j \in Nat /\ j <= s
  BY <1>1, <1>2, <1>e DEF Accepted, Handled, Lists
<1>11. ASSUME NEW u \in Users PROVE Arrived(u)'
  <2>1. CASE u = m.user /\ m.listed
    <3>1. s + 1 \in Handled(u)
      BY <1>1, <1>e, <2>1 DEF Handled, Lists
    <3>2. \A j \in Accepted(u) : j <= s + 1
      BY <1>1, <1>10
    <3>3. member'[u].roles = sent'["role"][s + 1].roles \cap SeededRoles
      BY <1>1, <1>2, <1>4, <1>5, <2>1
    <3> QED  BY <1>10, <3>1, <3>2, <3>3 DEF Arrived
  <2>2. CASE ~ (u = m.user /\ m.listed)
    <3>1. member'[u].roles = member[u].roles
      BY <1>2, <1>4, <1>5, <2>2
    <3> QED  BY <1>2, <1>10, <3>1, ArrivedStays DEF RolesInv
  <2> QED  BY <2>1, <2>2
<1>12. Given("role")' = m
  BY <1>2, <1>a DEF Given
<1>13. m.listed => member'[m.user].roles = m.roles \cap SeededRoles
  BY <1>2, <1>4, <1>5
<1> QED  BY <1>9, <1>11, <1>12, <1>13 DEF RolesInv

\* A step of the queues or the consumers.
LEMMA SyncStepKeeps ==
  ASSUME SyncInv, RolesInv, SyncStep
  PROVE  SyncInv' /\ RolesInv'
<1>1. CASE \E q \in Queues : \E m \in Messages(q) : Publish(q, m)
  BY <1>1, PublishKeeps
<1>2. CASE \E q \in Queues : Deliver(q)
  BY <1>2, DeliverKeeps
<1>3. CASE \E q \in Queues : Acknowledge(q)
  BY <1>3, SettleKeeps DEF Acknowledge
<1>4. CASE \E q \in Queues : Reject(q)
  BY <1>4, SettleKeeps DEF Reject
<1>5. CASE SaveUser
  BY <1>5, SaveUserKeeps
<1>6. CASE SaveRoles
  BY <1>6, SaveRolesKeeps
<1> QED  BY <1>1, <1>2, <1>3, <1>4, <1>5, <1>6 DEF SyncStep

-----------------------------------------------------------------------------
(* The groups.                                                             *)

\* A row refers to what is there, and no row made with its group is a member's.
RowOK(r) ==
  /\ IsBelongRow(r)
  /\ r.live => /\ r.group \in GroupIds /\ group[r.group] # "none"
               /\ r.user \in Users /\ member[r.user].there
  /\ r.own \in BOOLEAN /\ (r.own => ~r.isMember)

\* Who was saved is there before the rows that refer to it are inserted; and
\* the row that is held is a row of the one who is saved.
AdminOK(m) ==
  /\ IsAdmin(m)
  /\ m.st \in {"idle", "select", "save", "join", "write", "insert", "remove", "replace",
               "done"}
  /\ m.listed \subseteq Users /\ m.todo \subseteq m.listed
  /\ m.st # "idle" => m.group \in GroupIds /\ group[m.group] # "none"
  /\ m.st = "replace" => m.todo = m.listed
  /\ m.st \in {"save", "join", "write"} => m.at \in m.todo
  /\ m.st \in {"join", "write"} => m.op = "update" /\ member[m.at].there
  /\ m.row # 0 => /\ m.st = "write" /\ m.row \in BelongIds
                  /\ belong[m.row].group = m.group /\ belong[m.row].user = m.at
                  /\ ~belong[m.row].own
  /\ m.st = "insert" => m.op # "update" /\ \A u \in m.listed : member[u].there
  /\ m.st \in {"select", "save"} /\ m.op # "update" =>
       \A u \in m.listed \ m.todo : member[u].there
  /\ m.st = "replace" => m.marked = {}
  /\ m.marked \subseteq m.listed \ m.todo

\* The members so far, when nobody else was at work.
Joined(m) ==
  m.op = "update" /\ m.st \in {"select", "save", "join", "write"} /\ m.alone =>
    /\ \A n \in MemberRows(m.group) : belong[n].user \in m.listed
    /\ \A u \in m.marked : \E n \in MemberRows(m.group) : belong[n].user = u

GroupsInv ==
  /\ group = [g \in GroupIds |-> group[g]]
  /\ \A g \in GroupIds : group[g] \in {"none", "live", "deleted"}
  /\ belong = [n \in BelongIds |-> belong[n]]
  /\ \A n \in BelongIds : RowOK(belong[n])
  /\ admin = [a \in Admins |-> admin[a]]
  /\ \A a \in Admins : AdminOK(admin[a]) /\ Joined(admin[a])
  /\ \A a, b \in Admins : Busy(a) /\ Busy(b) /\ admin[a].alone => a = b

\* Neither a member's row nor a group's is ever taken away, and a membership is
\* always of the same user in the same group.
Lasting ==
  /\ \A u \in Users : member[u].there => member'[u].there
  /\ \A g \in GroupIds : group[g] # "none" => group'[g] # "none"
  /\ \A n \in BelongIds : belong[n].group \in GroupIds =>
       /\ belong'[n].group = belong[n].group /\ belong'[n].user = belong[n].user
       /\ belong'[n].own = belong[n].own

LEMMA RowsLast ==
  ASSUME Lasting, NEW r, RowOK(r)
  PROVE  RowOK(r)'
  BY DEF Lasting, RowOK, IsBelongRow

LEMMA HandlersLast ==
  ASSUME Lasting, NEW m, AdminOK(m)
  PROVE  AdminOK(m)'
<1>1. m.at \in Users \/ m.st \notin {"join", "write"}
  BY DEF AdminOK
<1>2. \A u \in m.listed : u \in Users
  BY DEF AdminOK
<1>3. m.row # 0 => /\ belong'[m.row].group = m.group /\ belong'[m.row].user = m.at
                   /\ ~belong'[m.row].own
  BY DEF Lasting, AdminOK
<1> QED  BY <1>1, <1>2, <1>3 DEF Lasting, AdminOK, IsAdmin

\* A step of a handler.
LEMMA HandlerStep ==
  ASSUME GroupsInv, Lasting, NEW a \in Admins, NEW next,
         admin' = [admin EXCEPT ![a] = next],
         AdminOK(next)', Joined(next)',
         \/ Busy(a) /\ next.alone = admin[a].alone
         \/ next.st = "idle" /\ belong' = belong
         \/ next.st = "idle" /\ Busy(a),
         group' = [g \in GroupIds |-> group'[g]],
         \A g \in GroupIds : group'[g] \in {"none", "live", "deleted"},
         belong' = [n \in BelongIds |-> belong'[n]],
         \A n \in BelongIds : RowOK(belong[n])'
  PROVE  GroupsInv'
<1>1. admin' = [b \in Admins |-> IF b = a THEN next ELSE admin[b]]
  BY DEF GroupsInv
<1>2. \A b \in Admins : AdminOK(admin[b])'
  BY <1>1, HandlersLast DEF GroupsInv
<1>3. ASSUME NEW b \in Admins PROVE Joined(admin[b])'
  <2>1. CASE b = a
    BY <1>1, <2>1
  <2>2. CASE b # a
    <3>1. PICK m : m = admin[b]
      OBVIOUS
    <3>2. m = admin'[b] /\ Joined(m)
      BY <1>1, <2>2, <3>1 DEF GroupsInv
    <3>3. CASE Busy(a) /\ Busy(b)
      <4>1. ~m.alone
        BY <2>2, <3>1, <3>3 DEF GroupsInv
      <4> QED  BY <3>2, <4>1 DEF Joined
    <3>4. CASE ~Busy(b)
      <4>1. m.st \notin {"select", "save", "join", "write"}
        BY <3>1, <3>4 DEF Busy
      <4> QED  BY <3>2, <4>1 DEF Joined
    <3>5. CASE belong' = belong
      BY <3>2, <3>5 DEF Joined, MemberRows, Belongs
    <3> QED  BY <3>3, <3>4, <3>5
  <2> QED  BY <2>1, <2>2
<1>4. \A b, c \in Admins : (Busy(b) /\ Busy(c))' /\ admin'[b].alone => b = c
  BY <1>1 DEF GroupsInv, Busy
<1> QED  BY <1>1, <1>2, <1>3, <1>4 DEF GroupsInv

\* A handler begins: whoever is at work is not alone any more.
LEMMA BeginStep ==
  ASSUME GroupsInv, NEW a \in Admins, NEW record, IsAdmin(record),
         admin[a].st = "idle", Become(a, record),
         record.op = "update" => record.st \notin {"select", "save", "join", "write"},
         \A flag \in BOOLEAN : AdminOK([record EXCEPT !.alone = flag]),
         UNCHANGED <<member, group, belong>>
  PROVE  GroupsInv'
<1>a. PICK alone \in BOOLEAN : alone = ~ \E c \in Admins \ {a} : Busy(c)
  OBVIOUS
<1>b. PICK next : next = [record EXCEPT !.alone = alone]
  OBVIOUS
<1>1. admin' = [b \in Admins |-> IF b = a THEN next
                  ELSE IF Busy(b) THEN [admin[b] EXCEPT !.alone = FALSE] ELSE admin[b]]
  BY <1>a, <1>b DEF Become
<1>2. /\ AdminOK(next) /\ next.alone = alone
      /\ next.op = "update" => next.st \notin {"select", "save", "join", "write"}
  BY <1>b DEF IsAdmin, AdminFields
<1>3. ASSUME NEW b \in Admins, b # a
      PROVE  /\ AdminOK(admin'[b]) /\ Joined(admin'[b])
             /\ Busy(b)' <=> Busy(b)
             /\ Busy(b) => admin'[b].alone = FALSE
  <2>1. CASE Busy(b)
    <3>1. PICK m : m = [admin[b] EXCEPT !.alone = FALSE]
      OBVIOUS
    <3>2. /\ IsAdmin(m) /\ m.alone = FALSE /\ m.st = admin[b].st /\ m.op = admin[b].op
          /\ m.group = admin[b].group /\ m.listed = admin[b].listed
          /\ m.todo = admin[b].todo /\ m.at = admin[b].at /\ m.row = admin[b].row
          /\ m.marked = admin[b].marked
      BY <3>1 DEF GroupsInv, AdminOK, IsAdmin, AdminFields
    <3>2a. AdminOK(m)
      BY <3>2 DEF GroupsInv, AdminOK
    <3>3. admin'[b] = m
      BY <1>1, <1>3, <2>1, <3>1
    <3> QED  BY <2>1, <3>2, <3>2a, <3>3 DEF Joined, Busy
  <2>2. CASE ~Busy(b)
    BY <1>1, <1>3, <2>2 DEF GroupsInv, Busy
  <2> QED  BY <2>1, <2>2
<1>4. \A b \in Admins : AdminOK(admin[b])'
  <2>1. \A b \in Admins : AdminOK(admin'[b])
    BY <1>1, <1>2, <1>3
  <2> QED  BY <2>1 DEF AdminOK
<1>5. \A b \in Admins : Joined(admin[b])'
  <2>1. \A b \in Admins : Joined(admin'[b])
    BY <1>1, <1>2, <1>3 DEF Joined
  <2> QED  BY <2>1 DEF Joined, MemberRows, Belongs
<1>6. ASSUME NEW b \in Admins, NEW c \in Admins, Busy(b)', Busy(c)', admin'[b].alone
      PROVE  b = c
  <2>1. CASE b = a
    BY <1>1, <1>2, <1>3, <1>6, <1>a, <2>1
  <2>2. CASE b # a
    BY <1>3, <1>6, <2>2
  <2> QED  BY <2>1, <2>2
<1>7. \A n \in BelongIds : RowOK(belong[n])'
  BY DEF GroupsInv, RowOK, IsBelongRow
<1> QED  BY <1>1, <1>4, <1>5, <1>6, <1>7 DEF GroupsInv

\* A step of no handler that leaves the rows of the members alone.
LEMMA OutsideStep ==
  ASSUME GroupsInv, Lasting, admin' = admin,
         group' = [g \in GroupIds |-> group'[g]],
         \A g \in GroupIds : group'[g] \in {"none", "live", "deleted"},
         belong' = [n \in BelongIds |-> belong'[n]],
         \A n \in BelongIds : RowOK(belong[n])',
         \A g : MemberRows(g)' = MemberRows(g),
         \A g : \A n \in MemberRows(g) : belong'[n].user = belong[n].user
  PROVE  GroupsInv'
<1>1. \A a \in Admins : AdminOK(admin[a])'
  BY HandlersLast DEF GroupsInv
<1>2. \A a \in Admins : Joined(admin[a])'
  <2> SUFFICES ASSUME NEW a \in Admins PROVE Joined(admin[a])'
    OBVIOUS
  <2>1. PICK m : m = admin[a]
    OBVIOUS
  <2>2. Joined(m)
    BY <2>1 DEF GroupsInv
  <2> QED  BY <2>1, <2>2 DEF Joined
<1> QED  BY <1>1, <1>2 DEF GroupsInv, Busy

-----------------------------------------------------------------------------
\* A row is inserted where there was none.
LEMMA RowIsInserted ==
  ASSUME GroupsInv, NEW row, IsBelongRow(row), InsertBelong(row)
  PROVE  \E n \in BelongIds :
           /\ belong[n] = NoBelong
           /\ belong' = [o \in BelongIds |-> IF o = n THEN row ELSE belong[o]]
           /\ \A o \in BelongIds : belong[o].group \in GroupIds => belong'[o] = belong[o]
<1>1. PICK n \in BelongIds :
        /\ belong[n] = NoBelong
        /\ belong' = [o \in BelongIds |-> IF o = n THEN row ELSE belong[o]]
  BY DEF InsertBelong, Free, GroupsInv
<1>2. NoBelong.group \notin GroupIds
  BY GroupAssumption DEF NoBelong
<1> QED  BY <1>1, <1>2

LEMMA GroupsBegin == GroupsInit => GroupsInv
<1> SUFFICES ASSUME GroupsInit PROVE GroupsInv
  OBVIOUS
<1>1. RowOK(NoBelong)
  BY DEF RowOK, IsBelongRow, BelongFields, NoBelong
<1>2. AdminOK(AtDesk) /\ Joined(AtDesk) /\ AtDesk.st = "idle"
  BY DEF AdminOK, IsAdmin, AdminFields, AtDesk, Joined
<1> QED  BY <1>1, <1>2 DEF GroupsInit, GroupsInv, Busy

LEMMA QueuesLast ==
  ASSUME SyncInv, SyncStep
  PROVE  \A u \in Users : member[u].there => member'[u].there
<1>1. CASE SaveUser
  BY <1>1, RowIsThere DEF SaveUser
<1>2. CASE SaveRoles
  BY <1>2 DEF SaveRoles, SyncInv
<1>3. CASE ~SaveUser /\ ~SaveRoles
  BY <1>3 DEF SyncStep, Publish, Deliver, Acknowledge, Reject, Settle
<1> QED  BY <1>1, <1>2, <1>3

LEMMA CreateGroupKeeps ==
  ASSUME GroupsInv, SyncInv, NEW g \in GroupIds, CreateGroup(g)
  PROVE  GroupsInv'
<1>1. /\ group[g] = "none" /\ member[Lead[g]].there
      /\ group' = [h \in GroupIds |-> IF h = g THEN "live" ELSE group[h]]
      /\ UNCHANGED <<member, admin>>
  BY DEF CreateGroup, GroupsInv, syncVars
<1>2. PICK row : row = [BelongRow(g, Lead[g], TRUE, FALSE) EXCEPT !.own = TRUE]
  OBVIOUS
<1>3. /\ IsBelongRow(row) /\ row.group = g /\ row.user = Lead[g] /\ row.isMember = FALSE
      /\ row.own = TRUE
  BY <1>2 DEF BelongRow, IsBelongRow, BelongFields
<1>4. PICK n \in BelongIds :
        /\ belong[n] = NoBelong
        /\ belong' = [o \in BelongIds |-> IF o = n THEN row ELSE belong[o]]
        /\ \A o \in BelongIds : belong[o].group \in GroupIds => belong'[o] = belong[o]
  <2>1. InsertBelong(row)
    BY <1>2 DEF CreateGroup
  <2> QED  BY <1>3, <2>1, RowIsInserted
<1>5. Lasting
  BY <1>1, <1>4 DEF Lasting
<1>6. RowOK(row)'
  BY <1>1, <1>3, GroupAssumption DEF RowOK, IsBelongRow
<1>7. \A o \in BelongIds : RowOK(belong[o])'
  <2> SUFFICES ASSUME NEW o \in BelongIds PROVE RowOK(belong[o])'
    OBVIOUS
  <2>1. PICK r : r = belong[o]
    OBVIOUS
  <2>2. RowOK(r)'
    BY <1>5, <2>1, RowsLast DEF GroupsInv
  <2> QED  BY <1>4, <1>6, <2>1, <2>2
<1>8. NoBelong.isMember = FALSE
  BY DEF NoBelong
<1>9. /\ \A h : MemberRows(h)' = MemberRows(h)
      /\ \A h : \A o \in MemberRows(h) : belong'[o].user = belong[o].user
  BY <1>3, <1>4, <1>8 DEF MemberRows, Belongs
<1> QED  BY <1>1, <1>4, <1>5, <1>7, <1>9, OutsideStep DEF GroupsInv

-----------------------------------------------------------------------------
(* The steps of the handlers.                                              *)

\* A handler is done, or fails, at any of its statements.
LEMMA EndAdminKeeps ==
  ASSUME GroupsInv, NEW a \in Admins, EndAdmin(a)
  PROVE  GroupsInv'
<1>1. admin' = [admin EXCEPT ![a] = AtDesk] /\ UNCHANGED <<member, group, belong>>
  BY DEF EndAdmin, syncVars
<1>2. /\ AdminOK(AtDesk)' /\ Joined(AtDesk)' /\ AtDesk.st = "idle"
  BY DEF AdminOK, IsAdmin, AdminFields, AtDesk, Joined
<1>3. Lasting
  BY <1>1 DEF Lasting
<1>4. \A n \in BelongIds : RowOK(belong[n])'
  BY <1>1 DEF GroupsInv, RowOK, IsBelongRow
<1> QED  BY <1>1, <1>2, <1>3, <1>4, HandlerStep DEF GroupsInv

\* The process ends.
LEMMA RestartKeeps ==
  ASSUME GroupsInv, Restart
  PROVE  GroupsInv'
<1>1. AdminOK(AtDesk)' /\ Joined(AtDesk)' /\ AtDesk.st = "idle"
  BY DEF AdminOK, IsAdmin, AdminFields, AtDesk, Joined
<1>2. admin' = [a \in Admins |-> AtDesk] /\ UNCHANGED <<member, group, belong>>
  BY DEF Restart
<1>3. \A n \in BelongIds : RowOK(belong[n])'
  BY <1>2 DEF GroupsInv, RowOK, IsBelongRow
<1> QED  BY <1>1, <1>2, <1>3 DEF GroupsInv, Busy

\* A request arrives.
LEMMA BeginKeeps ==
  ASSUME GroupsInv, NEW a \in Admins, NEW g \in GroupIds, NEW users \in SUBSET Users,
         AddMembers(a, g, users) \/ UpdateMembers(a, g, users)
  PROVE  GroupsInv'
<1>a. IsAdmin(AtDesk)
  BY DEF IsAdmin, AdminFields, AtDesk
<1>1. PICK st, op :
        /\ st \in {"select", "remove", "replace"} /\ op \in {"add", "update"}
        /\ Become(a, [AtDesk EXCEPT !.st = st, !.op = op, !.group = g,
                                    !.listed = users, !.todo = users])
        /\ op = "update" => st # "select"
  <2>1. CASE AddMembers(a, g, users)
    BY <2>1 DEF AddMembers
  <2>2. CASE UpdateMembers(a, g, users)
    <3>1. PICK st \in {"replace", "remove"} :
            Become(a, [AtDesk EXCEPT !.st = st, !.op = "update", !.group = g,
                                     !.listed = users, !.todo = users])
      BY <2>2 DEF UpdateMembers
    <3> QED  BY <3>1
  <2> QED  BY <2>1, <2>2
<1> DEFINE record == [AtDesk EXCEPT !.st = st, !.op = op, !.group = g,
                                    !.listed = users, !.todo = users]
<1>b. Become(a, record)
  BY <1>1
<1>2. /\ IsAdmin(record) /\ record.st = st /\ record.op = op /\ record.group = g
      /\ record.listed = users /\ record.todo = users
      /\ record.row = 0 /\ record.marked = {}
  BY <1>a, <1>1 DEF IsAdmin, AdminFields, AtDesk
<1> HIDE DEF record
<1>3. group[g] # "none" /\ admin[a].st = "idle" /\ UNCHANGED <<member, group, belong>>
  BY DEF AddMembers, UpdateMembers, Admits, syncVars
<1>4. ASSUME NEW flag \in BOOLEAN PROVE AdminOK([record EXCEPT !.alone = flag])
  <2>1. PICK m : m = [record EXCEPT !.alone = flag]
    OBVIOUS
  <2>2. /\ IsAdmin(m) /\ m.st = st /\ m.op = op /\ m.group = g
        /\ m.listed = users /\ m.todo = users /\ m.row = 0 /\ m.marked = {}
    BY <1>2, <2>1 DEF IsAdmin, AdminFields
  <2>3. users \subseteq Users /\ users \ users = {}
    OBVIOUS
  <2>4. AdminOK(m)
    BY <1>1, <1>3, <2>2, <2>3 DEF AdminOK
  <2> QED  BY <2>1, <2>4
<1> QED  BY <1>1, <1>2, <1>3, <1>4, <1>b, BeginStep

\* Rows are soft-deleted.
LEMMA RowsAreDropped ==
  ASSUME GroupsInv, NEW dropped \in SUBSET BelongIds,
         belong' = [n \in BelongIds |-> IF n \in dropped
                    THEN [belong[n] EXCEPT !.live = FALSE] ELSE belong[n]]
  PROVE  /\ belong' = [n \in BelongIds |-> belong'[n]]
         /\ \A n \in BelongIds : /\ RowOK(belong'[n])
                                 /\ belong'[n].user = belong[n].user
                                 /\ belong'[n].group = belong[n].group
                                 /\ belong'[n].isMember = belong[n].isMember
                                 /\ belong'[n].own = belong[n].own
                                 /\ n \in dropped => belong'[n].live = FALSE
                                 /\ n \notin dropped => belong'[n] = belong[n]
<1>1. ASSUME NEW n \in BelongIds
      PROVE  LET r == [belong[n] EXCEPT !.live = FALSE]
             IN  /\ IsBelongRow(r) /\ r.user = belong[n].user /\ r.group = belong[n].group
                 /\ r.isMember = belong[n].isMember /\ r.own = belong[n].own
                 /\ r.live = FALSE
  BY DEF GroupsInv, RowOK, IsBelongRow, BelongFields
<1>2. ASSUME NEW n \in BelongIds
      PROVE  /\ IsBelongRow(belong'[n]) /\ belong'[n].user = belong[n].user
             /\ belong'[n].group = belong[n].group
             /\ belong'[n].isMember = belong[n].isMember
             /\ belong'[n].own = belong[n].own
             /\ n \in dropped => belong'[n].live = FALSE
             /\ n \notin dropped => belong'[n] = belong[n]
  BY <1>1 DEF GroupsInv, RowOK
<1>3. \A n \in BelongIds : RowOK(belong'[n])
  BY <1>2 DEF GroupsInv, RowOK
<1> QED  BY <1>2, <1>3

LEMMA RemoveGroupKeeps ==
  ASSUME GroupsInv, NEW a \in Admins, RemoveGroup(a)
  PROVE  GroupsInv'
<1>1. PICK rows \in BOOLEAN, itself \in BOOLEAN :
        /\ belong' = [n \in BelongIds |->
             IF rows /\ n \in Belongs(admin[a].group)
             THEN [belong[n] EXCEPT !.live = FALSE] ELSE belong[n]]
        /\ group' = [group EXCEPT ![admin[a].group] = IF itself THEN "deleted" ELSE @]
  BY DEF RemoveGroup
<1>2. PICK dropped \in SUBSET BelongIds :
        dropped = {n \in BelongIds : rows /\ n \in Belongs(admin[a].group)}
  OBVIOUS
<1>3. belong' = [n \in BelongIds |-> IF n \in dropped
                 THEN [belong[n] EXCEPT !.live = FALSE] ELSE belong[n]]
  BY <1>1, <1>2
<1>4. /\ belong' = [n \in BelongIds |-> belong'[n]]
      /\ \A n \in BelongIds :
           /\ RowOK(belong'[n]) /\ belong'[n].own = belong[n].own
           /\ belong'[n].user = belong[n].user /\ belong'[n].group = belong[n].group
  BY <1>3, RowsAreDropped
<1>5. /\ admin' = [admin EXCEPT ![a] = AtDesk] /\ member' = member
      /\ admin[a].st = "remove"
  BY DEF RemoveGroup, syncVars
<1>6. /\ group' = [g \in GroupIds |-> group'[g]]
      /\ \A g \in GroupIds : /\ group'[g] \in {"none", "live", "deleted"}
                             /\ group[g] # "none" => group'[g] # "none"
  BY <1>1 DEF GroupsInv
<1>7. Lasting
  BY <1>4, <1>5, <1>6 DEF Lasting
<1>8. \A n \in BelongIds : RowOK(belong[n])'
  <2> SUFFICES ASSUME NEW n \in BelongIds PROVE RowOK(belong[n])'
    OBVIOUS
  <2>1. PICK r : r = belong'[n]
    OBVIOUS
  <2>2. RowOK(r)'
    BY <1>4, <1>7, <2>1, RowsLast
  <2> QED  BY <2>1, <2>2
<1>9. /\ AdminOK(AtDesk)' /\ Joined(AtDesk)' /\ AtDesk.st = "idle" /\ Busy(a)
  BY <1>5 DEF AdminOK, IsAdmin, AdminFields, AtDesk, Joined, Busy
<1> QED  BY <1>4, <1>5, <1>6, <1>7, <1>8, <1>9, HandlerStep

LEMMA DropMembersKeeps ==
  ASSUME GroupsInv, NEW a \in Admins, DropMembers(a)
  PROVE  /\ GroupsInv'
         /\ admin[a].alone /\ admin'[a].st = "done" => MemberRows(admin[a].group)' = {}
<1>a. PICK m : m = admin[a]
  OBVIOUS
<1>b. PICK st : st = IF m.todo = {} THEN "done" ELSE "select"
  OBVIOUS
<1>d. PICK next : next = [m EXCEPT !.st = st]
  OBVIOUS
<1>c. PICK dropped \in SUBSET BelongIds : dropped = Dropped(a)
  BY DEF Dropped, MemberRows, Belongs
<1>1. /\ m.st = "replace" /\ admin' = [admin EXCEPT ![a] = next]
      /\ belong' = [n \in BelongIds |-> IF n \in dropped
                 THEN [belong[n] EXCEPT !.live = FALSE] ELSE belong[n]]
      /\ UNCHANGED <<member, group>>
  BY <1>a, <1>b, <1>c, <1>d DEF DropMembers, syncVars
<1>2. /\ IsAdmin(next) /\ next.st = st /\ next.op = m.op /\ next.group = m.group
      /\ next.listed = m.listed /\ next.todo = m.todo /\ next.alone = m.alone
      /\ next.row = m.row /\ next.marked = m.marked
  BY <1>a, <1>d DEF GroupsInv, AdminOK, IsAdmin, AdminFields
<1>3. \A n \in BelongIds :
        /\ RowOK(belong'[n])
        /\ belong'[n].user = belong[n].user /\ belong'[n].group = belong[n].group
        /\ belong'[n].isMember = belong[n].isMember /\ belong'[n].own = belong[n].own
        /\ n \in dropped => belong'[n].live = FALSE
        /\ n \notin dropped => belong'[n] = belong[n]
  BY <1>1, RowsAreDropped
<1>4. Lasting
  BY <1>1, <1>3 DEF Lasting
<1>5. \A n \in BelongIds : RowOK(belong[n])'
  BY <1>1, <1>3 DEF RowOK, IsBelongRow
<1>6. AdminOK(next)'
  <2>1. AdminOK(m)
    BY <1>a DEF GroupsInv
  <2>2. AdminOK(m)'
    BY <1>4, <2>1, HandlersLast
  <2> QED  BY <1>1, <1>2, <1>b, <2>1, <2>2 DEF AdminOK
<1>7. \A n \in MemberRows(m.group)' : belong'[n].user \in m.listed
  <2> SUFFICES ASSUME NEW n \in MemberRows(m.group)' PROVE belong'[n].user \in m.listed
    OBVIOUS
  <2>1. n \in BelongIds /\ n \notin dropped /\ n \in MemberRows(m.group)
    BY <1>3 DEF MemberRows, Belongs
  <2> QED  BY <1>3, <1>a, <1>c, <2>1 DEF Dropped
<1>8. Joined(next)'
  <2>1. m.marked = {}
    BY <1>1, <1>a DEF GroupsInv, AdminOK
  <2> QED  BY <1>2, <1>7, <2>1 DEF Joined
<1>9. /\ Busy(a) /\ belong' = [n \in BelongIds |-> belong'[n]]
  BY <1>1, <1>a DEF Busy
<1>10. GroupsInv'
  BY <1>1, <1>2, <1>4, <1>5, <1>6, <1>8, <1>9, <1>a, HandlerStep DEF GroupsInv
<1>11. admin'[a].st = "done" => MemberRows(m.group)' = {}
  <2>1. admin'[a].st = st /\ m.todo = m.listed
    BY <1>1, <1>2, <1>a DEF GroupsInv, AdminOK
  <2> QED  BY <1>7, <1>b, <2>1
<1>12. admin'[a].group = m.group
  BY <1>1, <1>2 DEF GroupsInv
<1>13. (MemberRows(admin[a].group))' = MemberRows(m.group)'
  BY <1>12 DEF MemberRows, Belongs
<1> QED  BY <1>10, <1>11, <1>13

\* The row of the next member is looked for ...
LEMMA SelectMemberKeeps ==
  ASSUME GroupsInv, NEW a \in Admins, NEW u \in Users, SelectMember(a, u)
  PROVE  GroupsInv'
<1>a. PICK m : m = admin[a]
  OBVIOUS
<1>b. PICK isNew \in BOOLEAN : isNew = ~member[u].there
  OBVIOUS
<1>c. PICK next : next = [m EXCEPT !.st = "save", !.at = u, !.isNew = isNew]
  OBVIOUS
<1>1. /\ m.st = "select" /\ u \in m.todo /\ admin' = [admin EXCEPT ![a] = next]
      /\ UNCHANGED <<member, group, belong>>
  BY <1>a, <1>b, <1>c DEF SelectMember, syncVars
<1>2. /\ IsAdmin(next) /\ next.st = "save" /\ next.op = m.op /\ next.group = m.group
      /\ next.listed = m.listed /\ next.todo = m.todo /\ next.alone = m.alone
      /\ next.at = u /\ next.row = m.row /\ next.marked = m.marked
  <2>1. IsAdmin(m)
    BY <1>a DEF GroupsInv, AdminOK
  <2> QED  BY <2>1, <1>c DEF IsAdmin, AdminFields
<1>3. AdminOK(m) /\ Joined(m)
  BY <1>a DEF GroupsInv
<1>4. AdminOK(next) /\ Joined(next)
  BY <1>1, <1>2, <1>3 DEF AdminOK, Joined
<1>5. AdminOK(next)' /\ Joined(next)' /\ Lasting
  BY <1>1, <1>4 DEF AdminOK, Joined, MemberRows, Belongs, Lasting
<1>6. \A n \in BelongIds : RowOK(belong[n])'
  BY <1>1 DEF GroupsInv, RowOK, IsBelongRow
<1> QED  BY <1>1, <1>2, <1>5, <1>6, <1>a, HandlerStep DEF GroupsInv, Busy

\* ... and saved.
LEMMA SaveMemberKeeps ==
  ASSUME GroupsInv, SyncInv, NEW a \in Admins, SaveMember(a)
  PROVE  GroupsInv'
<1>a. PICK m : m = admin[a]
  OBVIOUS
<1>b. PICK u, rest, st, todo :
        /\ u = m.at /\ rest = m.todo \ {u}
        /\ st = IF m.op = "update" THEN "join" ELSE IF rest = {} THEN "insert" ELSE "select"
        /\ todo = IF m.op = "update" THEN m.todo ELSE rest
  OBVIOUS
<1>c. PICK next : next = [m EXCEPT !.st = st, !.todo = todo]
  OBVIOUS
<1>1. /\ m.st = "save" /\ admin' = [admin EXCEPT ![a] = next]
      /\ member' = [member EXCEPT ![u].there = TRUE]
      /\ UNCHANGED <<group, belong>>
  BY <1>a, <1>b, <1>c DEF SaveMember
<1>2. /\ IsAdmin(next) /\ next.st = st /\ next.op = m.op /\ next.group = m.group
      /\ next.listed = m.listed /\ next.todo = todo /\ next.alone = m.alone
      /\ next.at = u /\ next.row = m.row /\ next.marked = m.marked
  <2>1. IsAdmin(m)
    BY <1>a DEF GroupsInv, AdminOK
  <2> QED  BY <2>1, <1>b, <1>c DEF IsAdmin, AdminFields
<1>3. AdminOK(m) /\ Joined(m) /\ u \in m.todo /\ u \in Users
  BY <1>1, <1>a, <1>b DEF GroupsInv, AdminOK
<1>4. Lasting /\ member'[u].there
  BY <1>1, <1>3, RowIsThere DEF Lasting
<1>5. AdminOK(m)' /\ \A n \in BelongIds : RowOK(belong[n])'
  <2>1. AdminOK(m)'
    BY <1>3, <1>4, HandlersLast
  <2>2. ASSUME NEW n \in BelongIds PROVE RowOK(belong[n])'
    <3>1. PICK r : r = belong[n]
      OBVIOUS
    <3>2. RowOK(r)'
      BY <1>4, <3>1, RowsLast DEF GroupsInv
    <3> QED  BY <1>1, <3>1, <3>2
  <2> QED  BY <2>1, <2>2
<1>6. AdminOK(next)'
  <2>1. CASE m.op = "update"
    BY <1>1, <1>2, <1>3, <1>4, <1>5, <1>b, <2>1 DEF AdminOK
  <2>2. CASE m.op # "update"
    <3>1. st \in {"insert", "select"} /\ todo = m.todo \ {u} /\ (st = "insert" => todo = {})
      BY <1>b, <2>2
    <3>2. \A v \in m.listed \ todo : member'[v].there
      BY <1>1, <1>4, <1>5, <2>2, <3>1 DEF AdminOK
    <3>3. m.row = 0 /\ m.st = "save" /\ m.marked \subseteq m.listed \ todo
      BY <1>1, <1>3, <3>1 DEF AdminOK
    <3>4. next.st \in {"insert", "select"} /\ next.todo = todo /\ next.row = 0
      BY <1>2, <3>1, <3>3
    <3>5. todo \subseteq m.listed
      BY <1>3, <3>1 DEF AdminOK
    <3> QED  BY <1>2, <1>5, <2>2, <3>1, <3>2, <3>3, <3>4, <3>5 DEF AdminOK
  <2> QED  BY <2>1, <2>2
<1>7. Joined(next)'
  BY <1>1, <1>2, <1>3, <1>b DEF Joined, MemberRows, Belongs
<1> QED  BY <1>1, <1>2, <1>4, <1>5, <1>6, <1>7, <1>a, HandlerStep DEF GroupsInv, Busy

\* The row of a member is found, or none is ...
LEMMA FindBelongKeeps ==
  ASSUME GroupsInv, NEW a \in Admins, FindBelong(a)
  PROVE  GroupsInv'
<1>a. PICK m : m = admin[a]
  OBVIOUS
<1>b. PICK n : /\ \/ n = 0
                  \/ n \in MemberRows(m.group) /\ belong[n].user = m.at
               /\ admin' = [admin EXCEPT ![a].st = "write", ![a].row = n]
  BY <1>a DEF FindBelong
<1>c. PICK next : next = [m EXCEPT !.st = "write", !.row = n]
  OBVIOUS
<1>1. /\ m.st = "join" /\ admin' = [admin EXCEPT ![a] = next]
      /\ UNCHANGED <<member, group, belong>>
  BY <1>a, <1>b, <1>c DEF FindBelong, syncVars
<1>2. /\ IsAdmin(next) /\ next.st = "write" /\ next.op = m.op /\ next.group = m.group
      /\ next.listed = m.listed /\ next.todo = m.todo /\ next.alone = m.alone
      /\ next.at = m.at /\ next.row = n /\ next.marked = m.marked
  <2>1. IsAdmin(m)
    BY <1>a DEF GroupsInv, AdminOK
  <2> QED  BY <2>1, <1>c DEF IsAdmin, AdminFields
<1>3. AdminOK(m) /\ Joined(m)
  BY <1>a DEF GroupsInv
<1>4. n # 0 => /\ n \in BelongIds /\ belong[n].group = m.group
               /\ belong[n].user = m.at /\ ~belong[n].own
  BY <1>b DEF MemberRows, Belongs, GroupsInv, RowOK
<1>5. AdminOK(next) /\ Joined(next)
  BY <1>1, <1>2, <1>3, <1>4 DEF AdminOK, Joined
<1>6. AdminOK(next)' /\ Joined(next)' /\ Lasting
  BY <1>1, <1>5 DEF AdminOK, Joined, MemberRows, Belongs, Lasting
<1>7. \A o \in BelongIds : RowOK(belong[o])'
  BY <1>1 DEF GroupsInv, RowOK, IsBelongRow
<1> QED  BY <1>1, <1>2, <1>6, <1>7, <1>a, HandlerStep DEF GroupsInv, Busy

\* ... and it is saved, or one inserted.
LEMMA WriteBelongKeeps ==
  ASSUME GroupsInv, NEW a \in Admins, NEW isLead, NEW isMember \in BOOLEAN,
         WriteBelong(a, isLead, isMember)
  PROVE  /\ GroupsInv'
         /\ admin[a].alone =>
              /\ \A n \in MemberRows(admin[a].group)' : belong'[n].user \in admin[a].listed
              /\ \A v \in admin'[a].marked :
                   \E n \in MemberRows(admin[a].group)' : belong'[n].user = v
         /\ admin'[a].group = admin[a].group
         /\ \A n \in BelongIds : belong[n].own => belong'[n] = belong[n]
<1>a. PICK m : m = admin[a]
  OBVIOUS
<1>b. PICK u, g, rest, st, marked :
        /\ u = m.at /\ g = m.group /\ rest = m.todo \ {u}
        /\ st = IF rest = {} THEN "done" ELSE "select"
        /\ marked = IF isMember THEN m.marked \cup {u} ELSE m.marked
  OBVIOUS
<1>c. PICK next : next = [m EXCEPT !.todo = rest, !.st = st, !.row = 0, !.marked = marked]
  OBVIOUS
<1>d. PICK row : row = BelongRow(g, u, isLead, isMember)
  OBVIOUS
<1>1. /\ m.st = "write" /\ admin' = [admin EXCEPT ![a] = next]
      /\ IF m.row = 0 THEN InsertBelong(row)
         ELSE belong' = [belong EXCEPT ![m.row] = row]
      /\ UNCHANGED <<member, group>>
  BY <1>a, <1>b, <1>c, <1>d DEF WriteBelong, syncVars
<1>2. /\ IsAdmin(next) /\ next.st = st /\ next.op = m.op /\ next.group = g
      /\ next.listed = m.listed /\ next.todo = rest /\ next.alone = m.alone
      /\ next.row = 0 /\ next.marked = marked
  <2>1. IsAdmin(m)
    BY <1>a DEF GroupsInv, AdminOK
  <2> QED  BY <2>1, <1>b, <1>c DEF IsAdmin, AdminFields
<1>3. AdminOK(m) /\ Joined(m) /\ u \in Users /\ u \in m.listed
  BY <1>1, <1>a, <1>b DEF GroupsInv, AdminOK
<1>4. /\ IsBelongRow(row) /\ row.group = g /\ row.user = u /\ row.isMember = isMember
      /\ row.live = TRUE /\ row.own = FALSE
  BY <1>d DEF BelongRow, IsBelongRow, BelongFields
<1>5. RowOK(row)
  BY <1>1, <1>3, <1>4, <1>b DEF AdminOK, RowOK
<1>6. PICK n \in BelongIds :
        /\ belong' = [o \in BelongIds |-> IF o = n THEN row ELSE belong[o]]
        /\ belong[n].group \in GroupIds =>
             belong[n].group = g /\ belong[n].user = u /\ ~belong[n].own
        /\ n \in MemberRows(g) => belong[n].user = u
        /\ ~belong[n].own
  <2>1. CASE m.row = 0
    <3>1. PICK n \in BelongIds :
            /\ belong[n] = NoBelong
            /\ belong' = [o \in BelongIds |-> IF o = n THEN row ELSE belong[o]]
            /\ \A o \in BelongIds : belong[o].group \in GroupIds => belong'[o] = belong[o]
      BY <1>1, <1>4, <2>1, RowIsInserted
    <3>2. NoBelong.group \notin GroupIds /\ NoBelong.live = FALSE /\ NoBelong.own = FALSE
      BY GroupAssumption DEF NoBelong
    <3> QED  BY <3>1, <3>2 DEF MemberRows, Belongs
  <2>2. CASE m.row # 0
    <3>1. /\ m.row \in BelongIds /\ belong[m.row].group = g /\ belong[m.row].user = u
          /\ ~belong[m.row].own
      BY <1>3, <1>b, <2>2 DEF AdminOK
    <3>2. belong' = [o \in BelongIds |-> IF o = m.row THEN row ELSE belong[o]]
      BY <1>1, <2>2 DEF GroupsInv
    <3> QED  BY <3>1, <3>2
  <2> QED  BY <2>1, <2>2
<1>7. /\ belong' = [o \in BelongIds |-> belong'[o]]
      /\ \A o \in BelongIds : RowOK(belong'[o])
      /\ \A o \in BelongIds : belong[o].own => belong'[o] = belong[o]
  BY <1>5, <1>6 DEF GroupsInv
<1>8. Lasting
  BY <1>1, <1>4, <1>6 DEF Lasting, GroupsInv, RowOK
<1>9. AdminOK(next)'
  <2>1. AdminOK(m)'
    BY <1>3, <1>8, HandlersLast
  <2>2. marked \subseteq m.listed \ rest /\ rest \subseteq m.listed
    BY <1>3, <1>b DEF AdminOK
  <2>3. st \in {"done", "select"}
    BY <1>b
  <2> QED  BY <1>1, <1>2, <1>3, <1>b, <2>1, <2>2, <2>3 DEF AdminOK
<1>10. ASSUME m.alone
       PROVE  /\ \A o \in MemberRows(g)' : belong'[o].user \in m.listed
              /\ \A v \in marked : \E o \in MemberRows(g)' : belong'[o].user = v
  <2>1. /\ \A o \in MemberRows(g) : belong[o].user \in m.listed
        /\ \A v \in m.marked : \E o \in MemberRows(g) : belong[o].user = v
    BY <1>1, <1>3, <1>10, <1>b DEF Joined, AdminOK
  <2>2. ASSUME NEW o \in MemberRows(g)' PROVE belong'[o].user \in m.listed
    <3>1. CASE o = n
      BY <1>3, <1>4, <1>6, <3>1
    <3>2. CASE o # n
      <4>1. o \in MemberRows(g) /\ belong'[o] = belong[o]
        BY <1>6, <2>2, <3>2 DEF MemberRows, Belongs
      <4> QED  BY <2>1, <4>1
    <3> QED  BY <3>1, <3>2
  <2>3. ASSUME NEW v \in marked PROVE \E o \in MemberRows(g)' : belong'[o].user = v
    <3>1. CASE v = u /\ isMember
      <4>1. n \in MemberRows(g)' /\ belong'[n].user = v
        BY <1>4, <1>6, <3>1 DEF MemberRows, Belongs
      <4> QED  BY <4>1
    <3>2. CASE ~ (v = u /\ isMember)
      <4>1. v \in m.marked
        BY <1>b, <2>3, <3>2
      <4>2. v # u
        BY <1>1, <1>3, <1>b, <4>1 DEF AdminOK
      <4>3. PICK o \in MemberRows(g) : belong[o].user = v
        BY <2>1, <4>1
      <4>4. o # n
        BY <1>6, <4>2, <4>3
      <4>5. o \in MemberRows(g)' /\ belong'[o] = belong[o]
        BY <1>6, <4>3, <4>4 DEF MemberRows, Belongs
      <4> QED  BY <4>3, <4>5
    <3> QED  BY <3>1, <3>2
  <2> QED  BY <2>2, <2>3
<1>11. Joined(next)'
  BY <1>2, <1>10 DEF Joined
<1>12. \A o \in BelongIds : RowOK(belong[o])'
  BY <1>1, <1>7 DEF RowOK, IsBelongRow
<1>13. GroupsInv'
  BY <1>1, <1>2, <1>7, <1>8, <1>9, <1>11, <1>12, <1>a, HandlerStep DEF GroupsInv, Busy
<1>14. admin'[a].group = g /\ admin'[a].marked = marked
  BY <1>1, <1>2 DEF GroupsInv
<1> QED  BY <1>7, <1>10, <1>13, <1>14, <1>a, <1>b

\* The rows of those who were saved, as far as their inserts succeed.
LEMMA InsertMembersKeeps ==
  ASSUME GroupsInv, NEW a \in Admins, InsertMembers(a)
  PROVE  /\ GroupsInv'
         /\ \A n \in BelongIds : belong[n].own => belong'[n] = belong[n]
<1>a. PICK m : m = admin[a]
  OBVIOUS
<1>b. PICK next : next = [m EXCEPT !.st = "done"]
  OBVIOUS
<1>1. PICK users \in SUBSET m.listed :
        \E row \in [Free(Cardinality(users)) -> users],
           lead, mark \in [users -> BOOLEAN] :
          belong' = [n \in BelongIds |->
                 IF n \in DOMAIN row
                 THEN BelongRow(m.group, row[n], lead[row[n]], mark[row[n]])
                 ELSE belong[n]]
  BY <1>a DEF InsertMembers
<1>2. PICK row \in [Free(Cardinality(users)) -> users],
           lead \in [users -> BOOLEAN], mark \in [users -> BOOLEAN] :
          belong' = [n \in BelongIds |->
                 IF n \in DOMAIN row
                 THEN BelongRow(m.group, row[n], lead[row[n]], mark[row[n]])
                 ELSE belong[n]]
  BY <1>1
<1>3. m.st = "insert" /\ admin' = [admin EXCEPT ![a] = next] /\ UNCHANGED <<member, group>>
  BY <1>a, <1>b DEF InsertMembers, syncVars
<1>4. /\ IsAdmin(next) /\ next.st = "done" /\ next.op = m.op /\ next.group = m.group
      /\ next.listed = m.listed /\ next.todo = m.todo /\ next.alone = m.alone
      /\ next.row = m.row /\ next.marked = m.marked
  BY <1>a, <1>b DEF GroupsInv, AdminOK, IsAdmin, AdminFields
<1>5. AdminOK(m)
  BY <1>a DEF GroupsInv
<1>6. ASSUME NEW n \in DOMAIN row
      PROVE  RowOK(BelongRow(m.group, row[n], lead[row[n]], mark[row[n]]))
  <2>1. row[n] \in m.listed
    BY <1>6
  <2>2. PICK r : r = BelongRow(m.group, row[n], lead[row[n]], mark[row[n]])
    OBVIOUS
  <2>3. /\ IsBelongRow(r) /\ r.group = m.group /\ r.user = row[n] /\ r.own = FALSE
    BY <2>2 DEF BelongRow, IsBelongRow, BelongFields
  <2> QED  BY <1>3, <1>5, <2>1, <2>2, <2>3 DEF AdminOK, RowOK
<1>7. \A n \in BelongIds : RowOK(belong'[n])
  BY <1>2, <1>6 DEF GroupsInv
<1>8. \A n \in BelongIds : n \in DOMAIN row =>
        belong[n].group \notin GroupIds /\ belong[n].own = FALSE
  <2>1. NoBelong.group \notin GroupIds /\ NoBelong.own = FALSE
    BY GroupAssumption DEF NoBelong
  <2>2. \A n \in BelongIds : n \in DOMAIN row => belong[n] = NoBelong
    BY <1>2 DEF Free
  <2> QED  BY <2>1, <2>2
<1>9. Lasting /\ \A n \in BelongIds : RowOK(belong[n])'
  <2>1. Lasting
    BY <1>2, <1>3, <1>8 DEF Lasting
  <2> QED  BY <1>3, <1>7, <2>1 DEF RowOK, IsBelongRow
<1>10. AdminOK(next)' /\ Joined(next)'
  <2>1. AdminOK(m)'
    BY <1>5, <1>9, HandlersLast
  <2> QED  BY <1>3, <1>4, <1>5, <2>1 DEF AdminOK, Joined
<1>11. belong' = [n \in BelongIds |-> belong'[n]] /\ Busy(a)
  BY <1>2, <1>3, <1>a DEF Busy
<1>12. \A n \in BelongIds : belong[n].own => belong'[n] = belong[n]
  BY <1>2, <1>8
<1> QED  BY <1>3, <1>4, <1>9, <1>10, <1>11, <1>12, <1>a, HandlerStep DEF GroupsInv

-----------------------------------------------------------------------------
\* A step of a handler or of the groups leaves the queues alone, but may save a
\* member's row without its roles.
LEMMA AdminsKeepQueues ==
  ASSUME SyncInv, RolesInv, GroupsNext, ~SyncStep
  PROVE  SyncInv' /\ RolesInv'
<1>1. CASE \E a \in Admins : SaveMember(a)
  <2>1. PICK a \in Admins : SaveMember(a)
    BY <1>1
  <2>2. PICK u : member' = [member EXCEPT ![u].there = TRUE]
    BY <2>1 DEF SaveMember
  <2>3. UNCHANGED <<sent, settled, rejected, consumer, load>>
    BY <2>1 DEF SaveMember
  <2>4. /\ member' = [x \in Users |-> member'[x]]
        /\ \A x \in Users : MemberOK(x)' /\ member'[x].roles = member[x].roles
    BY <2>2, RowIsThere
  <2>5. SyncInv'
    BY <2>3, <2>4 DEF SyncInv, QueueOK, IsConsumer
  <2> QED  BY <2>3, <2>4, <2>5, RolesStay
<1>2. CASE Restart
  <2>1. /\ consumer' = [q \in Queues |-> Waiting]
        /\ UNCHANGED <<member, sent, settled, rejected, load>>
    BY <1>2 DEF Restart
  <2>2. IsConsumer(Waiting) /\ Waiting.st = "waiting"
    BY DEF IsConsumer, ConsumerFields, Waiting
  <2>3. \A q \in Queues : QueueOK(q)'
    BY <2>1, <2>2 DEF SyncInv, QueueOK, IsConsumer
  <2>4. SyncInv'
    BY <2>1, <2>3 DEF SyncInv, MemberOK, IsMemberRow
  <2>5. consumer'["role"].st # "saved"
    BY <2>1, <2>2 DEF Queues
  <2> QED  BY <2>1, <2>4, <2>5, RolesStay
<1>3. CASE UNCHANGED syncVars
  <2>1. SyncInv'
    BY <1>3 DEF syncVars, SyncInv, MemberOK, IsMemberRow, QueueOK, IsConsumer
  <2> QED  BY <1>3, <2>1, RolesStay DEF syncVars
<1>4. UNCHANGED syncVars \/ Restart \/ \E a \in Admins : SaveMember(a)
  BY DEF GroupsNext, CreateGroup, AddMembers, UpdateMembers, RemoveGroup, DropMembers,
         SelectMember, FindBelong, WriteBelong, InsertMembers, EndAdmin
<1> QED  BY <1>1, <1>2, <1>3, <1>4

LEMMA GroupsNextKeeps ==
  ASSUME SyncInv, RolesInv, GroupsInv, GroupsNext
  PROVE  SyncInv' /\ RolesInv' /\ GroupsInv'
<1>1. SyncInv' /\ RolesInv'
  BY AdminsKeepQueues, SyncStepKeeps
<1>2. CASE SyncStep /\ UNCHANGED <<group, belong, admin>>
  <2>1. Lasting
    BY <1>2, QueuesLast DEF Lasting
  <2>2. ASSUME NEW n \in BelongIds PROVE RowOK(belong[n])'
    <3>1. PICK r : r = belong[n]
      OBVIOUS
    <3>2. RowOK(r)'
      BY <2>1, <3>1, RowsLast DEF GroupsInv
    <3> QED  BY <1>2, <3>1, <3>2
  <2>3. \A g : MemberRows(g)' = MemberRows(g)
    BY <1>2 DEF MemberRows, Belongs
  <2> QED  BY <1>1, <1>2, <2>1, <2>2, <2>3, OutsideStep DEF GroupsInv
<1>3. CASE \E g \in GroupIds : CreateGroup(g)
  BY <1>1, <1>3, CreateGroupKeeps
<1>4. CASE \E a \in Admins : \E g \in GroupIds, users \in SUBSET Users :
             AddMembers(a, g, users) \/ UpdateMembers(a, g, users)
  BY <1>1, <1>4, BeginKeeps
<1>5. CASE \E a \in Admins : RemoveGroup(a)
  BY <1>1, <1>5, RemoveGroupKeeps
<1>6. CASE \E a \in Admins : DropMembers(a)
  BY <1>1, <1>6, DropMembersKeeps
<1>7. CASE \E a \in Admins : \E u \in Users : SelectMember(a, u)
  BY <1>1, <1>7, SelectMemberKeeps
<1>8. CASE \E a \in Admins : SaveMember(a)
  BY <1>1, <1>8, SaveMemberKeeps
<1>13. CASE \E a \in Admins : FindBelong(a)
  BY <1>1, <1>13, FindBelongKeeps
<1>9. CASE \E a \in Admins : \E isLead, isMember \in BOOLEAN :
             WriteBelong(a, isLead, isMember)
  BY <1>1, <1>9, WriteBelongKeeps
<1>10. CASE \E a \in Admins : InsertMembers(a)
  BY <1>1, <1>10, InsertMembersKeeps
<1>11. CASE \E a \in Admins : EndAdmin(a)
  BY <1>1, <1>11, EndAdminKeeps
<1>12. CASE Restart
  BY <1>1, <1>12, RestartKeeps
<1> QED  BY <1>2, <1>3, <1>4, <1>5, <1>6, <1>7, <1>8, <1>13, <1>9, <1>10, <1>11, <1>12
         DEF GroupsNext

LEMMA GroupsStutter ==
  ASSUME SyncInv, RolesInv, GroupsInv, UNCHANGED groupVars
  PROVE  SyncInv' /\ RolesInv' /\ GroupsInv'
<1>1. SyncInv'
  BY DEF groupVars, syncVars, SyncInv, MemberOK, IsMemberRow, QueueOK, IsConsumer
<1>2. RolesInv'
  BY <1>1, RolesStay DEF groupVars, syncVars
<1>3. GroupsInv'
  BY DEF groupVars, syncVars, GroupsInv, RowOK, IsBelongRow, AdminOK, IsAdmin, Joined,
         MemberRows, Belongs, Busy
<1> QED  BY <1>1, <1>2, <1>3

LEMMA GroupsInvariant == GroupsSpec => [](SyncInv /\ RolesInv /\ GroupsInv)
<1>1. GroupsInit => SyncInv /\ RolesInv /\ GroupsInv
  BY QueuesBegin, GroupsBegin DEF GroupsInit
<1>2. SyncInv /\ RolesInv /\ GroupsInv /\ [GroupsNext]_groupVars
      => (SyncInv /\ RolesInv /\ GroupsInv)'
  BY GroupsNextKeeps, GroupsStutter
<1> QED  BY <1>1, <1>2, PTL DEF GroupsSpec

\* Rows refer to rows that are there: a member of a live row has a row, and so
\* has its group, though handlers save them one after the other and fail between
\* any two; a consumer works on a message that was sent and is not settled; and a
\* member has only roles that the service knows.
THEOREM GroupsAreTyped == GroupsSpec => []GroupsTypeOK
<1>1. SyncInv => SyncTypeOK
  <2> SUFFICES ASSUME SyncInv PROVE SyncTypeOK
    OBVIOUS
  <2>1. \A u \in Users : /\ member[u].there \in BOOLEAN
                         /\ member[u].roles \subseteq SeededRoles
                         /\ ~member[u].there => member[u].roles = {}
    BY DEF SyncInv, MemberOK
  <2>2. \A q \in Queues :
         /\ Len(sent[q]) <= load[q]
         /\ \A i \in DOMAIN sent[q] : sent[q][i] \in Message
         /\ settled[q] <= Len(sent[q]) /\ rejected[q] \subseteq 1..settled[q]
         /\ consumer[q].st \in {"waiting", "saving", "saved"}
         /\ consumer[q].st # "waiting" => settled[q] < Len(sent[q])
    BY DEF SyncInv, QueueOK
  <2> QED  BY <2>1, <2>2 DEF SyncTypeOK
<1>2. SyncInv /\ GroupsInv => GroupsTypeOK
  <2> SUFFICES ASSUME SyncInv, GroupsInv PROVE GroupsTypeOK
    OBVIOUS
  <2>1. group \in [GroupIds -> {"none", "live", "deleted"}]
    BY DEF GroupsInv
  <2>2. \A n \in BelongIds : belong[n].live =>
          /\ belong[n].group \in GroupIds /\ group[belong[n].group] # "none"
          /\ member[belong[n].user].there
    BY DEF GroupsInv, RowOK
  <2>3. \A a \in Admins :
          /\ admin[a].st \in {"idle", "select", "save", "join", "write", "insert",
                              "remove", "replace", "done"}
          /\ admin[a].row # 0 => /\ belong[admin[a].row].group = admin[a].group
                                 /\ belong[admin[a].row].user = admin[a].at
          /\ admin[a].todo \subseteq admin[a].listed /\ admin[a].listed \subseteq Users
    BY DEF GroupsInv, AdminOK
  <2> QED  BY <1>1, <2>1, <2>2, <2>3 DEF GroupsTypeOK
<1> QED  BY <1>2, GroupsInvariant, PTL

\* The roles of a member are those of one list announced for it and never of one
\* before a list that was acknowledged, for queues of any length and in spite of
\* restarts, redeliveries, rejections and handlers that save the same row: the
\* list that was saved last is at or after every acknowledged one.
THEOREM RolesArriveInOrder == GroupsSpec => []RolesArrive
<1>1. RolesInv => RolesArrive
  BY DEF RolesInv, Arrived, Accepted, Handled, RolesArrive
<1> QED  BY <1>1, GroupsInvariant, PTL

-----------------------------------------------------------------------------
\* Nothing but the last user of an update, or the lack of any, ends it.
LEMMA OnlyUpdatesEnd ==
  ASSUME GroupsInv, GroupsNext, NEW a \in Admins, Busy(a), admin[a].op = "update",
         admin'[a].st = "done"
  PROVE  \/ DropMembers(a)
         \/ \E isLead, isMember \in BOOLEAN : WriteBelong(a, isLead, isMember)
<1>0. AtDesk.st = "idle" /\ admin[a].st # "done" /\ admin[a].st # "idle"
  BY DEF AtDesk, Busy
<1>1. ~ (SyncStep /\ UNCHANGED <<group, belong, admin>>)
  BY <1>0
<1>2. ~ \E g \in GroupIds : CreateGroup(g)
  BY <1>0 DEF CreateGroup
<1>3. ASSUME NEW b \in Admins, NEW g \in GroupIds, NEW users \in SUBSET Users,
             AddMembers(b, g, users) \/ UpdateMembers(b, g, users)
      PROVE  FALSE
  <2>1. admin[b].st = "idle" /\ \E record : Become(b, record)
    BY <1>3 DEF AddMembers, UpdateMembers, Admits
  <2>2. admin'[a] \in {admin[a], [admin[a] EXCEPT !.alone = FALSE]}
    BY <1>0, <2>1 DEF Become
  <2>3. [admin[a] EXCEPT !.alone = FALSE].st = admin[a].st
    BY DEF GroupsInv, AdminOK, IsAdmin, AdminFields
  <2> QED  BY <1>0, <2>2, <2>3
<1>4. ASSUME NEW b \in Admins, NEW next, admin' = [admin EXCEPT ![b] = next]
      PROVE  b = a /\ next.st = "done"
  BY <1>0, <1>4 DEF GroupsInv
<1>5. ASSUME NEW b \in Admins, RemoveGroup(b) \/ EndAdmin(b) PROVE FALSE
  BY <1>0, <1>4, <1>5 DEF RemoveGroup, EndAdmin
<1>6. ASSUME NEW b \in Admins, DropMembers(b) PROVE DropMembers(a)
  <2>1. PICK st : admin' = [admin EXCEPT ![b].st = st]
    BY <1>6 DEF DropMembers
  <2>2. b # a => admin'[a] = admin[a]
    BY <2>1 DEF GroupsInv
  <2> QED  BY <1>0, <1>6, <2>2
<1>7. ASSUME NEW b \in Admins, NEW u \in Users, SelectMember(b, u) PROVE FALSE
  BY <1>0, <1>7 DEF SelectMember, GroupsInv
<1>8. ASSUME NEW b \in Admins, SaveMember(b) PROVE FALSE
  <2>1. PICK st, todo : admin' = [admin EXCEPT ![b].st = st, ![b].todo = todo]
                        /\ st # "done" /\ admin[b].st = "save"
    BY <1>8 DEF SaveMember
  <2>2. [admin[b] EXCEPT !.st = st, !.todo = todo].st = st
    BY DEF GroupsInv, AdminOK, IsAdmin, AdminFields
  <2> QED  BY <1>4, <2>1, <2>2
<1>9. ASSUME NEW b \in Admins, FindBelong(b) PROVE FALSE
  <2>1. PICK n : admin' = [admin EXCEPT ![b].st = "write", ![b].row = n]
    BY <1>9 DEF FindBelong
  <2>2. PICK next : next = [admin[b] EXCEPT !.st = "write", !.row = n]
    OBVIOUS
  <2>3. next.st = "write"
    BY <2>2 DEF GroupsInv, AdminOK, IsAdmin, AdminFields
  <2> QED  BY <1>4, <2>1, <2>2, <2>3
<1>10. ASSUME NEW b \in Admins, NEW isLead \in BOOLEAN, NEW isMember \in BOOLEAN,
              WriteBelong(b, isLead, isMember)
       PROVE  WriteBelong(a, isLead, isMember)
  <2>1. PICK rest, st, marked :
          admin' = [admin EXCEPT ![b].todo = rest, ![b].st = st, ![b].row = 0,
                                 ![b].marked = marked]
    BY <1>10 DEF WriteBelong
  <2>2. b # a => admin'[a] = admin[a]
    BY <2>1 DEF GroupsInv
  <2> QED  BY <1>0, <1>10, <2>2
<1>11. ASSUME NEW b \in Admins, InsertMembers(b) PROVE FALSE
  <2>1. admin' = [admin EXCEPT ![b].st = "done"] /\ admin[b].st = "insert"
    BY <1>11 DEF InsertMembers
  <2>2. b = a
    BY <1>0, <2>1 DEF GroupsInv
  <2> QED  BY <2>1, <2>2 DEF GroupsInv, AdminOK
<1>12. ~ Restart
  BY <1>0 DEF Restart
<1> QED  BY <1>1, <1>2, <1>3, <1>5, <1>6, <1>7, <1>8, <1>9, <1>10, <1>11, <1>12
         DEF GroupsNext

\* Nothing but the removal of its group touches the row of a lead.
LEMMA LeadStays ==
  ASSUME GroupsInv, GroupsNext, NEW g \in GroupIds, HasLead(g), ~HasLead(g)'
  PROVE  \E a \in Admins : admin[a].st = "remove" /\ admin[a].group = g
<1>1. PICK n \in BelongIds : /\ belong[n].group = g /\ belong[n].live /\ belong[n].own
                             /\ belong[n].isLead /\ belong[n].user = Lead[g]
  BY DEF HasLead, Belongs
<1>2. belong'[n] # belong[n]
  BY <1>1 DEF HasLead, Belongs
<1>3. ~belong[n].isMember /\ belong[n] # NoBelong
  BY <1>1 DEF GroupsInv, RowOK, NoBelong
<1>4. ASSUME NEW row, InsertBelong(row) PROVE FALSE
  BY <1>2, <1>3, <1>4 DEF InsertBelong, Free, GroupsInv
<1>5. ~ \E h \in GroupIds : CreateGroup(h)
  BY <1>4 DEF CreateGroup
<1>6. ASSUME NEW a \in Admins, DropMembers(a) PROVE FALSE
  <2>1. n \notin Dropped(a)
    BY <1>3 DEF Dropped, MemberRows
  <2> QED  BY <1>2, <1>6, <2>1 DEF DropMembers
<1>7. ASSUME NEW a \in Admins, NEW isLead \in BOOLEAN, NEW isMember \in BOOLEAN,
             WriteBelong(a, isLead, isMember)
      PROVE  FALSE
  BY <1>1, <1>2, <1>7, WriteBelongKeeps
<1>8. ASSUME NEW a \in Admins, InsertMembers(a) PROVE FALSE
  BY <1>1, <1>2, <1>8, InsertMembersKeeps
<1>9. belong' = belong \/ \E a \in Admins : RemoveGroup(a)
  BY <1>5, <1>6, <1>7, <1>8 DEF GroupsNext, AddMembers, UpdateMembers, SelectMember,
     SaveMember, FindBelong, EndAdmin, Restart
<1>10. PICK a \in Admins : RemoveGroup(a)
  BY <1>2, <1>9
<1>11. n \in Belongs(admin[a].group)
  BY <1>2, <1>10 DEF RemoveGroup
<1> QED  BY <1>1, <1>10, <1>11 DEF RemoveGroup, Belongs

\* An update that ran alone and got to its end leaves as members only users it
\* lists, and those of them whom it lists as members, whatever handlers before it
\* did half and whatever flags rows have; and no update or addition, in any
\* overlap, takes the row of the lead: a row that may be held, saved or dropped
\* was a member's, and others are inserted where there is no row.
THEOREM UpdatesSetMembers == GroupsSpec => UpdateSetsMembers
<1> DEFINE Ends == \A a \in Admins :
             (/\ Busy(a) /\ admin[a].op = "update" /\ admin[a].alone
              /\ admin'[a].st = "done") =>
               /\ admin'[a].marked \subseteq MembersOf(admin[a].group)'
               /\ MembersOf(admin[a].group)' \subseteq admin[a].listed
           Leads == \A g \in GroupIds : HasLead(g) /\ ~HasLead(g)' =>
             \E a \in Admins : admin[a].st = "remove" /\ admin[a].group = g
<1>1. GroupsInv /\ [GroupsNext]_groupVars => [Ends /\ Leads]_groupVars
  <2> SUFFICES ASSUME GroupsInv, GroupsNext PROVE Ends /\ Leads
    OBVIOUS
  <2>1. ASSUME NEW a \in Admins, Busy(a), admin[a].op = "update", admin[a].alone,
               admin'[a].st = "done"
        PROVE  /\ \A n \in MemberRows(admin[a].group)' : belong'[n].user \in admin[a].listed
               /\ \A v \in admin'[a].marked :
                    \E n \in MemberRows(admin[a].group)' : belong'[n].user = v
    <3>1. CASE DropMembers(a)
      <4>1. MemberRows(admin[a].group)' = {}
        BY <2>1, <3>1, DropMembersKeeps
      <4>2. admin'[a].marked = admin[a].marked /\ admin[a].marked = {}
        <5>1. PICK st : admin' = [admin EXCEPT ![a].st = st] /\ admin[a].st = "replace"
          BY <3>1 DEF DropMembers
        <5> QED  BY <5>1 DEF GroupsInv, AdminOK, IsAdmin, AdminFields
      <4> QED  BY <4>1, <4>2
    <3>2. CASE \E isLead, isMember \in BOOLEAN : WriteBelong(a, isLead, isMember)
      <4>1. PICK isLead \in BOOLEAN, isMember \in BOOLEAN : WriteBelong(a, isLead, isMember)
        BY <3>2
      <4>2. admin'[a].group = admin[a].group
        BY <4>1, WriteBelongKeeps
      <4> QED  BY <2>1, <4>1, <4>2, WriteBelongKeeps
    <3> QED  BY <2>1, <3>1, <3>2, OnlyUpdatesEnd
  <2>2. Ends
    BY <2>1 DEF MembersOf
  <2>3. Leads
    BY LeadStays
  <2> QED  BY <2>2, <2>3
<1> QED  BY <1>1, GroupsInvariant, PTL DEF GroupsSpec, UpdateSetsMembers
=============================================================================
