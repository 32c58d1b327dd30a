----------------------------- MODULE MemberSync -----------------------------
(***************************************************************************)
(* The members of the service sampa, as the identity provider announces    *)
(* them: one queue of new users and one of changed roles, each with a      *)
(* consumer that takes one message at a time (prefetch 1).  A save is a    *)
(* select and a write; a message whose save fails goes to the dead-letter  *)
(* queue, one whose handler ends with the process is delivered again.      *)
(***************************************************************************)
EXTENDS Naturals, Sequences, FiniteSets, FiniteSetsExt

CONSTANTS
  Users,        \* the users of the identity provider
  RoleIds,      \* the roles it knows,
  SeededRoles,  \*   and those of them that sampa has
  Loads         \* the regimes: how many messages the queues are given, how
                \* many handlers edit groups at a time, and how many rows they add

Queues == {"user", "role"}

ASSUME SyncAssumption ==
  /\ SeededRoles \subseteq RoleIds
  /\ \A w \in Loads : /\ w.user \in Nat /\ w.role \in Nat
                     /\ w.admins \in Nat /\ w.rows \in Nat

VARIABLES
  member,    \* member[u]: whether the row is there, and its roles
  sent,      \* sent[q]: the messages queue q was ever given, in their order
  settled,   \* settled[q]: how many of them are acknowledged or rejected
  rejected,  \* rejected[q]: those that went to the dead-letter queue
  consumer,  \* local variables of the two consumers
  load       \* the regime; never changes

syncVars == <<member, sent, settled, rejected, consumer, load>>

\* A message.  Of a user message only the user matters; listed says whether a
\* role message has a list of roles at all.
Message == [user : Users, listed : BOOLEAN, roles : SUBSET RoleIds]
Messages(q) == {m \in Message : (q = "user" \/ ~m.listed) => m.roles = {}
                                /\ (q = "user" => ~m.listed)}

Waiting == [st |-> "waiting", isNew |-> FALSE]

\* The message a consumer is given: the first that is not settled.
Given(q) == sent[q][settled[q] + 1]

-----------------------------------------------------------------------------
SyncInit ==
  /\ member = [u \in Users |-> [there |-> FALSE, roles |-> {}]]
  /\ sent = [q \in Queues |-> <<>>]
  /\ settled = [q \in Queues |-> 0]
  /\ rejected = [q \in Queues |-> {}]
  /\ consumer = [q \in Queues |-> Waiting]
  /\ load \in Loads

\* The identity provider publishes; the order of a queue is kept.
Publish(q, m) ==
  /\ Len(sent[q]) < load[q]
  /\ sent' = [sent EXCEPT ![q] = Append(@, m)]
  /\ UNCHANGED <<member, settled, rejected, consumer, load>>

\* A delivery, up to the select a save begins with.
Deliver(q) ==
  /\ consumer[q].st = "waiting" /\ settled[q] < Len(sent[q])
  /\ consumer' = [consumer EXCEPT ![q] =
       [st |-> "saving", isNew |-> ~member[Given(q).user].there]]
  /\ UNCHANGED <<member, sent, settled, rejected, load>>

\* The insert of a row that somebody else has inserted since the select.
Collides(q) == consumer[q].isNew /\ member[Given(q).user].there

\* newUser: the names of the user; its roles stay.
SaveUser ==
  /\ consumer["user"].st = "saving" /\ ~Collides("user")
  /\ member' = [member EXCEPT ![Given("user").user].there = TRUE]
  /\ consumer' = [consumer EXCEPT !["user"].st = "saved"]
  /\ UNCHANGED <<sent, settled, rejected, load>>

\* Mutant of RolesAfter: an empty list is taken for no list.
RolesAfterUnlessEmpty(m) ==
  IF m.roles # {} THEN m.roles \cap SeededRoles ELSE member[m.user].roles

\* The listed roles that sampa has replace the old ones; a message without a
\* list leaves them.
RolesAfter(m) ==
  IF m.listed THEN m.roles \cap SeededRoles ELSE member[m.user].roles

\* changedUserRole.
SaveRoles ==
  /\ consumer["role"].st = "saving" /\ ~Collides("role")
  /\ member' = [member EXCEPT ![Given("role").user] =
                  [there |-> TRUE, roles |-> RolesAfter(Given("role"))]]
  /\ consumer' = [consumer EXCEPT !["role"].st = "saved"]
  /\ UNCHANGED <<sent, settled, rejected, load>>

Settle(q) ==
  /\ settled' = [settled EXCEPT ![q] = @ + 1]
  /\ consumer' = [consumer EXCEPT ![q] = Waiting]
  /\ UNCHANGED <<member, sent, load>>

Acknowledge(q) ==
  /\ consumer[q].st = "saved"
  /\ Settle(q)
  /\ UNCHANGED rejected

\* nack without requeue, when the save has failed: always when it collides.
Reject(q) ==
  /\ consumer[q].st = "saving"
  /\ rejected' = [rejected EXCEPT ![q] = @ \cup {settled[q] + 1}]
  /\ Settle(q)

SyncStep ==
  \/ \E q \in Queues :
       \/ \E m \in Messages(q) : Publish(q, m)
       \/ Deliver(q)
       \/ Acknowledge(q)
       \/ Reject(q)
  \/ SaveUser
  \/ SaveRoles

-----------------------------------------------------------------------------
SyncTypeOK ==
  /\ \A u \in Users : /\ member[u].there \in BOOLEAN
                      /\ member[u].roles \subseteq SeededRoles
                      /\ ~member[u].there => member[u].roles = {}
  /\ \A q \in Queues :
       /\ Len(sent[q]) <= load[q]
       /\ \A i \in DOMAIN sent[q] : sent[q][i] \in Message
       /\ settled[q] <= Len(sent[q]) /\ rejected[q] \subseteq 1..settled[q]
       /\ consumer[q].st \in {"waiting", "saving", "saved"}
       /\ consumer[q].st # "waiting" => settled[q] < Len(sent[q])

\* The lists of roles that were announced for a user, up to the n-th message.
Lists(u, n) == {i \in 1..n : sent["role"][i].user = u /\ sent["role"][i].listed}

\* Between two messages a member has the roles of one list announced for it,
\* and never of one before a list that was acknowledged: neither a redelivery
\* after a restart, nor another writer of the row, nor a rejected message
\* brings older roles back.
RolesArrive ==
  consumer["role"].st = "waiting" =>
    \A u \in Users :
      LET accepted == Lists(u, settled["role"]) \ rejected["role"]
          given == Lists(u, Len(sent["role"])) \cap 1..settled["role"] + 1
      IN  \/ \E i \in given : /\ \A j \in accepted : j <= i
                              /\ member[u].roles = sent["role"][i].roles \cap SeededRoles
          \/ accepted = {} /\ member[u].roles = {}
=============================================================================
