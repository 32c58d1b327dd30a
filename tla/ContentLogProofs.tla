-------------------------- MODULE ContentLogProofs --------------------------
(***************************************************************************)
(* For any number of requests, layers, contents, changes and handlers: no  *)
(* pending change is lost between the buffer and the action log, or logged *)
(* for another layer or request; and, without overlap, none is logged      *)
(* twice and the changes of a content lead to its value without a gap.     *)
(***************************************************************************)
EXTENDS ContentLog, FiniteSetTheorems, WellFoundedInduction, TLAPS

\* A row of pending_changes, and the local variables of a handler: records.
ChangeFields == {"state", "request", "layer", "row", "before", "after"}
ClerkFields == {"step", "request", "layer", "key", "row", "before", "after",
                "todo", "unflushed", "entries", "flushed"}

IsChange(m) == m = [f \in ChangeFields |-> m[f]]
IsClerk(m) == m = [f \in ClerkFields |-> m[f]]

InLog(c, entries) == \E e \in entries : c \in e.entry.changes

\* What a transaction has marked is in an entry it has written.
Covered(m) ==
  /\ IsClerk(m)
  /\ \A c \in m.flushed : \E e \in m.entries : c \in e.changes

\* A row that is no longer pending has been logged.
Kept(m, c, entries) ==
  /\ IsChange(m)
  /\ m.state \in {"none", "pending"} \/ InLog(c, entries)

\* The inductive invariant.
IndInv ==
  /\ change = [c \in ChangeIds |-> change[c]]
  /\ clerk = [k \in Clerks |-> clerk[k]]
  /\ \A c \in ChangeIds : Kept(change[c], c, log)
  /\ \A k \in Clerks : Covered(clerk[k])

-----------------------------------------------------------------------------
\* To set any field but what a transaction wrote keeps it covered.
LEMMA FieldSet ==
  ASSUME NEW m, Covered(m), NEW x
  PROVE  /\ Covered([m EXCEPT !.step = x])
         /\ Covered([m EXCEPT !.request = x])
         /\ Covered([m EXCEPT !.layer = x])
         /\ Covered([m EXCEPT !.key = x])
         /\ Covered([m EXCEPT !.row = x])
         /\ Covered([m EXCEPT !.before = x])
         /\ Covered([m EXCEPT !.after = x])
         /\ Covered([m EXCEPT !.todo = x])
         /\ Covered([m EXCEPT !.unflushed = x])
<1>1. Covered([m EXCEPT !.step = x])
  BY DEF Covered, IsClerk, ClerkFields
<1>2. Covered([m EXCEPT !.request = x])
  BY DEF Covered, IsClerk, ClerkFields
<1>3. Covered([m EXCEPT !.layer = x])
  BY DEF Covered, IsClerk, ClerkFields
<1>4. Covered([m EXCEPT !.key = x])
  BY DEF Covered, IsClerk, ClerkFields
<1>5. Covered([m EXCEPT !.row = x])
  BY DEF Covered, IsClerk, ClerkFields
<1>6. Covered([m EXCEPT !.before = x])
  BY DEF Covered, IsClerk, ClerkFields
<1>7. Covered([m EXCEPT !.after = x])
  BY DEF Covered, IsClerk, ClerkFields
<1>8. Covered([m EXCEPT !.todo = x])
  BY DEF Covered, IsClerk, ClerkFields
<1>9. Covered([m EXCEPT !.unflushed = x])
  BY DEF Covered, IsClerk, ClerkFields
<1> QED  BY <1>1, <1>2, <1>3, <1>4, <1>5, <1>6, <1>7, <1>8, <1>9

\* A handler at rest has written nothing.
LEMMA RestCovered == Covered(AtRest)
  BY DEF Covered, IsClerk, ClerkFields, AtRest

\* A step of one handler that leaves the rows and the log alone.
LEMMA ClerkStep ==
  ASSUME IndInv, NEW k \in Clerks, NEW record, Covered(record),
         change' = change, log' = log, clerk' = [clerk EXCEPT ![k] = record]
  PROVE  IndInv'
<1>1. clerk' = [o \in Clerks |-> IF o = k THEN record ELSE clerk[o]]
  BY DEF IndInv
<1>2. \A o \in Clerks : Covered(clerk'[o])
  BY <1>1 DEF IndInv
<1>3. clerk' = [o \in Clerks |-> clerk'[o]]
  BY <1>1
<1> QED  BY <1>2, <1>3 DEF IndInv, Covered, IsClerk, ClerkFields, Kept, IsChange, ChangeFields, InLog

\* A step of one handler that adds a pending row.
LEMMA AddStep ==
  ASSUME IndInv, NEW k \in Clerks, NEW record, Covered(record),
         NEW row, IsChange(row), row.state = "pending", Add(row),
         log' = log, clerk' = [clerk EXCEPT ![k] = record]
  PROVE  IndInv'
<1> DEFINE n == NextOf(ChangeIds, Changed)
<1>1. change' = [c \in ChangeIds |-> IF c = n THEN row ELSE change[c]]
  BY DEF IndInv, Add
<1> HIDE DEF n
<1>2. \A c \in ChangeIds : Kept(change'[c], c, log')
  BY <1>1 DEF IndInv, Kept
<1>3. change' = [c \in ChangeIds |-> change'[c]]
  BY <1>1
<1>4. clerk' = [o \in Clerks |-> IF o = k THEN record ELSE clerk[o]]
  BY DEF IndInv
<1>5. \A o \in Clerks : Covered(clerk'[o])
  BY <1>4 DEF IndInv
<1>6. clerk' = [o \in Clerks |-> clerk'[o]]
  BY <1>4
<1> QED  BY <1>2, <1>3, <1>5, <1>6 DEF IndInv, Covered, IsClerk, ClerkFields, Kept, IsChange, ChangeFields, InLog

\* One key of a flush: what is marked is written to an entry.
LEMMA FlushCovers ==
  ASSUME NEW m, Covered(m), NEW found, NEW entry, entry.changes = found, NEW left
  PROVE  Covered([m EXCEPT !.unflushed = left, !.flushed = m.flushed \cup found,
                           !.entries = IF found = {} THEN m.entries
                                       ELSE m.entries \cup {entry}])
<1> DEFINE n == [m EXCEPT !.unflushed = left]
<1>1. IsClerk(n) /\ n.flushed = m.flushed /\ n.entries = m.entries
  BY DEF Covered, IsClerk, ClerkFields
<1> HIDE DEF n
<1> DEFINE flushed == m.flushed \cup found
           entries == IF found = {} THEN m.entries ELSE m.entries \cup {entry}
           o == [n EXCEPT !.flushed = flushed]
           p == [o EXCEPT !.entries = entries]
<1>2. \A c \in flushed : \E e \in entries : c \in e.changes
  BY DEF Covered
<1> HIDE DEF flushed, entries
<1>3. IsClerk(o) /\ o.flushed = flushed
  BY <1>1 DEF IsClerk, ClerkFields
<1> HIDE DEF o
<1>4. IsClerk(p) /\ p.flushed = flushed /\ p.entries = entries
  BY <1>3 DEF IsClerk, ClerkFields
<1>5. Covered(p)
  <2> HIDE DEF p
  <2> QED  BY <1>2, <1>4 DEF Covered
<1> QED  BY <1>5 DEF p, o, n, flushed, entries

LEMMA InitKept == ContentInit => IndInv
<1>1. \A c : Kept(NoChange, c, {})
  BY DEF Kept, IsChange, ChangeFields, NoChange
<1> QED  BY <1>1, RestCovered DEF ContentInit, IndInv

\* The commit of a flush logs what it marks.
LEMMA CommitKeeps ==
  ASSUME IndInv, NEW k \in Clerks, CommitFlush(k)
  PROVE  IndInv'
<1> DEFINE me == clerk[k]
<1>0. Covered(me)
  BY DEF IndInv
<1>1. log \subseteq log'
  BY DEF CommitFlush
<1>2. \A c \in me.flushed : InLog(c, log')
  <2>1. SUFFICES ASSUME NEW c \in me.flushed PROVE InLog(c, log')
    OBVIOUS
  <2>2. PICK e \in me.entries : c \in e.changes
    BY <1>0 DEF Covered
  <2>3. [entry |-> e, number |-> Cardinality(log)] \in log'
    BY <2>2 DEF CommitFlush
  <2>4. [entry |-> e, number |-> Cardinality(log)].entry = e
    OBVIOUS
  <2> QED  BY <2>2, <2>3, <2>4 DEF InLog
<1>3. change' = [c \in ChangeIds |->
                  IF c \in me.flushed /\ change[c].state = "pending"
                  THEN [change[c] EXCEPT !.state = "flushed"] ELSE change[c]]
  BY DEF CommitFlush
<1>4. \A c \in ChangeIds : Kept(change'[c], c, log')
  <2>1. SUFFICES ASSUME NEW c \in ChangeIds PROVE Kept(change'[c], c, log')
    OBVIOUS
  <2>2. Kept(change[c], c, log)
    BY DEF IndInv
  <2>3. Kept(change[c], c, log')
    BY <1>1, <2>2 DEF Kept, InLog
  <2>4. CASE c \in me.flushed /\ change[c].state = "pending"
    <3>1. change'[c] = [change[c] EXCEPT !.state = "flushed"]
      BY <1>3, <2>4
    <3>2. IsChange(change'[c])
      BY <2>2, <3>1 DEF Kept, IsChange, ChangeFields
    <3> QED  BY <1>2, <2>4, <3>2 DEF Kept
  <2>5. CASE ~ (c \in me.flushed /\ change[c].state = "pending")
    BY <1>3, <2>3, <2>5
  <2> QED  BY <2>4, <2>5
<1>5. clerk' = [o \in Clerks |-> IF o = k THEN AtRest ELSE clerk[o]]
  BY DEF IndInv, CommitFlush
<1>6. \A o \in Clerks : Covered(clerk'[o])
  BY <1>5, RestCovered DEF IndInv
<1>7. change' = [c \in ChangeIds |-> change'[c]] /\ clerk' = [o \in Clerks |-> clerk'[o]]
  BY <1>3, <1>5
<1> QED  BY <1>4, <1>6, <1>7 DEF IndInv, Covered, IsClerk, ClerkFields, Kept, IsChange, ChangeFields, InLog

\* The clean-up deletes only what was flushed.
LEMMA CleanupKeeps ==
  ASSUME IndInv, Cleanup
  PROVE  IndInv'
<1>1. PICK last \in ChangeIds :
        change' = [c \in ChangeIds |->
                    IF c <= last /\ change[c].state = "flushed"
                    THEN [change[c] EXCEPT !.state = "cleaned"] ELSE change[c]]
  BY DEF Cleanup
<1>2. log' = log /\ clerk' = clerk
  BY DEF Cleanup
<1>3. \A c \in ChangeIds : Kept(change'[c], c, log')
  <2>1. SUFFICES ASSUME NEW c \in ChangeIds PROVE Kept(change'[c], c, log')
    OBVIOUS
  <2>2. Kept(change[c], c, log)
    BY DEF IndInv
  <2>3. CASE c <= last /\ change[c].state = "flushed"
    <3>1. change'[c] = [change[c] EXCEPT !.state = "cleaned"]
      BY <1>1, <2>3
    <3>2. IsChange(change'[c])
      BY <2>2, <3>1 DEF Kept, IsChange, ChangeFields
    <3>3. InLog(c, log')
      BY <1>2, <2>2, <2>3 DEF Kept
    <3> QED  BY <3>2, <3>3 DEF Kept
  <2>4. CASE ~ (c <= last /\ change[c].state = "flushed")
    BY <1>1, <1>2, <2>2, <2>4
  <2> QED  BY <2>3, <2>4
<1>4. change' = [c \in ChangeIds |-> change'[c]]
  BY <1>1
<1> QED  BY <1>2, <1>3, <1>4 DEF IndInv, Covered, IsClerk, ClerkFields, Kept, IsChange, ChangeFields, InLog

LEMMA StepKept == IndInv /\ [ContentNext]_logVars => IndInv'
<1> SUFFICES ASSUME IndInv, [ContentNext]_logVars PROVE IndInv'
  OBVIOUS
<1>0. CASE UNCHANGED logVars
  BY <1>0 DEF logVars, IndInv, Covered, IsClerk, ClerkFields, Kept, IsChange, ChangeFields, InLog
<1>n. ASSUME NEW k \in Clerks,
             \/ FindContent(k) \/ ReadBefore(k) \/ SaveContent(k) \/ CreateContent(k)
             \/ AddSpecChange(k) \/ EditForRequests(k) \/ AddRequestChange(k)
             \/ BeginFlush(k) \/ FlushKey(k) \/ CommitFlush(k) \/ FailClerk(k)
      PROVE  IndInv'
  <2> DEFINE me == clerk[k]
  <2>0. Covered(me)
    BY DEF IndInv
  <2>1. CASE FindContent(k)
    <3> DEFINE begin(l, i, v) ==
                 [ AtRest EXCEPT !.request = Owner[l], !.layer = l,
                                 !.key = <<Owner[l], i>>, !.after = v ]
    <3>1. PICK l \in LogLayers, i \in SpecItems, v \in crew.values :
            \/ BeginClerk(k, [begin(l, i, v) EXCEPT !.step = "saving"])
            \/ \E n \in RowsOf(<<Owner[l], i>>) :
                 BeginClerk(k, [begin(l, i, v) EXCEPT !.step = "reading", !.row = n])
      BY <2>1 DEF FindContent
    <3>2. Covered(begin(l, i, v))
      <4>1. Covered([AtRest EXCEPT !.request = Owner[l]])
        BY RestCovered, FieldSet
      <4>2. Covered([AtRest EXCEPT !.request = Owner[l], !.layer = l])
        BY <4>1, FieldSet
      <4>3. Covered([AtRest EXCEPT !.request = Owner[l], !.layer = l,
                                   !.key = <<Owner[l], i>>])
        BY <4>2, FieldSet
      <4> QED  BY <4>3, FieldSet
    <3> HIDE DEF begin
    <3>3. change' = change /\ log' = log
      BY <2>1 DEF FindContent
    <3>4. CASE BeginClerk(k, [begin(l, i, v) EXCEPT !.step = "saving"])
      <4>1. Covered([begin(l, i, v) EXCEPT !.step = "saving"])
        BY <3>2, FieldSet
      <4> QED  BY <3>3, <3>4, <4>1, ClerkStep DEF BeginClerk
    <3>5. CASE \E n \in RowsOf(<<Owner[l], i>>) :
                 BeginClerk(k, [begin(l, i, v) EXCEPT !.step = "reading", !.row = n])
      <4>1. PICK n \in RowsOf(<<Owner[l], i>>) :
              BeginClerk(k, [begin(l, i, v) EXCEPT !.step = "reading", !.row = n])
        BY <3>5
      <4>2. Covered([begin(l, i, v) EXCEPT !.step = "reading"])
        BY <3>2, FieldSet
      <4>3. Covered([begin(l, i, v) EXCEPT !.step = "reading", !.row = n])
        BY <4>2, FieldSet
      <4> QED  BY <3>3, <4>1, <4>3, ClerkStep DEF BeginClerk
    <3> QED  BY <3>1, <3>4, <3>5
  <2>2. CASE ReadBefore(k)
    <3> DEFINE before == content[me.row].value
    <3>1. Covered([me EXCEPT !.before = before])
      BY <2>0, FieldSet
    <3>2. Covered([me EXCEPT !.before = before, !.step = "saving"])
      BY <3>1, FieldSet
    <3> QED  BY <1>n, <2>2, <3>2, ClerkStep DEF ReadBefore
  <2>3. CASE SaveContent(k)
    <3>1. Covered([me EXCEPT !.step = "adding"])
      BY <2>0, FieldSet
    <3> QED  BY <1>n, <2>3, <3>1, ClerkStep DEF SaveContent
  <2>4. CASE CreateContent(k)
    <3>1. PICK n : clerk' = [clerk EXCEPT ![k].row = n, ![k].step = "adding"]
      BY <2>4 DEF CreateContent
    <3>2. Covered([me EXCEPT !.row = n])
      BY <2>0, FieldSet
    <3>3. Covered([me EXCEPT !.row = n, !.step = "adding"])
      BY <3>2, FieldSet
    <3>4. clerk' = [clerk EXCEPT ![k] = [me EXCEPT !.row = n, !.step = "adding"]]
      BY <3>1
    <3>5. change' = change /\ log' = log
      BY <2>4 DEF CreateContent
    <3> HIDE DEF me
    <3> QED  BY <1>n, <3>3, <3>4, <3>5, ClerkStep
  <2>5. CASE AddSpecChange(k)
    <3> DEFINE row == [ state |-> "pending", request |-> me.request,
                        layer |-> me.layer, row |-> me.row,
                        before |-> me.before, after |-> me.after ]
    <3>1. IsChange(row) /\ row.state = "pending"
      BY DEF IsChange, ChangeFields
    <3>2. Add(row) /\ clerk' = [clerk EXCEPT ![k] = AtRest] /\ log' = log
      BY <2>5 DEF AddSpecChange
    <3> HIDE DEF row
    <3> QED  BY <1>n, <3>1, <3>2, RestCovered, AddStep
  <2>6. CASE EditForRequests(k)
    <3>1. PICK requests : BeginClerk(k, [AtRest EXCEPT !.step = "spreading",
                                                       !.todo = requests])
      BY <2>6 DEF EditForRequests
    <3>2. Covered([AtRest EXCEPT !.step = "spreading"])
      BY RestCovered, FieldSet
    <3>3. Covered([AtRest EXCEPT !.step = "spreading", !.todo = requests])
      BY <3>2, FieldSet
    <3>4. change' = change /\ log' = log
      BY <2>6 DEF EditForRequests
    <3> QED  BY <1>n, <3>1, <3>3, <3>4, ClerkStep DEF BeginClerk
  <2>7. CASE AddRequestChange(k)
    <3>1. PICK r \in me.todo :
            /\ Add([NoChange EXCEPT !.state = "pending", !.request = r])
            /\ clerk' = [clerk EXCEPT ![k] =
                 IF me.todo = {r} THEN AtRest ELSE [me EXCEPT !.todo = @ \ {r}]]
      BY <2>7 DEF AddRequestChange
    <3> DEFINE row == [NoChange EXCEPT !.state = "pending", !.request = r]
               next == IF me.todo = {r} THEN AtRest
                       ELSE [me EXCEPT !.todo = me.todo \ {r}]
    <3>2. IsChange(row) /\ row.state = "pending"
      <4> DEFINE pending == [NoChange EXCEPT !.state = "pending"]
      <4>1. IsChange(pending) /\ pending.state = "pending"
        BY DEF IsChange, ChangeFields, NoChange
      <4> HIDE DEF pending
      <4>2. IsChange([pending EXCEPT !.request = r])
        BY <4>1 DEF IsChange, ChangeFields
      <4>3. [pending EXCEPT !.request = r].state = "pending"
        BY <4>1 DEF IsChange, ChangeFields
      <4> QED  BY <4>2, <4>3 DEF pending
    <3>3. Covered(next)
      <4>1. Covered([me EXCEPT !.todo = me.todo \ {r}])
        BY <2>0, FieldSet
      <4> QED  BY <4>1, RestCovered
    <3>4. log' = log
      BY <2>7 DEF AddRequestChange
    <3>5. Add(row)
      BY <3>1
    <3>6. clerk' = [clerk EXCEPT ![k] = next]
      BY <3>1
    <3> HIDE DEF row, next
    <3> QED  BY <1>n, <3>2, <3>3, <3>4, <3>5, <3>6, AddStep
  <2>8. CASE BeginFlush(k)
    <3>1. PICK r, keys :
            BeginClerk(k, [AtRest EXCEPT !.step = "flushing", !.request = r,
                                         !.unflushed = keys])
      BY <2>8 DEF BeginFlush
    <3>2. Covered([AtRest EXCEPT !.step = "flushing"])
      BY RestCovered, FieldSet
    <3>3. Covered([AtRest EXCEPT !.step = "flushing", !.request = r])
      BY <3>2, FieldSet
    <3>4. Covered([AtRest EXCEPT !.step = "flushing", !.request = r,
                                 !.unflushed = keys])
      BY <3>3, FieldSet
    <3>5. change' = change /\ log' = log
      BY <2>8 DEF BeginFlush
    <3> QED  BY <1>n, <3>1, <3>4, <3>5, ClerkStep DEF BeginClerk
  <2>9. CASE FlushKey(k)
    <3>1. PICK l \in me.unflushed :
            LET found == PendingOf(me.request, l) \ me.flushed IN
            clerk' = [clerk EXCEPT
              ![k].unflushed = me.unflushed \ {l},
              ![k].flushed = me.flushed \cup found,
              ![k].entries = IF found = {} THEN me.entries ELSE me.entries \cup
                {[request |-> me.request, layer |-> l, changes |-> found]}]
      BY <1>n, <2>9 DEF FlushKey, IndInv
    <3> DEFINE found == PendingOf(me.request, l) \ me.flushed
               entry == [request |-> me.request, layer |-> l, changes |-> found]
               next == [me EXCEPT !.unflushed = me.unflushed \ {l},
                                  !.flushed = me.flushed \cup found,
                                  !.entries = IF found = {} THEN me.entries
                                              ELSE me.entries \cup {entry}]
    <3>2. clerk' = [clerk EXCEPT ![k] = next]
      BY <3>1
    <3>3. change' = change /\ log' = log
      BY <2>9 DEF FlushKey
    <3>4. Covered(next)
      <4>1. entry.changes = found
        OBVIOUS
      <4> HIDE DEF found, entry
      <4> QED  BY <2>0, <4>1, FlushCovers
    <3> HIDE DEF next
    <3> QED  BY <1>n, <3>2, <3>3, <3>4, ClerkStep
  <2>10. CASE CommitFlush(k)
    BY <1>n, <2>10, CommitKeeps
  <2>11. CASE FailClerk(k)
    BY <1>n, <2>11, RestCovered, ClerkStep DEF FailClerk
  <2> QED  BY <1>n, <2>1, <2>2, <2>3, <2>4, <2>5, <2>6, <2>7, <2>8, <2>9, <2>10,
              <2>11
<1> QED  BY <1>0, <1>n, CleanupKeeps DEF ContentNext

\* A change that was added to the buffer is pending or in the action log, for any
\* number of overlapping flushes, failures and clean-ups: what a transaction
\* marks as flushed it logs in the same commit.
THEOREM ChangesAreKept == ContentSpec => []NoChangeLost
<1>1. IndInv => NoChangeLost
  BY DEF IndInv, Kept, InLog, NoChangeLost, Changed, Logged
<1> QED  BY <1>1, InitKept, StepKept, PTL DEF ContentSpec

-----------------------------------------------------------------------------
\* A set of numbers that is not empty has a smallest one: of the intervals that
\* end at its elements, one holds no other.
LEMMA SmallestOf ==
  ASSUME NEW S \in SUBSET Nat, S # {}
  PROVE  Min(S) \in S /\ \A y \in S : Min(S) <= y
<1> DEFINE F == {0..x : x \in S}
<1>1. F \subseteq FiniteSubsetsOf(Nat) /\ F # {}
  <2>1. \A x \in S : IsFiniteSet(0..x)
    BY FS_Interval
  <2>2. \A x \in S : 0..x \in SUBSET Nat
    OBVIOUS
  <2>3. \A x \in S : 0..x \in FiniteSubsetsOf(Nat)
    BY <2>1, <2>2 DEF FiniteSubsetsOf
  <2> QED  BY <2>3
<1>2. PICK I \in F : \A J \in F : <<J, I>> \notin StrictSubsetOrdering(Nat)
  <2> HIDE DEF F
  <2> QED  BY <1>1, FS_StrictSubsetOrderingWellFounded, WFMin
<1>3. PICK x \in S : I = 0..x
  BY <1>2
<1>4. ASSUME NEW y \in S PROVE x <= y
  <2>1. 0..y \in F /\ <<0..y, 0..x>> \notin StrictSubsetOrdering(Nat)
    BY <1>2, <1>3
  <2>2. SUFFICES ASSUME y < x PROVE FALSE
    OBVIOUS
  <2>3. 0..y \subseteq 0..x /\ x \in 0..x /\ x \notin 0..y
    BY <2>2
  <2>4. 0..y \in SUBSET Nat /\ 0..x \in SUBSET Nat
    OBVIOUS
  <2> QED  BY <2>1, <2>3, <2>4 DEF StrictSubsetOrdering
<1> QED  BY <1>4 DEF Min

\* The next id of a table is free, and the first of the free ones.
LEMMA NextIsFree ==
  ASSUME NEW ids \in SUBSET Nat, NEW used, AnyUnused(ids, used)
  PROVE  /\ NextOf(ids, used) \in ids \ used
         /\ \A n \in ids \ used : NextOf(ids, used) <= n
  BY SmallestOf DEF AnyUnused, NextOf

-----------------------------------------------------------------------------
\* An entry holds changes that were added for its request, and its layer.
Owned(entry) ==
  \A c \in entry.changes :
    /\ c \in Changed
    /\ change[c].request = entry.request
    /\ entry.layer # NoLayer => change[c].layer = entry.layer

\* No two entries hold the same change.
Apart(entries) ==
  \A e, f \in entries : e.changes \cap f.changes # {} => e = f

\* Only a flush has written entries, each of them its own request's.
EntriesOwned ==
  /\ \A k \in Clerks :
       /\ clerk[k].step # "flushing" => clerk[k].entries = {} /\ clerk[k].flushed = {}
       /\ \A e \in clerk[k].entries : Owned(e) /\ e.changes \subseteq clerk[k].flushed
  /\ \A e \in log : Owned(e.entry)

\* With one handler at a time, what is in the log is not pending, and what the
\* open transaction has marked is.
OneAtATime ==
  crew.clerks = 1 =>
    /\ \A k, o \in Clerks : clerk[k].step # "rest" /\ clerk[o].step # "rest" => k = o
    /\ \A k \in Clerks :
         /\ \A c \in clerk[k].flushed : change[c].state = "pending"
         /\ Apart(clerk[k].entries)
    /\ \A e \in log : \A c \in e.entry.changes : change[c].state # "pending"
    /\ \A e, f \in log : e.entry.changes \cap f.entry.changes # {} => e = f

LogInv == EntriesOwned /\ OneAtATime

\* A statement that leaves what a change says of itself alone.
ChangesStay ==
  \A c \in Changed : /\ c \in Changed'
                     /\ change'[c].request = change[c].request
                     /\ change'[c].layer = change[c].layer

LEMMA OwnedStays ==
  ASSUME ChangesStay, NEW e, Owned(e)
  PROVE  Owned(e)'
  BY DEF ChangesStay, Owned

\* Only one handler of a crew of one is at work.
LEMMA BeginsAlone ==
  ASSUME LogInv, NEW k \in Clerks, NEW record, BeginClerk(k, record), crew.clerks = 1
  PROVE  \A o \in Clerks : clerk[o].step = "rest"
<1> DEFINE busy == { o \in Clerks : clerk[o].step # "rest" }
<1>1. Cardinality(busy) < 1
  BY DEF BeginClerk
<1>2. ASSUME NEW o \in busy PROVE FALSE
  <2>1. busy = {o}
    BY <1>2 DEF LogInv, OneAtATime
  <2>2. Cardinality({o}) = 1
    BY FS_Singleton
  <2> QED  BY <1>1, <2>1, <2>2
<1> QED  BY <1>2

\* A row that is added takes no other row's place.
LEMMA AddedIsNew ==
  ASSUME IndInv, NEW row, IsChange(row), row.state = "pending", Add(row)
  PROVE  LET n == NextOf(ChangeIds, Changed)
         IN  /\ n \in ChangeIds \ Changed
             /\ \A c \in ChangeIds : c # n => change'[c] = change[c]
             /\ change'[n] = row
             /\ Changed' = Changed \cup {n}
             /\ ChangesStay
<1> DEFINE n == NextOf(ChangeIds, Changed)
<1>1. n \in ChangeIds \ Changed
  BY NextIsFree, ContentConstantsAssumption DEF Add
<1>2. change' = [c \in ChangeIds |-> IF c = n THEN row ELSE change[c]]
  BY DEF IndInv, Add
<1> HIDE DEF n
<1>3. Changed' = Changed \cup {n}
  BY <1>1, <1>2 DEF Changed
<1>4. ChangesStay
  BY <1>1, <1>2, <1>3 DEF ChangesStay, Changed
<1>5. /\ n \in ChangeIds \ Changed
      /\ \A c \in ChangeIds : c # n => change'[c] = change[c]
      /\ change'[n] = row /\ Changed' = Changed \cup {n} /\ ChangesStay
  BY <1>1, <1>2, <1>3, <1>4
<1> QED  BY <1>5 DEF n

\* A step of a handler that has written no entry, or begins, or ends without a
\* commit.
LEMMA QuietStep ==
  ASSUME IndInv, LogInv, NEW k \in Clerks, NEW record,
         clerk' = [clerk EXCEPT ![k] = record],
         record.entries = {}, record.flushed = {},
         \/ record.step = "rest"
         \/ clerk[k].step # "rest"
         \/ crew.clerks = 1 => \A o \in Clerks : clerk[o].step = "rest",
         \/ change' = change
         \/ \E row : IsChange(row) /\ row.state = "pending" /\ Add(row),
         log' = log, crew' = crew
  PROVE  LogInv'
<1>1. clerk' = [o \in Clerks |-> IF o = k THEN record ELSE clerk[o]]
  BY DEF IndInv
<1>2. ChangesStay /\ \A c \in Changed : change'[c].state = change[c].state
  <2>1. CASE change' = change
    BY <2>1 DEF ChangesStay, Changed
  <2>2. CASE \E row : IsChange(row) /\ row.state = "pending" /\ Add(row)
    BY <2>2, AddedIsNew DEF Changed
  <2> QED  BY <2>1, <2>2
<1>3. EntriesOwned'
  <2>1. \A o \in Clerks : \A e \in clerk'[o].entries :
          Owned(e)' /\ e.changes \subseteq clerk'[o].flushed
    BY <1>1, <1>2, OwnedStays DEF LogInv, EntriesOwned
  <2>2. \A e \in log' : Owned(e.entry)'
    BY <1>2, OwnedStays DEF LogInv, EntriesOwned
  <2> QED  BY <1>1, <2>1, <2>2 DEF LogInv, EntriesOwned
<1>4. ASSUME crew.clerks = 1
      PROVE  /\ \A o, p \in Clerks :
                  clerk'[o].step # "rest" /\ clerk'[p].step # "rest" => o = p
             /\ \A o \in Clerks :
                  /\ \A c \in clerk'[o].flushed : change'[c].state = "pending"
                  /\ Apart(clerk'[o].entries)
             /\ \A e \in log : \A c \in e.entry.changes : change'[c].state # "pending"
  <2>1. \A o, p \in Clerks :
          clerk'[o].step # "rest" /\ clerk'[p].step # "rest" => o = p
    BY <1>1, <1>4 DEF LogInv, OneAtATime
  <2>2. ASSUME NEW o \in Clerks, NEW c \in clerk'[o].flushed
        PROVE  change'[c].state = "pending"
    <3>1. o # k /\ c \in clerk[o].flushed
      BY <1>1, <2>2
    <3>2. \E e \in clerk[o].entries : c \in e.changes
      BY <3>1 DEF IndInv, Covered
    <3>3. c \in Changed
      BY <3>2 DEF LogInv, EntriesOwned, Owned
    <3> QED  BY <1>2, <1>4, <3>1, <3>3 DEF LogInv, OneAtATime
  <2>3. \A o \in Clerks : Apart(clerk'[o].entries)
    BY <1>1, <1>4 DEF LogInv, OneAtATime, Apart
  <2>4. \A e \in log : \A c \in e.entry.changes : change'[c].state # "pending"
    BY <1>2, <1>4 DEF LogInv, OneAtATime, EntriesOwned, Owned
  <2> QED  BY <2>1, <2>2, <2>3, <2>4
<1>5. OneAtATime'
  BY <1>4 DEF LogInv, OneAtATime, Apart
<1> QED  BY <1>3, <1>5 DEF LogInv

\* One key of a flush: what it finds, no entry of its transaction holds.
LEMMA FlushKeyStep ==
  ASSUME IndInv, LogInv, NEW k \in Clerks, FlushKey(k)
  PROVE  LogInv'
<1> DEFINE me == clerk[k]
<1>1. PICK l \in me.unflushed :
        LET found == PendingOf(me.request, l) \ me.flushed IN
        clerk' = [clerk EXCEPT
          ![k].unflushed = me.unflushed \ {l},
          ![k].flushed = me.flushed \cup found,
          ![k].entries = IF found = {} THEN me.entries ELSE me.entries \cup
            {[request |-> me.request, layer |-> l, changes |-> found]}]
  BY DEF FlushKey, IndInv
<1> DEFINE found == PendingOf(me.request, l) \ me.flushed
           entry == [request |-> me.request, layer |-> l, changes |-> found]
           left == me.unflushed \ {l}
           marked == me.flushed \cup found
           entries == IF found = {} THEN me.entries ELSE me.entries \cup {entry}
           next == [me EXCEPT !.unflushed = left, !.flushed = marked,
                              !.entries = entries]
<1>2. clerk' = [o \in Clerks |-> IF o = k THEN next ELSE clerk[o]]
  BY <1>1 DEF IndInv
<1>3. me.step = "flushing" /\ log' = log /\ change' = change /\ crew' = crew
  BY DEF FlushKey, Doing
<1>4. /\ entry.changes = found /\ entry.request = me.request /\ entry.layer = l
  OBVIOUS
<1>5. Owned(entry)
  <2> HIDE DEF entry
  <2> QED  BY <1>4 DEF Owned, PendingOf, Changed
<1>6. \A c \in found : change[c].state = "pending" /\ c \notin me.flushed
  BY DEF PendingOf
<1> HIDE DEF left, marked, entries, entry, found
<1>7. next.step = "flushing" /\ next.flushed = marked /\ next.entries = entries
  BY <1>3 DEF IndInv, Covered, IsClerk, ClerkFields
<1> HIDE DEF next
<1>8. \A e \in entries : Owned(e) /\ e.changes \subseteq marked
  BY <1>4, <1>5 DEF LogInv, EntriesOwned, entries, marked
<1>9. \A e : Owned(e)' <=> Owned(e)
  BY <1>3 DEF Owned, Changed
<1>10. EntriesOwned'
  BY <1>2, <1>3, <1>7, <1>8, <1>9 DEF LogInv, EntriesOwned
<1>11. ASSUME crew.clerks = 1 PROVE Apart(entries)
  BY <1>4, <1>6, <1>11 DEF LogInv, EntriesOwned, OneAtATime, Apart, entries
<1>12. ASSUME crew.clerks = 1 PROVE \A c \in marked : change[c].state = "pending"
  BY <1>6, <1>12 DEF LogInv, OneAtATime, marked
<1>13. OneAtATime'
  BY <1>2, <1>3, <1>7, <1>11, <1>12 DEF LogInv, OneAtATime, Apart
<1> QED  BY <1>10, <1>13 DEF LogInv

\* The commit of a flush.
LEMMA CommitStep ==
  ASSUME IndInv, LogInv, NEW k \in Clerks, CommitFlush(k)
  PROVE  LogInv'
<1> DEFINE me == clerk[k]
           number == Cardinality(log)
<1>1. /\ log' = log \cup { [entry |-> e, number |-> number] : e \in me.entries }
      /\ change' = [c \in ChangeIds |->
                     IF c \in me.flushed /\ change[c].state = "pending"
                     THEN [change[c] EXCEPT !.state = "flushed"] ELSE change[c]]
      /\ crew' = crew
  BY DEF CommitFlush
<1> HIDE DEF number
<1>2. clerk' = [o \in Clerks |-> IF o = k THEN AtRest ELSE clerk[o]]
  BY DEF IndInv, CommitFlush
<1>3. /\ ChangesStay
      /\ \A c \in Changed : change'[c].state =
           IF c \in me.flushed /\ change[c].state = "pending" THEN "flushed"
           ELSE change[c].state
  <2>1. \A c \in Changed :
          /\ change'[c].request = change[c].request
          /\ change'[c].layer = change[c].layer
          /\ change'[c].state =
               IF c \in me.flushed /\ change[c].state = "pending" THEN "flushed"
               ELSE change[c].state
    BY <1>1 DEF Changed, IndInv, Kept, IsChange, ChangeFields
  <2> QED  BY <2>1 DEF ChangesStay, Changed
<1>4. \A e \in log' : e \in log \/ (e.entry \in me.entries
                                    /\ e = [entry |-> e.entry, number |-> number])
  BY <1>1
<1>5. AtRest.entries = {} /\ AtRest.flushed = {} /\ AtRest.step = "rest"
  BY DEF AtRest
<1>6. EntriesOwned'
  <2>1. \A o \in Clerks : \A e \in clerk'[o].entries :
          Owned(e)' /\ e.changes \subseteq clerk'[o].flushed
    BY <1>2, <1>3, <1>5, OwnedStays DEF LogInv, EntriesOwned
  <2>2. \A e \in log' : Owned(e.entry)'
    BY <1>3, <1>4, OwnedStays DEF LogInv, EntriesOwned
  <2> QED  BY <1>2, <1>5, <2>1, <2>2 DEF LogInv, EntriesOwned
<1>7. ASSUME crew.clerks = 1
      PROVE  /\ \A o \in Clerks : o # k =>
                  clerk[o].step = "rest" /\ clerk[o].entries = {} /\ clerk[o].flushed = {}
             /\ \A e \in log' : \A c \in e.entry.changes : change'[c].state # "pending"
             /\ \A e, f \in log' : e.entry.changes \cap f.entry.changes # {} => e = f
  <2>1. \A o \in Clerks : o # k =>
          clerk[o].step = "rest" /\ clerk[o].entries = {} /\ clerk[o].flushed = {}
    BY <1>7 DEF LogInv, OneAtATime, EntriesOwned, CommitFlush, Doing
  <2>2. ASSUME NEW e \in log', NEW c \in e.entry.changes
        PROVE  change'[c].state # "pending"
    <3>1. CASE e \in log
      BY <1>3, <1>7, <2>2, <3>1 DEF LogInv, OneAtATime, EntriesOwned, Owned
    <3>2. CASE e.entry \in me.entries
      <4>1. c \in me.flushed /\ c \in Changed
        BY <2>2, <3>2 DEF LogInv, EntriesOwned, Owned
      <4> QED  BY <1>3, <1>7, <4>1
    <3> QED  BY <1>4, <3>1, <3>2
  <2>3. ASSUME NEW e \in log, NEW f \in me.entries
        PROVE  e.entry.changes \cap f.changes = {}
    BY <1>7 DEF LogInv, OneAtATime, EntriesOwned
  <2>4. ASSUME NEW e \in log', NEW f \in log', e.entry.changes \cap f.entry.changes # {}
        PROVE  e = f
    <3>1. CASE e \in log /\ f \in log
      BY <1>7, <2>4, <3>1 DEF LogInv, OneAtATime
    <3>2. CASE e \notin log /\ f \notin log
      BY <1>4, <1>7, <2>4, <3>2 DEF LogInv, OneAtATime, Apart
    <3>3. CASE e \in log /\ f \notin log
      BY <1>4, <2>3, <2>4, <3>3
    <3>4. CASE e \notin log /\ f \in log
      BY <1>4, <2>3, <2>4, <3>4
    <3> QED  BY <3>1, <3>2, <3>3, <3>4
  <2> QED  BY <2>1, <2>2, <2>4
<1>8. OneAtATime'
  BY <1>1, <1>2, <1>5, <1>7 DEF OneAtATime, Apart
<1> QED  BY <1>6, <1>8 DEF LogInv

\* The clean-up of what was flushed.
LEMMA CleanupStep ==
  ASSUME IndInv, LogInv, Cleanup
  PROVE  LogInv'
<1>1. PICK last \in ChangeIds :
        change' = [c \in ChangeIds |->
                    IF c <= last /\ change[c].state = "flushed"
                    THEN [change[c] EXCEPT !.state = "cleaned"] ELSE change[c]]
  BY DEF Cleanup
<1>2. log' = log /\ clerk' = clerk /\ crew' = crew
  BY DEF Cleanup
<1>3. \A c \in Changed :
        /\ change'[c].request = change[c].request
        /\ change'[c].layer = change[c].layer
        /\ change'[c].state # "none"
        /\ change'[c].state = "pending" <=> change[c].state = "pending"
  BY <1>1 DEF Changed, IndInv, Kept, IsChange, ChangeFields
<1>4. ChangesStay
  BY <1>3 DEF ChangesStay, Changed
<1>5. EntriesOwned'
  BY <1>2, <1>4, OwnedStays DEF LogInv, EntriesOwned
<1>6. \A o \in Clerks : clerk[o].flushed \subseteq Changed
  BY DEF IndInv, Covered, LogInv, EntriesOwned, Owned
<1>7. OneAtATime'
  BY <1>2, <1>3, <1>6 DEF LogInv, OneAtATime, EntriesOwned, Owned, Apart
<1> QED  BY <1>5, <1>7 DEF LogInv

LEMMA LogInit == ContentInit => LogInv
  BY DEF ContentInit, LogInv, EntriesOwned, OneAtATime, AtRest, Apart

LEMMA LogStep == IndInv /\ LogInv /\ [ContentNext]_logVars => LogInv'
<1> SUFFICES ASSUME IndInv, LogInv, [ContentNext]_logVars PROVE LogInv'
  OBVIOUS
<1>0. CASE UNCHANGED logVars
  BY <1>0 DEF logVars, LogInv, EntriesOwned, OneAtATime, Owned, Changed, Apart
<1>r. IsClerk(AtRest) /\ AtRest.entries = {} /\ AtRest.flushed = {} /\ AtRest.step = "rest"
  BY RestCovered DEF Covered, AtRest
<1>n. ASSUME NEW k \in Clerks,
             \/ FindContent(k) \/ ReadBefore(k) \/ SaveContent(k) \/ CreateContent(k)
             \/ AddSpecChange(k) \/ EditForRequests(k) \/ AddRequestChange(k)
             \/ BeginFlush(k) \/ FlushKey(k) \/ CommitFlush(k) \/ FailClerk(k)
      PROVE  LogInv'
  <2> DEFINE me == clerk[k]
  <2>0. /\ IsClerk(me)
        /\ me.step # "flushing" => me.entries = {} /\ me.flushed = {}
    BY DEF IndInv, Covered, LogInv, EntriesOwned
  <2>b. ASSUME NEW record, BeginClerk(k, record), record.entries = {}, record.flushed = {},
               change' = change, log' = log, crew' = crew
        PROVE  LogInv'
    BY <1>n, <2>b, BeginsAlone, QuietStep DEF BeginClerk
  <2>1. CASE FindContent(k)
    <3>1. PICK l \in LogLayers, i \in SpecItems, v \in crew.values :
            LET begin == [ AtRest EXCEPT !.request = Owner[l], !.layer = l,
                                         !.key = <<Owner[l], i>>, !.after = v ]
            IN  \/ BeginClerk(k, [begin EXCEPT !.step = "saving"])
                \/ \E n : BeginClerk(k, [begin EXCEPT !.step = "reading", !.row = n])
      BY <2>1 DEF FindContent
    <3> DEFINE begin == [ AtRest EXCEPT !.request = Owner[l], !.layer = l,
                                        !.key = <<Owner[l], i>>, !.after = v ]
    <3>2. IsClerk(begin) /\ begin.entries = {} /\ begin.flushed = {}
      BY <1>r DEF IsClerk, ClerkFields
    <3>3. change' = change /\ log' = log /\ crew' = crew
      BY <2>1 DEF FindContent
    <3> HIDE DEF begin
    <3>4. [begin EXCEPT !.step = "saving"].entries = {}
          /\ [begin EXCEPT !.step = "saving"].flushed = {}
      BY <3>2 DEF IsClerk, ClerkFields
    <3>5. \A n : [begin EXCEPT !.step = "reading", !.row = n].entries = {}
                 /\ [begin EXCEPT !.step = "reading", !.row = n].flushed = {}
      BY <3>2 DEF IsClerk, ClerkFields
    <3>6. \/ BeginClerk(k, [begin EXCEPT !.step = "saving"])
          \/ \E n : BeginClerk(k, [begin EXCEPT !.step = "reading", !.row = n])
      BY <3>1 DEF begin
    <3> QED  BY <2>b, <3>3, <3>4, <3>5, <3>6
  <2>2. CASE ReadBefore(k)
    <3> DEFINE before == content[me.row].value
               next == [me EXCEPT !.before = before, !.step = "saving"]
    <3>1. /\ clerk' = [clerk EXCEPT ![k] = next] /\ me.step = "reading"
          /\ change' = change /\ log' = log /\ crew' = crew
      BY <2>2 DEF ReadBefore, Doing
    <3>2. next.entries = {} /\ next.flushed = {}
      BY <2>0, <3>1 DEF IsClerk, ClerkFields
    <3> HIDE DEF next
    <3> QED  BY <1>n, <3>1, <3>2, QuietStep
  <2>3. CASE SaveContent(k)
    <3> DEFINE next == [me EXCEPT !.step = "adding"]
    <3>1. /\ clerk' = [clerk EXCEPT ![k] = next] /\ me.step = "saving"
          /\ change' = change /\ log' = log /\ crew' = crew
      BY <2>3 DEF SaveContent, Doing
    <3>2. next.entries = {} /\ next.flushed = {}
      BY <2>0, <3>1 DEF IsClerk, ClerkFields
    <3> HIDE DEF next
    <3> QED  BY <1>n, <3>1, <3>2, QuietStep
  <2>4. CASE CreateContent(k)
    <3>1. PICK n : clerk' = [clerk EXCEPT ![k].row = n, ![k].step = "adding"]
      BY <2>4 DEF CreateContent
    <3> DEFINE next == [me EXCEPT !.row = n, !.step = "adding"]
    <3>2. /\ clerk' = [clerk EXCEPT ![k] = next]
      BY <3>1
    <3>3. /\ me.step = "saving" /\ change' = change /\ log' = log /\ crew' = crew
      BY <2>4 DEF CreateContent, Doing
    <3>4. next.entries = {} /\ next.flushed = {}
      BY <2>0, <3>3 DEF IsClerk, ClerkFields
    <3> HIDE DEF next
    <3> QED  BY <1>n, <3>2, <3>3, <3>4, QuietStep
  <2>5. CASE AddSpecChange(k)
    <3> DEFINE row == [ state |-> "pending", request |-> me.request,
                        layer |-> me.layer, row |-> me.row,
                        before |-> me.before, after |-> me.after ]
    <3>1. IsChange(row) /\ row.state = "pending"
      BY DEF IsChange, ChangeFields
    <3>2. /\ Add(row) /\ clerk' = [clerk EXCEPT ![k] = AtRest]
          /\ log' = log /\ crew' = crew
      BY <2>5 DEF AddSpecChange
    <3> HIDE DEF row
    <3> QED  BY <1>n, <1>r, <3>1, <3>2, QuietStep
  <2>6. CASE EditForRequests(k)
    <3>1. PICK requests : BeginClerk(k, [AtRest EXCEPT !.step = "spreading",
                                                       !.todo = requests])
      BY <2>6 DEF EditForRequests
    <3> DEFINE next == [AtRest EXCEPT !.step = "spreading", !.todo = requests]
    <3>2. next.entries = {} /\ next.flushed = {}
      BY <1>r DEF IsClerk, ClerkFields
    <3>3. change' = change /\ log' = log /\ crew' = crew
      BY <2>6 DEF EditForRequests
    <3> HIDE DEF next
    <3> QED  BY <2>b, <3>1, <3>2, <3>3 DEF next
  <2>7. CASE AddRequestChange(k)
    <3>1. PICK r \in me.todo :
            /\ Add([NoChange EXCEPT !.state = "pending", !.request = r])
            /\ clerk' = [clerk EXCEPT ![k] =
                 IF me.todo = {r} THEN AtRest ELSE [me EXCEPT !.todo = @ \ {r}]]
      BY <2>7 DEF AddRequestChange
    <3> DEFINE row == [NoChange EXCEPT !.state = "pending", !.request = r]
               left == me.todo \ {r}
               less == [me EXCEPT !.todo = left]
               next == IF me.todo = {r} THEN AtRest ELSE less
    <3>2. IsChange(NoChange)
      BY DEF IsChange, ChangeFields, NoChange
    <3>3. IsChange(row) /\ row.state = "pending"
      BY <3>2 DEF IsChange, ChangeFields
    <3>4. /\ Add(row) /\ clerk' = [clerk EXCEPT ![k] = next] /\ me.step = "spreading"
          /\ log' = log /\ crew' = crew
      BY <2>7, <3>1 DEF AddRequestChange, Doing
    <3>5. less.entries = {} /\ less.flushed = {}
      BY <2>0, <3>4 DEF IsClerk, ClerkFields
    <3> HIDE DEF row, less
    <3>6. next.entries = {} /\ next.flushed = {}
      BY <1>r, <3>5
    <3> HIDE DEF next
    <3> QED  BY <1>n, <3>3, <3>4, <3>6, QuietStep
  <2>8. CASE BeginFlush(k)
    <3>1. PICK r, keys :
            BeginClerk(k, [AtRest EXCEPT !.step = "flushing", !.request = r,
                                         !.unflushed = keys])
      BY <2>8 DEF BeginFlush
    <3> DEFINE next == [AtRest EXCEPT !.step = "flushing", !.request = r,
                                      !.unflushed = keys]
    <3>2. next.entries = {} /\ next.flushed = {}
      BY <1>r DEF IsClerk, ClerkFields
    <3>3. change' = change /\ log' = log /\ crew' = crew
      BY <2>8 DEF BeginFlush
    <3> HIDE DEF next
    <3> QED  BY <2>b, <3>1, <3>2, <3>3 DEF next
  <2>9. CASE FlushKey(k)
    BY <1>n, <2>9, FlushKeyStep
  <2>10. CASE CommitFlush(k)
    BY <1>n, <2>10, CommitStep
  <2>11. CASE FailClerk(k)
    BY <1>n, <1>r, <2>11, QuietStep DEF FailClerk
  <2> QED  BY <1>n, <2>1, <2>2, <2>3, <2>4, <2>5, <2>6, <2>7, <2>8, <2>9, <2>10,
              <2>11
<1> QED  BY <1>0, <1>n, CleanupStep DEF ContentNext

LEMMA LogInvariant == ContentSpec => [](IndInv /\ LogInv)
<1>1. ContentInit => IndInv /\ LogInv
  BY InitKept, LogInit
<1>2. IndInv /\ LogInv /\ [ContentNext]_logVars => (IndInv /\ LogInv)'
  BY StepKept, LogStep
<1> QED  BY <1>1, <1>2, PTL DEF ContentSpec

\* However handlers overlap, fail and are cleaned up after, an entry of the action
\* log holds changes of its own request, and of its layer when it has one.
THEOREM EntriesHoldTheirOwn == ContentSpec => []LayerLogsOwnChanges
<1>1. LogInv => LayerLogsOwnChanges
  BY DEF LogInv, EntriesOwned, Owned, LayerLogsOwnChanges
<1> QED  BY <1>1, LogInvariant, PTL

\* With one handler at a time, which may fail anywhere, no change is logged
\* twice: what a transaction marked it does not find again, and what a commit
\* logged is not pending any more.
THEOREM NothingLoggedTwice == ContentSpec => []LoggedOnce
<1>1. LogInv => LoggedOnce
  <2> SUFFICES ASSUME LogInv, crew.clerks = 1, NEW c \in Changed
               PROVE  Cardinality(Logged(c)) <= 1
    BY DEF LoggedOnce
  <2>1. \A e, f \in Logged(c) : e = f
    BY DEF LogInv, OneAtATime, Logged
  <2>2. CASE Logged(c) = {}
    BY <2>2, FS_EmptySet
  <2>3. CASE \E e : e \in Logged(c)
    <3>1. PICK e : Logged(c) = {e}
      BY <2>1, <2>3
    <3>2. Cardinality({e}) = 1
      BY FS_Singleton
    <3> QED  BY <3>1, <3>2
  <2> QED  BY <2>2, <2>3
<1> QED  BY <1>1, LogInvariant, PTL

-----------------------------------------------------------------------------
RowFields == {"key", "value"}
IsRow(m) == m = [f \in RowFields |-> m[f]]

Used == { n \in RowIds : content[n] # NoContent }

\* The changes of a row have led to value v.
Ends(n, v) ==
  IF ChangesOf(n) = {} THEN v = NoValue
  ELSE \E c \in ChangesOf(n) : /\ \A d \in ChangesOf(n) : d <= c
                               /\ change[c].after = v

\* Each change begins where the one before it ended.
Chained(n) ==
  \A c \in ChangesOf(n) :
    LET earlier == { d \in ChangesOf(n) : d < c } IN
    change[c].before = IF earlier = {} THEN NoValue ELSE change[Max(earlier)].after

\* What a handler knows of the row it is to save, or has saved.
Knows(m) ==
  /\ m.step = "reading" => m.row \in Used
  /\ m.step \in {"reading", "saving", "adding"} => m.after \in Values
  /\ m.step = "saving" =>
       \/ m.row = 0 /\ m.before = NoValue /\ m.key \in Keys /\ RowsOf(m.key) = {}
       \/ m.row \in Used /\ m.before = content[m.row].value
  /\ m.step = "adding" =>
       m.row \in Used /\ m.after = content[m.row].value /\ Ends(m.row, m.before)

\* The rows and their changes; a handler may still have to add the last one.
Recorded ==
  /\ \A n \in RowIds \ Used : ChangesOf(n) = {}
  /\ \A n, m \in Used : content[n].key = content[m].key => n = m
  /\ \A n \in Used :
       /\ content[n].value \in Values
       /\ Chained(n)
       /\ \/ Ends(n, content[n].value)
          \/ \E k \in Clerks : clerk[k].step = "adding" /\ clerk[k].row = n

HistoryInv ==
  /\ crew \in Crews
  /\ content = [n \in RowIds |-> content[n]]
  /\ \A n \in RowIds : IsRow(content[n])
  /\ \A c \in Changed, d \in ChangeIds \ Changed : c < d
  /\ crew.clerks = 1 /\ ~ crew.mayFail =>
       Recorded /\ \A k \in Clerks : Knows(clerk[k])

-----------------------------------------------------------------------------
\* The greatest of a set is the one that no other exceeds.
LEMMA GreatestIs ==
  ASSUME NEW S \in SUBSET Nat, NEW m \in S, \A d \in S : d <= m
  PROVE  Max(S) = m
<1>1. PICK x \in S : x = Max(S) /\ \A y \in S : x >= y
  BY DEF Max
<1> QED  BY <1>1

\* A set of numbers with a bound has a greatest one.
LEMMA GreatestOf ==
  ASSUME NEW S \in SUBSET Nat, S # {}, NEW b \in Nat, \A x \in S : x <= b
  PROVE  Max(S) \in S /\ \A y \in S : y <= Max(S)
<1> DEFINE T == {b - x : x \in S}
<1>1. T \in SUBSET Nat /\ T # {}
  <2>1. \A x \in S : b - x \in Nat
    OBVIOUS
  <2> QED  BY <2>1
<1>2. PICK x \in S : \A y \in T : b - x <= y
  <2>1. Min(T) \in T /\ \A y \in T : Min(T) <= y
    BY <1>1, SmallestOf
  <2> QED  BY <2>1
<1>3. \A y \in S : x >= y
  BY <1>2
<1> QED  BY <1>3 DEF Max

\* The greatest of the changes before another is one of them.
LEMMA EarlierIsThere ==
  ASSUME NEW S \in SUBSET Nat, NEW c \in S, { d \in S : d < c } # {}
  PROVE  Max({ d \in S : d < c }) \in S
<1> DEFINE T == { d \in S : d < c }
<1>0. c \in Nat /\ S \subseteq Nat
  OBVIOUS
<1>2. T \subseteq S /\ T # {} /\ \A x \in T : x < c
  OBVIOUS
<1>1. T \in SUBSET Nat /\ T # {} /\ \A x \in T : x <= c
  <2> HIDE DEF T
  <2> QED  BY <1>0, <1>2
<1> HIDE DEF T
<1>3. Max(T) \in T
  BY <1>0, <1>1, GreatestOf
<1> QED  BY <1>2, <1>3 DEF T

\* A statement that leaves the rows and what is said of them alone.
Kindred ==
  \A n \in RowIds :
    /\ ChangesOf(n)' = ChangesOf(n)
    /\ \A c \in ChangesOf(n) : /\ change'[c].before = change[c].before
                               /\ change'[c].after = change[c].after

LEMMA RowsStay ==
  ASSUME HistoryInv, Kindred
  PROVE  \A n \in RowIds : /\ \A v : Ends(n, v)' <=> Ends(n, v)
                           /\ Chained(n)' <=> Chained(n)
<1>1. ASSUME NEW n \in RowIds, NEW v PROVE Ends(n, v)' <=> Ends(n, v)
  BY DEF Kindred, Ends
<1>2. ASSUME NEW n \in RowIds PROVE Chained(n)' <=> Chained(n)
  <2>1. ASSUME NEW c \in ChangesOf(n), { d \in ChangesOf(n) : d < c } # {}
        PROVE  Max({ d \in ChangesOf(n) : d < c }) \in ChangesOf(n)
    <3>1. ChangesOf(n) \in SUBSET Nat
      BY ContentConstantsAssumption DEF ChangesOf, Changed
    <3> QED  BY <2>1, <3>1, EarlierIsThere
  <2> QED  BY <2>1 DEF Kindred, Chained
<1> QED  BY <1>1, <1>2

\* A step of a handler that neither saves a row nor adds a row's change.
LEMMA ElsewhereStep ==
  ASSUME IndInv, HistoryInv, NEW k \in Clerks, NEW record,
         clerk' = [clerk EXCEPT ![k] = record],
         crew.clerks = 1 /\ ~ crew.mayFail =>
           Knows(record) /\ clerk[k].step # "adding" /\ record.step # "adding",
         content' = content, crew' = crew, Kindred,
         \A c \in Changed', d \in ChangeIds \ Changed' : c < d
  PROVE  HistoryInv'
<1>1. clerk' = [o \in Clerks |-> IF o = k THEN record ELSE clerk[o]]
  BY DEF IndInv
<1>2. \A n \in RowIds : /\ \A v : Ends(n, v)' <=> Ends(n, v)
                        /\ Chained(n)' <=> Chained(n)
  BY RowsStay
<1>3. Used' = Used /\ Used \subseteq RowIds /\ \A key : RowsOf(key)' = RowsOf(key)
  BY DEF Used, RowsOf
<1>4. \A m : Knows(m)' <=> Knows(m)
  BY <1>2, <1>3 DEF Knows
<1>5. ASSUME crew.clerks = 1, ~ crew.mayFail
      PROVE  Recorded' /\ \A o \in Clerks : Knows(clerk[o])'
  <2>1. Recorded /\ \A o \in Clerks : Knows(clerk[o])
    BY <1>5 DEF HistoryInv
  <2>2. \A o \in Clerks : Knows(clerk[o])'
    BY <1>1, <1>4, <1>5, <2>1
  <2>3. Recorded'
    BY <1>1, <1>2, <1>3, <1>5, <2>1 DEF Recorded, Kindred
  <2> QED  BY <2>2, <2>3
<1> QED  BY <1>5 DEF HistoryInv, IsRow

\* In a crew of one only one handler is at work.
LEMMA AloneAtWork ==
  ASSUME LogInv, crew.clerks = 1, NEW k \in Clerks, clerk[k].step # "rest"
  PROVE  \A o \in Clerks : o # k => clerk[o].step = "rest"
  BY DEF LogInv, OneAtATime

\* The value of a row is replaced.
LEMMA SaveStep ==
  ASSUME IndInv, LogInv, HistoryInv, NEW k \in Clerks, SaveContent(k)
  PROVE  HistoryInv'
<1>a. PICK me : me = clerk[k]
  OBVIOUS
<1>b. PICK row : row = me.row
  OBVIOUS
<1>c. PICK next : next = [me EXCEPT !.step = "adding"]
  OBVIOUS
<1>1. /\ me.step = "saving" /\ row # 0
      /\ content' = [content EXCEPT ![row].value = me.after]
      /\ clerk' = [clerk EXCEPT ![k] = next]
      /\ change' = change /\ crew' = crew
  BY <1>a, <1>b, <1>c DEF SaveContent, Doing
<1>2. /\ next.step = "adding" /\ next.row = row /\ next.after = me.after
      /\ next.before = me.before /\ next.key = me.key
  BY <1>a, <1>b, <1>c DEF IndInv, Covered, IsClerk, ClerkFields
<1>3. clerk' = [o \in Clerks |-> IF o = k THEN next ELSE clerk[o]]
  BY <1>1 DEF IndInv
<1>4. /\ content' = [n \in RowIds |-> content'[n]]
      /\ \A n \in RowIds : /\ IsRow(content'[n])
                           /\ content'[n].key = content[n].key
                           /\ content'[n].value =
                                IF n = row THEN me.after ELSE content[n].value
                           /\ n # row => content'[n] = content[n]
  <2>1. content' = [n \in RowIds |-> IF n = row THEN [content[n] EXCEPT !.value = me.after]
                                     ELSE content[n]]
    BY <1>1 DEF HistoryInv
  <2>2. \A n \in RowIds : /\ IsRow([content[n] EXCEPT !.value = me.after])
                          /\ [content[n] EXCEPT !.value = me.after].key = content[n].key
                          /\ [content[n] EXCEPT !.value = me.after].value = me.after
    BY DEF HistoryInv, IsRow, RowFields
  <2> QED  BY <2>1, <2>2 DEF HistoryInv
<1>5. /\ Changed' = Changed /\ \A n : ChangesOf(n)' = ChangesOf(n)
      /\ \A n, v : Ends(n, v)' <=> Ends(n, v)
      /\ \A n : Chained(n)' <=> Chained(n)
  BY <1>1 DEF Changed, ChangesOf, Ends, Chained
<1>6. ASSUME crew.clerks = 1, ~ crew.mayFail
      PROVE  Recorded' /\ \A o \in Clerks : Knows(clerk[o])'
  <2>1. Recorded /\ Knows(me)
    BY <1>a, <1>6 DEF HistoryInv
  <2>2. row \in Used /\ me.before = content[row].value /\ me.after \in Values
    BY <1>1, <1>b, <2>1 DEF Knows
  <2>3. \A o \in Clerks : o # k => clerk[o].step = "rest"
    BY <1>a, <1>1, <1>6, AloneAtWork
  <2>4. Used' = Used /\ Used \subseteq RowIds
    <3>1. row \in RowIds /\ content'[row].value # NoContent.value
      BY <1>4, <2>2, ContentConstantsAssumption DEF Used, NoContent
    <3> QED  BY <1>4, <2>2, <3>1 DEF Used
  <2>5. Ends(row, me.before)
    BY <1>1, <1>a, <2>1, <2>2, <2>3 DEF Recorded
  <2>6. Knows(next)'
    BY <1>2, <1>4, <1>5, <2>2, <2>4, <2>5 DEF Knows
  <2>7. \A o \in Clerks : Knows(clerk[o])'
    BY <1>3, <2>3, <2>6 DEF Knows
  <2>8. Recorded'
    <3>1. \A n \in RowIds \ Used' : ChangesOf(n)' = {}
      BY <1>5, <2>1, <2>4 DEF Recorded
    <3>2. \A n, m \in Used' : content'[n].key = content'[m].key => n = m
      BY <1>4, <2>1, <2>4 DEF Recorded
    <3>3. ASSUME NEW n \in Used'
          PROVE  /\ content'[n].value \in Values
                 /\ Chained(n)'
                 /\ \/ Ends(n, content[n].value)'
                    \/ \E o \in Clerks : clerk'[o].step = "adding" /\ clerk'[o].row = n
      <4>1. CASE n = row
        BY <1>2, <1>3, <1>4, <1>5, <2>1, <2>2, <2>4, <4>1 DEF Recorded
      <4>2. CASE n # row
        <5>1. Ends(n, content[n].value)
          BY <1>1, <1>a, <2>1, <2>3, <2>4 DEF Recorded
        <5>2. content'[n] = content[n]
          BY <1>4, <2>4, <4>2
        <5> QED  BY <1>5, <2>1, <2>4, <5>1, <5>2 DEF Recorded
      <4> QED  BY <4>1, <4>2
    <3> QED  BY <3>1, <3>2, <3>3 DEF Recorded
  <2> QED  BY <2>7, <2>8
<1>7. \A c \in Changed', d \in ChangeIds \ Changed' : c < d
  BY <1>5 DEF HistoryInv
<1> QED  BY <1>1, <1>4, <1>6, <1>7 DEF HistoryInv, IsRow

\* A row is inserted.
LEMMA CreateStep ==
  ASSUME IndInv, LogInv, HistoryInv, NEW k \in Clerks, CreateContent(k)
  PROVE  HistoryInv'
<1>a. PICK me : me = clerk[k]
  OBVIOUS
<1>b. PICK row : row = NextOf(RowIds, Used)
  OBVIOUS
<1>c. PICK next : next = [me EXCEPT !.row = row, !.step = "adding"]
  OBVIOUS
<1>d. PICK created : created = [key |-> me.key, value |-> me.after]
  OBVIOUS
<1>1. /\ me.step = "saving" /\ me.row = 0 /\ AnyUnused(RowIds, Used)
      /\ content' = [content EXCEPT ![row] = created]
      /\ clerk' = [clerk EXCEPT ![k] = next]
      /\ change' = change /\ crew' = crew
  BY <1>a, <1>b, <1>c, <1>d DEF CreateContent, Doing, Used
<1>2. row \in RowIds \ Used
  BY <1>1, <1>b, NextIsFree, ContentConstantsAssumption
<1>3. /\ next.step = "adding" /\ next.row = row /\ next.after = me.after
      /\ next.before = me.before
  BY <1>a, <1>c DEF IndInv, Covered, IsClerk, ClerkFields
<1>4. clerk' = [o \in Clerks |-> IF o = k THEN next ELSE clerk[o]]
  BY <1>1 DEF IndInv
<1>5. IsRow(created) /\ created.key = me.key /\ created.value = me.after
  BY <1>d DEF IsRow, RowFields
<1>6. content' = [n \in RowIds |-> IF n = row THEN created ELSE content[n]]
  BY <1>1 DEF HistoryInv
<1>7. /\ content' = [n \in RowIds |-> content'[n]]
      /\ \A n \in RowIds : IsRow(content'[n])
  BY <1>5, <1>6 DEF HistoryInv
<1>8. /\ Changed' = Changed /\ \A n : ChangesOf(n)' = ChangesOf(n)
      /\ \A n, v : Ends(n, v)' <=> Ends(n, v)
      /\ \A n : Chained(n)' <=> Chained(n)
  BY <1>1 DEF Changed, ChangesOf, Ends, Chained
<1>9. ASSUME crew.clerks = 1, ~ crew.mayFail
      PROVE  Recorded' /\ \A o \in Clerks : Knows(clerk[o])'
  <2>1. Recorded /\ Knows(me)
    BY <1>a, <1>9 DEF HistoryInv
  <2>2. /\ me.before = NoValue /\ me.after \in Values
        /\ me.key \in Keys /\ RowsOf(me.key) = {}
    BY <1>1, <2>1, ContentConstantsAssumption DEF Knows, Used
  <2>3. \A o \in Clerks : o # k => clerk[o].step = "rest"
    BY <1>a, <1>1, <1>9, AloneAtWork
  <2>4. Used' = Used \cup {row} /\ Used \subseteq RowIds
    <3>1. created # NoContent
      BY <1>5, <2>2, ContentConstantsAssumption DEF NoContent
    <3> QED  BY <1>2, <1>6, <3>1 DEF Used
  <2>5. ChangesOf(row) = {}
    BY <1>2, <2>1 DEF Recorded
  <2>6. Knows(next)'
    <3>1. row \in Used' /\ content'[row].value = me.after
      BY <1>2, <1>5, <1>6, <2>4
    <3>2. Ends(row, NoValue)
      BY <2>5 DEF Ends
    <3> QED  BY <1>3, <1>8, <2>2, <3>1, <3>2 DEF Knows
  <2>7. \A o \in Clerks : Knows(clerk[o])'
    BY <1>4, <2>3, <2>6 DEF Knows
  <2>8. Recorded'
    <3>1. \A n \in RowIds \ Used' : ChangesOf(n)' = {}
      BY <1>8, <2>1, <2>4 DEF Recorded
    <3>2. \A n, m \in Used' : content'[n].key = content'[m].key => n = m
      <4>1. \A n \in Used : content[n].key # me.key
        BY <2>2, <2>4 DEF RowsOf
      <4> QED  BY <1>2, <1>5, <1>6, <2>1, <2>4, <4>1 DEF Recorded
    <3>3. ASSUME NEW n \in Used'
          PROVE  /\ content'[n].value \in Values
                 /\ Chained(n)'
                 /\ \/ Ends(n, content[n].value)'
                    \/ \E o \in Clerks : clerk'[o].step = "adding" /\ clerk'[o].row = n
      <4>1. CASE n = row
        <5>1. Chained(n)
          BY <2>5, <4>1 DEF Chained
        <5> QED  BY <1>2, <1>3, <1>4, <1>5, <1>6, <1>8, <2>2, <4>1, <5>1
      <4>2. CASE n # row
        <5>1. Ends(n, content[n].value)
          BY <1>1, <1>a, <2>1, <2>3, <2>4, <4>2 DEF Recorded
        <5>2. content'[n] = content[n]
          BY <1>6, <2>4, <4>2
        <5> QED  BY <1>8, <2>1, <2>4, <4>2, <5>1, <5>2 DEF Recorded
      <4> QED  BY <4>1, <4>2
    <3> QED  BY <3>1, <3>2, <3>3 DEF Recorded
  <2> QED  BY <2>7, <2>8
<1>10. \A c \in Changed', d \in ChangeIds \ Changed' : c < d
  BY <1>8 DEF HistoryInv
<1> QED  BY <1>1, <1>7, <1>9, <1>10 DEF HistoryInv, IsRow

\* The next change comes after all that were added before.
LEMMA AddedIsLast ==
  ASSUME IndInv, HistoryInv, NEW row, IsChange(row), row.state = "pending", Add(row)
  PROVE  LET n == NextOf(ChangeIds, Changed)
         IN  /\ \A c \in Changed : c < n
             /\ \A c \in Changed', d \in ChangeIds \ Changed' : c < d
<1> DEFINE n == NextOf(ChangeIds, Changed)
<1>1. n \in ChangeIds \ Changed /\ Changed' = Changed \cup {n}
  BY AddedIsNew
<1>2. \A d \in ChangeIds \ Changed : n <= d
  BY NextIsFree, ContentConstantsAssumption DEF Add
<1> HIDE DEF n
<1>3. \A c \in Changed : c < n
  BY <1>1 DEF HistoryInv
<1>4. \A d \in ChangeIds \ Changed' : n < d
  BY <1>1, <1>2, ContentConstantsAssumption
<1>5. \A c \in Changed', d \in ChangeIds \ Changed' : c < d
  BY <1>1, <1>4 DEF HistoryInv
<1> QED  BY <1>3, <1>5 DEF n

\* The change of a row that was saved is added.
LEMMA RecordStep ==
  ASSUME IndInv, LogInv, HistoryInv, NEW k \in Clerks, AddSpecChange(k)
  PROVE  HistoryInv'
<1>a. PICK me : me = clerk[k]
  OBVIOUS
<1>b. PICK n : n = NextOf(ChangeIds, Changed)
  OBVIOUS
<1>c. PICK added : added = [ state |-> "pending", request |-> me.request,
                             layer |-> me.layer, row |-> me.row,
                             before |-> me.before, after |-> me.after ]
  OBVIOUS
<1>1. /\ me.step = "adding" /\ Add(added)
      /\ clerk' = [clerk EXCEPT ![k] = AtRest]
      /\ content' = content /\ crew' = crew
  BY <1>a, <1>c DEF AddSpecChange, Doing
<1>2. /\ IsChange(added) /\ added.state = "pending" /\ added.row = me.row
      /\ added.before = me.before /\ added.after = me.after
  BY <1>c DEF IsChange, ChangeFields
<1>3. /\ n \in ChangeIds \ Changed /\ Changed' = Changed \cup {n}
      /\ \A c \in ChangeIds : c # n => change'[c] = change[c]
      /\ change'[n] = added
  BY <1>1, <1>2, <1>b, AddedIsNew
<1>4. /\ \A c \in Changed : c < n
      /\ \A c \in Changed', d \in ChangeIds \ Changed' : c < d
  BY <1>1, <1>2, <1>b, AddedIsLast
<1>5. clerk' = [o \in Clerks |-> IF o = k THEN AtRest ELSE clerk[o]]
  BY <1>1 DEF IndInv
<1>6. Changed \subseteq ChangeIds /\ ChangeIds \subseteq Nat
  BY ContentConstantsAssumption DEF Changed
<1>7. \A r \in RowIds :
        ChangesOf(r)' = IF r = me.row THEN ChangesOf(r) \cup {n} ELSE ChangesOf(r)
  BY <1>2, <1>3, <1>6 DEF ChangesOf
<1>8. \A r : ChangesOf(r) \subseteq Changed
  BY DEF ChangesOf
<1>9. ASSUME crew.clerks = 1, ~ crew.mayFail
      PROVE  Recorded' /\ \A o \in Clerks : Knows(clerk[o])'
  <2>1. Recorded /\ Knows(me)
    BY <1>a, <1>9 DEF HistoryInv
  <2>2. /\ me.row \in Used /\ me.after = content[me.row].value
        /\ Ends(me.row, me.before)
    BY <1>1, <2>1 DEF Knows
  <2>3. \A o \in Clerks : o # k => clerk[o].step = "rest"
    BY <1>a, <1>1, <1>9, AloneAtWork
  <2>4. \A o \in Clerks : Knows(clerk[o])'
    BY <1>5, <2>3 DEF Knows, AtRest
  <2>5. Used' = Used /\ Used \subseteq RowIds
    BY <1>1 DEF Used
  <2>6. Ends(me.row, me.after)'
    <3>1. n \in ChangesOf(me.row)' /\ \A d \in ChangesOf(me.row)' : d <= n
      <4>1. ChangesOf(me.row)' = ChangesOf(me.row) \cup {n}
        BY <1>7, <2>2, <2>5
      <4>2. n \in Nat /\ \A d \in ChangesOf(me.row) : d \in Nat /\ d < n
        BY <1>3, <1>4, <1>6, <1>8
      <4> QED  BY <4>1, <4>2
    <3>2. change'[n].after = me.after
      BY <1>2, <1>3
    <3> QED  BY <3>1, <3>2 DEF Ends
  <2>7. ASSUME NEW r \in Used, r # me.row
        PROVE  Ends(r, content[r].value)' /\ Chained(r)'
    <3>1. Ends(r, content[r].value) /\ Chained(r)
      BY <1>1, <1>a, <2>1, <2>3, <2>7 DEF Recorded
    <3>2. ChangesOf(r)' = ChangesOf(r) /\ n \notin ChangesOf(r)
      BY <1>3, <1>7, <1>8, <2>5, <2>7
    <3>3. \A c \in ChangesOf(r) : change'[c] = change[c]
      BY <1>3, <1>6, <1>8, <3>2
    <3>4. Ends(r, content[r].value)'
      BY <1>1, <3>1, <3>2, <3>3 DEF Ends
    <3>5. ASSUME NEW c \in ChangesOf(r), { d \in ChangesOf(r) : d < c } # {}
          PROVE  Max({ d \in ChangesOf(r) : d < c }) \in ChangesOf(r)
      BY <1>6, <1>8, <3>5, EarlierIsThere
    <3> QED  BY <3>1, <3>2, <3>3, <3>4, <3>5 DEF Chained
  <2>8. Chained(me.row)'
    <3>0. PICK old : old = ChangesOf(me.row)
      OBVIOUS
    <3>1. old \subseteq Changed /\ ChangesOf(me.row)' = old \cup {n} /\ n \notin old
      BY <1>3, <1>7, <1>8, <2>2, <2>5, <3>0
    <3>2. \A c \in old : change'[c] = change[c] /\ c < n
      BY <1>3, <1>4, <1>6, <3>1
    <3>3. \A c \in old : { d \in old \cup {n} : d < c } = { d \in old : d < c }
      BY <1>3, <1>6, <3>1, <3>2
    <3>4. { d \in old \cup {n} : d < n } = old
      <4>1. n \in Nat /\ ~ n < n
        BY <1>3, <1>6
      <4> QED  BY <3>2, <4>1
    <3>5. change'[n].before = IF old = {} THEN NoValue ELSE change'[Max(old)].after
      <4>1. CASE old = {}
        BY <1>2, <1>3, <2>2, <3>0, <4>1 DEF Ends
      <4>2. CASE old # {}
        <5>1. PICK c \in old : (\A d \in old : d <= c) /\ change[c].after = me.before
          BY <2>2, <3>0, <4>2 DEF Ends
        <5>2. Max(old) = c
          BY <1>6, <3>1, <5>1, GreatestIs
        <5> QED  BY <1>2, <1>3, <3>2, <4>2, <5>1, <5>2
      <4> QED  BY <4>1, <4>2
    <3>6. ASSUME NEW c \in old
          PROVE  change'[c].before = IF { d \in old : d < c } = {} THEN NoValue
                                     ELSE change'[Max({ d \in old : d < c })].after
      <4>1. { d \in old : d < c } # {} => Max({ d \in old : d < c }) \in old
        BY <1>6, <3>1, EarlierIsThere
      <4>2. Chained(me.row)
        BY <2>1, <2>2 DEF Recorded
      <4> QED  BY <3>0, <3>2, <4>1, <4>2 DEF Chained
    <3> QED  BY <3>1, <3>3, <3>4, <3>5, <3>6 DEF Chained
  <2>9. Recorded'
    <3>1. \A r \in RowIds \ Used' : ChangesOf(r)' = {}
      BY <1>7, <2>1, <2>2, <2>5 DEF Recorded
    <3>2. ASSUME NEW r \in Used'
          PROVE  content'[r].value \in Values /\ Chained(r)' /\ Ends(r, content[r].value)'
      BY <1>1, <2>1, <2>2, <2>5, <2>6, <2>7, <2>8 DEF Recorded
    <3> QED  BY <1>1, <2>1, <2>5, <3>1, <3>2 DEF Recorded
  <2> QED  BY <2>4, <2>9
<1> QED  BY <1>1, <1>4, <1>9 DEF HistoryInv, IsRow

\* Only the states of some changes move on.
StatesOnly(marked, state) ==
  change' = [c \in ChangeIds |-> IF c \in marked THEN [change[c] EXCEPT !.state = state]
                                 ELSE change[c]]

LEMMA StatesAreKindred ==
  ASSUME IndInv, NEW marked \in SUBSET Changed, NEW state, state # "none",
         StatesOnly(marked, state)
  PROVE  Kindred /\ Changed' = Changed
<1>1. \A c \in ChangeIds :
        /\ change'[c].row = change[c].row
        /\ change'[c].before = change[c].before
        /\ change'[c].after = change[c].after
        /\ change'[c].state = IF c \in marked THEN state ELSE change[c].state
  BY DEF StatesOnly, IndInv, Kept, IsChange, ChangeFields
<1>2. Changed' = Changed
  BY <1>1 DEF Changed
<1> QED  BY <1>1, <1>2 DEF Kindred, ChangesOf, Changed

\* A step of no handler that leaves the rows and what is said of them alone.
LEMMA NobodyStep ==
  ASSUME HistoryInv, clerk' = clerk, content' = content, crew' = crew,
         Kindred, Changed' = Changed
  PROVE  HistoryInv'
<1>1. \A n \in RowIds : /\ \A v : Ends(n, v)' <=> Ends(n, v)
                        /\ Chained(n)' <=> Chained(n)
  BY RowsStay
<1>2. Used' = Used /\ Used \subseteq RowIds /\ \A key : RowsOf(key)' = RowsOf(key)
  BY DEF Used, RowsOf
<1>3. \A m : Knows(m)' <=> Knows(m)
  BY <1>1, <1>2 DEF Knows
<1>4. Recorded => Recorded'
  BY <1>1, <1>2 DEF Recorded, Kindred
<1> QED  BY <1>3, <1>4 DEF HistoryInv, IsRow

\* The clean-up of what was flushed.
LEMMA CleanupHistory ==
  ASSUME IndInv, HistoryInv, Cleanup
  PROVE  HistoryInv'
<1>1. PICK last \in ChangeIds :
        change' = [c \in ChangeIds |->
                    IF c <= last /\ change[c].state = "flushed"
                    THEN [change[c] EXCEPT !.state = "cleaned"] ELSE change[c]]
  BY DEF Cleanup
<1>2. PICK marked : marked = { c \in ChangeIds : c <= last /\ change[c].state = "flushed" }
  OBVIOUS
<1>3. Kindred /\ Changed' = Changed
  <2>1. marked \in SUBSET Changed
    BY <1>2 DEF Changed
  <2>2. StatesOnly(marked, "cleaned")
    BY <1>1, <1>2 DEF StatesOnly
  <2> QED  BY <2>1, <2>2, StatesAreKindred
<1> QED  BY <1>3, NobodyStep DEF Cleanup

\* A handler begins, or goes on, and leaves the tables alone.
LEMMA ClerkHistory ==
  ASSUME IndInv, HistoryInv, NEW k \in Clerks, NEW record,
         clerk' = [clerk EXCEPT ![k] = record],
         crew.clerks = 1 /\ ~ crew.mayFail =>
           Knows(record) /\ clerk[k].step # "adding" /\ record.step # "adding",
         content' = content, change' = change, crew' = crew
  PROVE  HistoryInv'
<1>1. Kindred /\ Changed' = Changed
  BY DEF Kindred, ChangesOf, Changed
<1>2. \A c \in Changed', d \in ChangeIds \ Changed' : c < d
  BY <1>1 DEF HistoryInv
<1> QED  BY <1>1, <1>2, ElsewhereStep

\* The commit of a flush.
LEMMA CommitHistory ==
  ASSUME IndInv, HistoryInv, NEW k \in Clerks, CommitFlush(k)
  PROVE  HistoryInv'
<1>1. /\ clerk' = [clerk EXCEPT ![k] = AtRest]
      /\ content' = content /\ crew' = crew /\ clerk[k].step = "flushing"
  BY DEF CommitFlush, Doing
<1>2. PICK marked :
        marked = { c \in ChangeIds : c \in clerk[k].flushed /\ change[c].state = "pending" }
  OBVIOUS
<1>3. Kindred /\ Changed' = Changed
  <2>1. marked \in SUBSET Changed
    BY <1>2 DEF Changed
  <2>2. StatesOnly(marked, "flushed")
    BY <1>2 DEF StatesOnly, CommitFlush
  <2> QED  BY <2>1, <2>2, StatesAreKindred
<1>4. \A c \in Changed', d \in ChangeIds \ Changed' : c < d
  BY <1>3 DEF HistoryInv
<1>5. Knows(AtRest) /\ AtRest.step = "rest"
  BY DEF Knows, AtRest
<1> QED  BY <1>1, <1>3, <1>4, <1>5, ElsewhereStep

\* A change that is of no row of a spec content.
LEMMA RequestChangeHistory ==
  ASSUME IndInv, HistoryInv, NEW k \in Clerks, AddRequestChange(k)
  PROVE  HistoryInv'
<1>a. PICK me : me = clerk[k]
  OBVIOUS
<1>1. PICK r \in me.todo :
        /\ Add([NoChange EXCEPT !.state = "pending", !.request = r])
        /\ clerk' = [clerk EXCEPT ![k] =
             IF me.todo = {r} THEN AtRest ELSE [me EXCEPT !.todo = @ \ {r}]]
  BY <1>a DEF AddRequestChange
<1>b. PICK row : row = [NoChange EXCEPT !.state = "pending", !.request = r]
  OBVIOUS
<1>c. PICK left : left = me.todo \ {r}
  OBVIOUS
<1>d. PICK less : less = [me EXCEPT !.todo = left]
  OBVIOUS
<1>e. PICK next : next = IF me.todo = {r} THEN AtRest ELSE less
  OBVIOUS
<1>f. PICK n : n = NextOf(ChangeIds, Changed)
  OBVIOUS
<1>2. /\ clerk' = [clerk EXCEPT ![k] = next]
      /\ content' = content /\ crew' = crew /\ me.step = "spreading"
  <2>1. clerk' = [clerk EXCEPT ![k] = next]
    BY <1>1, <1>c, <1>d, <1>e
  <2> QED  BY <2>1, <1>a DEF AddRequestChange, Doing
<1>3. IsChange(row) /\ row.state = "pending" /\ row.row = 0 /\ Add(row)
  <2>1. IsChange(NoChange) /\ NoChange.row = 0
    BY DEF IsChange, ChangeFields, NoChange
  <2>2. IsChange(row) /\ row.state = "pending" /\ row.row = 0
    BY <1>b, <2>1 DEF IsChange, ChangeFields
  <2> QED  BY <1>1, <1>b, <2>2
<1>4. less.step = "spreading"
  BY <1>2, <1>a, <1>d DEF IndInv, Covered, IsClerk, ClerkFields
<1>5. Knows(next) /\ next.step # "adding"
  BY <1>4, <1>e DEF Knows, AtRest
<1>6. /\ n \in ChangeIds \ Changed /\ Changed' = Changed \cup {n}
      /\ \A c \in ChangeIds : c # n => change'[c] = change[c]
      /\ change'[n] = row
  BY <1>3, <1>f, AddedIsNew
<1>7. \A c \in Changed', d \in ChangeIds \ Changed' : c < d
  BY <1>3, AddedIsLast
<1>8. Kindred
  <2>1. 0 \notin RowIds /\ Changed \subseteq ChangeIds
    BY ContentConstantsAssumption DEF Changed
  <2>2. \A c \in Changed : change'[c] = change[c]
    BY <1>6, <2>1
  <2>3. \A o \in RowIds : ChangesOf(o)' = ChangesOf(o)
    BY <1>3, <1>6, <2>1, <2>2 DEF ChangesOf
  <2> QED  BY <2>2, <2>3 DEF Kindred, ChangesOf
<1> QED  BY <1>a, <1>2, <1>5, <1>7, <1>8, ElsewhereStep

LEMMA HistoryInit == ContentInit => HistoryInv
<1> SUFFICES ASSUME ContentInit PROVE HistoryInv
  OBVIOUS
<1>1. IsRow(NoContent)
  BY DEF IsRow, RowFields, NoContent
<1>2. Used = {} /\ Changed = {}
  BY DEF ContentInit, Used, Changed, NoChange
<1>3. Recorded
  BY <1>2 DEF Recorded, ChangesOf
<1>4. Knows(AtRest)
  BY DEF Knows, AtRest
<1> QED  BY <1>1, <1>2, <1>3, <1>4 DEF ContentInit, HistoryInv

LEMMA HistoryStep ==
  IndInv /\ LogInv /\ HistoryInv /\ [ContentNext]_logVars => HistoryInv'
<1> SUFFICES ASSUME IndInv, LogInv, HistoryInv, [ContentNext]_logVars PROVE HistoryInv'
  OBVIOUS
<1>0. CASE UNCHANGED logVars
  <2>1. Kindred /\ Changed' = Changed
    BY <1>0 DEF logVars, Kindred, ChangesOf, Changed
  <2> QED  BY <1>0, <2>1, NobodyStep DEF logVars
<1>r. IsClerk(AtRest) /\ AtRest.row = 0 /\ AtRest.before = NoValue /\ AtRest.step = "rest"
  BY DEF IsClerk, ClerkFields, AtRest
<1>n. ASSUME NEW k \in Clerks,
             \/ FindContent(k) \/ ReadBefore(k) \/ SaveContent(k) \/ CreateContent(k)
             \/ AddSpecChange(k) \/ EditForRequests(k) \/ AddRequestChange(k)
             \/ BeginFlush(k) \/ FlushKey(k) \/ CommitFlush(k) \/ FailClerk(k)
      PROVE  HistoryInv'
  <2>a. PICK me : me = clerk[k]
    OBVIOUS
  <2>0. IsClerk(me) /\ (crew.clerks = 1 /\ ~ crew.mayFail => Knows(me))
    BY <1>n, <2>a DEF IndInv, Covered, HistoryInv
  <2>b. ASSUME NEW record, BeginClerk(k, record), Knows(record), record.step # "adding",
               content' = content, change' = change, crew' = crew
        PROVE  HistoryInv'
    BY <1>n, <2>b, ClerkHistory DEF BeginClerk
  <2>1. CASE FindContent(k)
    <3>1. PICK l \in LogLayers, i \in SpecItems, v \in crew.values :
            LET key == <<Owner[l], i>>
                begin == [ AtRest EXCEPT !.request = Owner[l], !.layer = l,
                                         !.key = key, !.after = v ]
            IN  \/ /\ RowsOf(key) = {}
                   /\ BeginClerk(k, [begin EXCEPT !.step = "saving"])
                \/ \E n \in RowsOf(key) :
                     BeginClerk(k, [begin EXCEPT !.step = "reading", !.row = n])
      BY <2>1 DEF FindContent
    <3>2. PICK key : key = <<Owner[l], i>>
      OBVIOUS
    <3>3. PICK begin : begin = [ AtRest EXCEPT !.request = Owner[l], !.layer = l,
                                               !.key = key, !.after = v ]
      OBVIOUS
    <3>4. /\ IsClerk(begin) /\ begin.row = 0 /\ begin.before = NoValue
          /\ begin.key = key /\ begin.after = v
      BY <1>r, <3>3 DEF IsClerk, ClerkFields
    <3>5. content' = content /\ change' = change /\ crew' = crew
      BY <2>1 DEF FindContent
    <3>6. key \in Keys /\ key # NoContent.key /\ v \in Values
      <4>1. key \in Keys /\ Owner[l] # NoValue
        BY <3>2, ContentConstantsAssumption DEF Keys
      <4>2. key # NoContent.key
        BY <3>2, <4>1 DEF NoContent
      <4>3. v \in Values
        BY ContentConstantsAssumption DEF HistoryInv
      <4> QED  BY <4>1, <4>2, <4>3
    <3>7. CASE RowsOf(key) = {} /\ BeginClerk(k, [begin EXCEPT !.step = "saving"])
      <4>1. PICK next : next = [begin EXCEPT !.step = "saving"]
        OBVIOUS
      <4>2. /\ next.step = "saving" /\ next.row = 0 /\ next.before = NoValue
            /\ next.key = key /\ next.after = v
        BY <3>4, <4>1 DEF IsClerk, ClerkFields
      <4>3. Knows(next)
        BY <3>6, <3>7, <4>2 DEF Knows
      <4> QED  BY <2>b, <3>5, <3>7, <4>1, <4>2, <4>3
    <3>8. CASE \E n \in RowsOf(key) :
                 BeginClerk(k, [begin EXCEPT !.step = "reading", !.row = n])
      <4>0. PICK n \in RowsOf(key) :
              BeginClerk(k, [begin EXCEPT !.step = "reading", !.row = n])
        BY <3>8
      <4>1. PICK next : next = [begin EXCEPT !.step = "reading", !.row = n]
        OBVIOUS
      <4>2. next.step = "reading" /\ next.row = n /\ next.after = v
        BY <3>4, <4>1 DEF IsClerk, ClerkFields
      <4>3. n \in Used
        BY <3>6 DEF RowsOf, Used
      <4>4. Knows(next)
        BY <3>6, <4>2, <4>3 DEF Knows
      <4> QED  BY <2>b, <3>5, <4>0, <4>1, <4>2, <4>4
    <3> QED  BY <3>1, <3>2, <3>3, <3>7, <3>8
  <2>2. CASE ReadBefore(k)
    <3>1. PICK before : before = content[me.row].value
      OBVIOUS
    <3>2. PICK next : next = [me EXCEPT !.before = before, !.step = "saving"]
      OBVIOUS
    <3>3. /\ clerk' = [clerk EXCEPT ![k] = next] /\ me.step = "reading"
          /\ content' = content /\ change' = change /\ crew' = crew
      BY <2>2, <2>a, <3>1, <3>2 DEF ReadBefore, Doing
    <3>4. /\ next.step = "saving" /\ next.row = me.row /\ next.before = before
          /\ next.after = me.after
      BY <2>0, <3>2 DEF IsClerk, ClerkFields
    <3>5. Knows(me) => Knows(next)
      BY <3>1, <3>3, <3>4 DEF Knows
    <3> QED  BY <1>n, <2>0, <2>a, <3>3, <3>4, <3>5, ClerkHistory
  <2>3. CASE SaveContent(k)
    BY <1>n, <2>3, SaveStep
  <2>4. CASE CreateContent(k)
    BY <1>n, <2>4, CreateStep
  <2>5. CASE AddSpecChange(k)
    BY <1>n, <2>5, RecordStep
  <2>6. CASE EditForRequests(k)
    <3>1. PICK requests : BeginClerk(k, [AtRest EXCEPT !.step = "spreading",
                                                       !.todo = requests])
      BY <2>6 DEF EditForRequests
    <3>2. PICK next : next = [AtRest EXCEPT !.step = "spreading", !.todo = requests]
      OBVIOUS
    <3>3. next.step = "spreading"
      BY <1>r, <3>2 DEF IsClerk, ClerkFields
    <3>4. content' = content /\ change' = change /\ crew' = crew
      BY <2>6 DEF EditForRequests
    <3>5. Knows(next)
      BY <3>3 DEF Knows
    <3> QED  BY <2>b, <3>1, <3>2, <3>3, <3>4, <3>5
  <2>7. CASE AddRequestChange(k)
    BY <1>n, <2>7, RequestChangeHistory
  <2>8. CASE BeginFlush(k)
    <3>1. PICK r, keys :
            BeginClerk(k, [AtRest EXCEPT !.step = "flushing", !.request = r,
                                         !.unflushed = keys])
      BY <2>8 DEF BeginFlush
    <3>2. PICK next : next = [AtRest EXCEPT !.step = "flushing", !.request = r,
                                            !.unflushed = keys]
      OBVIOUS
    <3>3. next.step = "flushing"
      BY <1>r, <3>2 DEF IsClerk, ClerkFields
    <3>4. content' = content /\ change' = change /\ crew' = crew
      BY <2>8 DEF BeginFlush
    <3>5. Knows(next)
      BY <3>3 DEF Knows
    <3> QED  BY <2>b, <3>1, <3>2, <3>3, <3>4, <3>5
  <2>9. CASE FlushKey(k)
    <3>1. PICK l \in me.unflushed :
            LET found == PendingOf(me.request, l) \ me.flushed IN
            clerk' = [clerk EXCEPT
              ![k].unflushed = me.unflushed \ {l},
              ![k].flushed = me.flushed \cup found,
              ![k].entries = IF found = {} THEN me.entries ELSE me.entries \cup
                {[request |-> me.request, layer |-> l, changes |-> found]}]
      BY <2>9, <2>a DEF FlushKey, IndInv
    <3>2. PICK found : found = PendingOf(me.request, l) \ me.flushed
      OBVIOUS
    <3>3. PICK left, marked, entries :
            /\ left = me.unflushed \ {l} /\ marked = me.flushed \cup found
            /\ entries = IF found = {} THEN me.entries ELSE me.entries \cup
                 {[request |-> me.request, layer |-> l, changes |-> found]}
      OBVIOUS
    <3>4. PICK next : next = [me EXCEPT !.unflushed = left, !.flushed = marked,
                                        !.entries = entries]
      OBVIOUS
    <3>5. clerk' = [clerk EXCEPT ![k] = next]
      BY <2>a, <3>1, <3>2, <3>3, <3>4
    <3>6. /\ me.step = "flushing"
          /\ content' = content /\ change' = change /\ crew' = crew
      BY <2>9, <2>a DEF FlushKey, Doing
    <3>7. next.step = "flushing"
      BY <2>0, <3>4, <3>6 DEF IsClerk, ClerkFields
    <3>8. Knows(next)
      BY <3>7 DEF Knows
    <3> QED  BY <1>n, <2>a, <3>5, <3>6, <3>7, <3>8, ClerkHistory
  <2>10. CASE CommitFlush(k)
    BY <1>n, <2>10, CommitHistory
  <2>11. CASE FailClerk(k)
    BY <1>n, <2>11, ClerkHistory DEF FailClerk
  <2> QED  BY <1>n, <2>1, <2>2, <2>3, <2>4, <2>5, <2>6, <2>7, <2>8, <2>9, <2>10,
              <2>11
<1> QED  BY <1>0, <1>n, CleanupHistory DEF ContentNext

\* What the invariant says of the rows when nobody is between two statements.
LEMMA HistoryHolds == HistoryInv => HistoryIsComplete
<1> SUFFICES ASSUME HistoryInv, crew.clerks = 1, ~ crew.mayFail,
                    \A k \in Clerks : clerk[k].step \in {"rest", "flushing"}
             PROVE  /\ \A key \in Keys : Cardinality(RowsOf(key)) <= 1
                    /\ \A n \in Used :
                         /\ ChangesOf(n) # {}
                         /\ change[Max(ChangesOf(n))].after = content[n].value
                         /\ Chained(n)
  BY DEF HistoryIsComplete, Used, Chained
<1>1. Recorded
  BY DEF HistoryInv
<1>2. ASSUME NEW key \in Keys PROVE Cardinality(RowsOf(key)) <= 1
  <2>1. key # NoContent.key
    BY ContentConstantsAssumption DEF Keys, NoContent
  <2>2. \A n, m \in RowsOf(key) : n = m
    BY <1>1, <2>1 DEF Recorded, RowsOf, Used
  <2>3. RowsOf(key) = {} \/ \E n : RowsOf(key) = {n}
    BY <2>2
  <2> QED  BY <2>3, FS_EmptySet, FS_Singleton
<1>3. ASSUME NEW n \in Used
      PROVE  /\ ChangesOf(n) # {}
             /\ change[Max(ChangesOf(n))].after = content[n].value
             /\ Chained(n)
  <2>1. Ends(n, content[n].value) /\ content[n].value \in Values /\ Chained(n)
    BY <1>1 DEF Recorded
  <2>2. PICK c \in ChangesOf(n) : /\ \A d \in ChangesOf(n) : d <= c
                                  /\ change[c].after = content[n].value
    BY <2>1, ContentConstantsAssumption DEF Ends
  <2>3. ChangesOf(n) \in SUBSET Nat
    BY ContentConstantsAssumption DEF ChangesOf, Changed
  <2>4. Max(ChangesOf(n)) = c
    BY <2>2, <2>3, GreatestIs
  <2> QED  BY <2>1, <2>2, <2>4
<1> QED  BY <1>2, <1>3

\* With one handler at a time that does not fail, the changes in the log lead
\* from the creation of a spec content to its present value, for any number of
\* requests, items, rows and changes, and an item has one content: the row that
\* was read before the save is the row that is saved, and its change is added
\* before anyone else reads it.
THEOREM HistoriesAreComplete == ContentSpec => []HistoryIsComplete
<1>1. ContentInit => IndInv /\ LogInv /\ HistoryInv
  BY InitKept, LogInit, HistoryInit
<1>2. IndInv /\ LogInv /\ HistoryInv /\ [ContentNext]_logVars
      => (IndInv /\ LogInv /\ HistoryInv)'
  BY StepKept, LogStep, HistoryStep
<1> QED  BY <1>1, <1>2, HistoryHolds, PTL DEF ContentSpec

-----------------------------------------------------------------------------
(* Types.                                                                  *)

\* A handler holds the content it works on, by the key that content has.
HoldsContent(m, rows) ==
  /\ IsFiniteSet(m.entries)
  /\ m.step \in {"reading", "saving", "adding"} => m.key \in Keys
  /\ m.step \in {"reading", "adding"} \/ (m.step = "saving" /\ m.row # 0)
       => m.row \in RowIds /\ rows[m.row].key = m.key
  /\ m.step = "flushing" => m.request \in Requests

TypedInv ==
  /\ ContentTypeOK
  /\ IsFiniteSet(log)
  /\ \A k \in Clerks : HoldsContent(clerk[k], content)

\* No content changes its key.
KeysStay ==
  \A n \in RowIds : content[n].key \in Keys => content'[n].key = content[n].key

LEMMA RestHolds == AtRest \in ClerkType /\ \A rows : HoldsContent(AtRest, rows)
  BY FS_EmptySet DEF AtRest, ClerkType, HoldsContent

\* The rows and the log after a step of one handler.
LEMMA TypedStep ==
  ASSUME TypedInv, NEW k \in Clerks, NEW record \in ClerkType,
         clerk' = [clerk EXCEPT ![k] = record], HoldsContent(record, content'), KeysStay,
         content' \in [RowIds -> [ key : Keys \cup {NoContent.key},
                                   value : Values \cup {NoValue} ]],
         change' \in [ChangeIds -> ChangeType],
         log' \subseteq [entry : EntryType, number : Nat], IsFiniteSet(log'),
         crew' = crew
  PROVE  TypedInv'
<1>1. /\ clerk' \in [Clerks -> ClerkType]
      /\ \A o \in Clerks : clerk'[o] = IF o = k THEN record ELSE clerk[o]
  BY DEF TypedInv, ContentTypeOK
<1>2. \A o \in Clerks : HoldsContent(clerk'[o], content')
  <2>1. ASSUME NEW o \in Clerks, o # k PROVE HoldsContent(clerk'[o], content')
    BY <1>1, <2>1 DEF TypedInv, HoldsContent, KeysStay
  <2>2. HoldsContent(clerk'[k], content')
    BY <1>1 DEF HoldsContent
  <2> QED  BY <2>1, <2>2
<1>3. \A o \in Clerks :
        (clerk[o].step = "adding" => clerk[o].row \in RowsOf(clerk[o].key))'
  BY <1>2 DEF HoldsContent, RowsOf
<1>4. crew' \in Crews
  BY DEF TypedInv, ContentTypeOK
<1> QED  BY <1>1, <1>2, <1>3, <1>4 DEF TypedInv, ContentTypeOK

\* A step of one handler that leaves the rows and the log alone.
LEMMA OwnStep ==
  ASSUME TypedInv, NEW k \in Clerks, NEW record \in ClerkType,
         clerk' = [clerk EXCEPT ![k] = record], HoldsContent(record, content),
         UNCHANGED <<content, change, log, crew>>
  PROVE  TypedInv'
<1>1. HoldsContent(record, content') /\ KeysStay
  BY DEF HoldsContent, RowsOf, KeysStay
<1>2. /\ content' \in [RowIds -> [ key : Keys \cup {NoContent.key},
                                   value : Values \cup {NoValue} ]]
      /\ change' \in [ChangeIds -> ChangeType]
      /\ log' \subseteq [entry : EntryType, number : Nat] /\ IsFiniteSet(log')
  BY DEF TypedInv, ContentTypeOK
<1> QED  BY <1>1, <1>2, TypedStep

\* A step of one handler that adds a row to pending_changes.
LEMMA AddedStep ==
  ASSUME TypedInv, NEW k \in Clerks, NEW record \in ClerkType,
         clerk' = [clerk EXCEPT ![k] = record], HoldsContent(record, content),
         NEW row \in ChangeType, Add(row), UNCHANGED <<content, log, crew>>
  PROVE  TypedInv'
<1>1. HoldsContent(record, content') /\ KeysStay
  BY DEF HoldsContent, RowsOf, KeysStay
<1>2. change' \in [ChangeIds -> ChangeType]
  BY DEF Add, TypedInv, ContentTypeOK
<1>3. /\ content' \in [RowIds -> [ key : Keys \cup {NoContent.key},
                                   value : Values \cup {NoValue} ]]
      /\ log' \subseteq [entry : EntryType, number : Nat] /\ IsFiniteSet(log')
  BY DEF TypedInv, ContentTypeOK
<1> QED  BY <1>1, <1>2, <1>3, TypedStep

\* The rows and the variables of the handlers keep their types, however they
\* overlap and fail, and the content whose change a handler is about to add is
\* still the one of its item and request.
THEOREM ContentsAreTyped == ContentSpec => []ContentTypeOK
<1>1. ContentInit => TypedInv
  <2> SUFFICES ASSUME ContentInit PROVE TypedInv
    OBVIOUS
  <2>1. content \in [RowIds -> [ key : Keys \cup {NoContent.key},
                                 value : Values \cup {NoValue} ]]
    BY DEF ContentInit, NoContent
  <2>2. change \in [ChangeIds -> ChangeType]
    BY DEF ContentInit, NoChange, ChangeType
  <2>3. \A k \in Clerks : clerk[k] = AtRest /\ AtRest.step # "adding"
    BY DEF ContentInit, AtRest
  <2>4. clerk \in [Clerks -> ClerkType]
    BY RestHolds DEF ContentInit
  <2> QED  BY <2>1, <2>2, <2>3, <2>4, RestHolds, FS_EmptySet
           DEF ContentInit, TypedInv, ContentTypeOK
<1>2. TypedInv /\ [ContentNext]_logVars => TypedInv'
  <2> SUFFICES ASSUME TypedInv, [ContentNext]_logVars PROVE TypedInv'
    OBVIOUS
  <2>0. CASE UNCHANGED logVars
    BY <2>0 DEF logVars, TypedInv, ContentTypeOK, HoldsContent, RowsOf
  <2>c. CASE Cleanup
    <3>1. change' \in [ChangeIds -> ChangeType]
      BY <2>c DEF Cleanup, TypedInv, ContentTypeOK, ChangeType
    <3> QED  BY <2>c, <3>1 DEF Cleanup, TypedInv, ContentTypeOK, HoldsContent, RowsOf
  <2>n. ASSUME NEW k \in Clerks,
               \/ FindContent(k) \/ ReadBefore(k) \/ SaveContent(k) \/ CreateContent(k)
               \/ AddSpecChange(k) \/ EditForRequests(k) \/ AddRequestChange(k)
               \/ BeginFlush(k) \/ FlushKey(k) \/ CommitFlush(k) \/ FailClerk(k)
        PROVE  TypedInv'
    <3> DEFINE me == clerk[k]
    <3>m. me \in ClerkType /\ HoldsContent(me, content)
      BY DEF TypedInv, ContentTypeOK
    <3>t. /\ content \in [RowIds -> [ key : Keys \cup {NoContent.key},
                                      value : Values \cup {NoValue} ]]
          /\ change \in [ChangeIds -> ChangeType]
          /\ log \subseteq [entry : EntryType, number : Nat] /\ IsFiniteSet(log)
          /\ crew \in Crews
      BY DEF TypedInv, ContentTypeOK
    <3>1. CASE FindContent(k)
      <4>1. PICK l \in LogLayers, i \in SpecItems, v \in crew.values :
              LET key == <<Owner[l], i>>
                  begin == [ AtRest EXCEPT !.request = Owner[l], !.layer = l,
                                           !.key = key, !.after = v ]
              IN  \/ /\ RowsOf(key) = {}
                     /\ BeginClerk(k, [begin EXCEPT !.step = "saving"])
                  \/ \E n \in RowsOf(key) :
                       BeginClerk(k, [begin EXCEPT !.step = "reading", !.row = n])
        BY <3>1 DEF FindContent
      <4> DEFINE key == <<Owner[l], i>>
                 begin == [ AtRest EXCEPT !.request = Owner[l], !.layer = l,
                                          !.key = key, !.after = v ]
                 found(n) == [begin EXCEPT !.step = "reading", !.row = n]
                 new == [begin EXCEPT !.step = "saving"]
      <4>2. key \in Keys /\ Owner[l] \in Requests /\ v \in Values
        BY <3>t, ContentConstantsAssumption DEF Keys
      <4>3. CASE BeginClerk(k, new)
        <5>1. new \in ClerkType /\ HoldsContent(new, content)
          BY <4>2, FS_EmptySet DEF AtRest, ClerkType, HoldsContent
        <5> QED  BY <3>1, <4>3, <5>1, OwnStep DEF FindContent, BeginClerk
      <4>4. ASSUME NEW n \in RowsOf(key), BeginClerk(k, found(n)) PROVE TypedInv'
        <5>1. found(n) \in ClerkType /\ HoldsContent(found(n), content)
          BY <4>2, FS_EmptySet DEF AtRest, ClerkType, HoldsContent, RowsOf
        <5> QED  BY <3>1, <4>4, <5>1, OwnStep DEF FindContent, BeginClerk
      <4> QED  BY <4>1, <4>3, <4>4
    <3>2. CASE ReadBefore(k)
      <4> DEFINE next == [me EXCEPT !.before = content[me.row].value, !.step = "saving"]
      <4>1. me.step = "reading" /\ me.row \in RowsOf(me.key) /\ me.key \in Keys
        BY <3>2, <3>m DEF ReadBefore, Doing, HoldsContent, RowsOf
      <4>2. content[me.row].value \in Values \cup {NoValue}
        BY <3>t, <4>1 DEF RowsOf
      <4>3. next \in ClerkType /\ HoldsContent(next, content)
        BY <3>m, <4>1, <4>2 DEF ClerkType, HoldsContent
      <4>4. clerk' = [clerk EXCEPT ![k] = next]
        BY <3>2 DEF ReadBefore
      <4> QED  BY <3>2, <4>3, <4>4, OwnStep DEF ReadBefore
    <3>3. CASE SaveContent(k)
      <4> DEFINE next == [me EXCEPT !.step = "adding"]
      <4>1. me.step = "saving" /\ me.row \in RowsOf(me.key) /\ me.key \in Keys
        BY <3>3, <3>m DEF SaveContent, Doing, HoldsContent, RowsOf
      <4>2. /\ content' \in [RowIds -> [ key : Keys \cup {NoContent.key},
                                         value : Values \cup {NoValue} ]]
            /\ \A n \in RowIds : content'[n].key = content[n].key
        BY <3>3, <3>m, <3>t DEF SaveContent, ClerkType
      <4>3. KeysStay
        BY <4>2 DEF KeysStay, RowsOf
      <4>4. next \in ClerkType /\ next.step = "adding" /\ next.row = me.row
            /\ next.key = me.key /\ next.entries = me.entries
        BY <3>m DEF ClerkType
      <4>5. clerk' = [clerk EXCEPT ![k] = next]
        BY <3>3 DEF SaveContent
      <4> HIDE DEF next
      <4>6. HoldsContent(next, content')
        BY <3>m, <4>1, <4>2, <4>4 DEF HoldsContent, RowsOf
      <4> QED  BY <3>3, <3>t, <4>2, <4>3, <4>4, <4>5, <4>6, TypedStep DEF SaveContent
    <3>4. CASE CreateContent(k)
      <4> DEFINE used == { n \in RowIds : content[n] # NoContent }
                 n == NextOf(RowIds, used)
                 row == [key |-> me.key, value |-> me.after]
                 next == [me EXCEPT !.row = n, !.step = "adding"]
      <4>1. /\ me.step = "saving" /\ AnyUnused(RowIds, used)
            /\ content' = [content EXCEPT ![n] = row]
            /\ clerk' = [clerk EXCEPT ![k] = next]
            /\ UNCHANGED <<change, log, crew>>
        BY <3>4 DEF CreateContent, Doing
      <4>2. n \in RowIds /\ content[n] = NoContent
        <5>1. RowIds \in SUBSET Nat
          BY ContentConstantsAssumption
        <5> HIDE DEF used
        <5>2. n \in RowIds \ used
          BY <4>1, <5>1, NextIsFree
        <5> QED  BY <5>2 DEF used
      <4>3. me.key \in Keys /\ IsFiniteSet(me.entries)
        BY <3>m, <4>1 DEF HoldsContent
      <4> HIDE DEF n
      <4>4. /\ content' \in [RowIds -> [ key : Keys \cup {NoContent.key},
                                         value : Values \cup {NoValue} ]]
            /\ content'[n].key = me.key
            /\ \A o \in RowIds : o # n => content'[o] = content[o]
        BY <3>m, <3>t, <4>1, <4>2, <4>3 DEF ClerkType
      <4>5. KeysStay
        <5>1. NoContent.key \notin Keys
          BY ContentConstantsAssumption DEF NoContent, Keys
        <5> QED  BY <4>2, <4>4, <5>1 DEF KeysStay, RowsOf
      <4>6. next \in ClerkType /\ next.step = "adding" /\ next.row = n
            /\ next.key = me.key /\ next.entries = me.entries
        BY <3>m, <4>2 DEF ClerkType
      <4>7. HoldsContent(next, content')
        BY <4>2, <4>3, <4>4, <4>6 DEF HoldsContent, RowsOf
      <4> QED  BY <3>t, <4>1, <4>4, <4>5, <4>6, <4>7, TypedStep
    <3>5. CASE AddSpecChange(k)
      <4> DEFINE row == [ state |-> "pending", request |-> me.request,
                          layer |-> me.layer, row |-> me.row,
                          before |-> me.before, after |-> me.after ]
      <4>1. row \in ChangeType
        BY <3>m DEF ClerkType, ChangeType
      <4> QED  BY <3>5, <4>1, RestHolds, AddedStep DEF AddSpecChange
    <3>6. CASE EditForRequests(k)
      <4>1. PICK requests \in SUBSET Requests :
              BeginClerk(k, [AtRest EXCEPT !.step = "spreading", !.todo = requests])
        BY <3>6 DEF EditForRequests
      <4> DEFINE next == [AtRest EXCEPT !.step = "spreading", !.todo = requests]
      <4>2. next \in ClerkType /\ HoldsContent(next, content)
        BY FS_EmptySet DEF AtRest, ClerkType, HoldsContent
      <4> QED  BY <3>6, <4>1, <4>2, OwnStep DEF EditForRequests, BeginClerk
    <3>7. CASE AddRequestChange(k)
      <4>1. PICK r \in me.todo :
              /\ Add([NoChange EXCEPT !.state = "pending", !.request = r])
              /\ clerk' = [clerk EXCEPT ![k] =
                   IF me.todo = {r} THEN AtRest ELSE [me EXCEPT !.todo = @ \ {r}]]
        BY <3>7 DEF AddRequestChange
      <4> DEFINE row == [NoChange EXCEPT !.state = "pending", !.request = r]
                 less == [me EXCEPT !.todo = @ \ {r}]
                 next == IF me.todo = {r} THEN AtRest ELSE less
      <4>2. row \in ChangeType
        BY <3>m DEF NoChange, ChangeType, ClerkType
      <4>3. me.step = "spreading"
        BY <3>7 DEF AddRequestChange, Doing
      <4>4. less \in ClerkType /\ HoldsContent(less, content)
        BY <3>m, <4>3 DEF ClerkType, HoldsContent
      <4>5. next \in ClerkType /\ HoldsContent(next, content)
        <5> HIDE DEF less
        <5> QED  BY <4>4, RestHolds
      <4> HIDE DEF row
      <4> QED  BY <3>7, <4>1, <4>2, <4>5, AddedStep DEF AddRequestChange, row
    <3>8. CASE BeginFlush(k)
      <4>1. PICK r \in Requests, keys \in SUBSET (LogLayers \cup {NoLayer}) :
              BeginClerk(k, [AtRest EXCEPT !.step = "flushing", !.request = r,
                                           !.unflushed = keys])
        <5>1. PICK r \in Requests, layers \in SUBSET LogLayers, andRequest \in BOOLEAN :
                BeginClerk(k, [AtRest EXCEPT !.step = "flushing", !.request = r,
                  !.unflushed = layers \cup (IF andRequest THEN {NoLayer} ELSE {})])
          BY <3>8 DEF BeginFlush
        <5>2. layers \cup (IF andRequest THEN {NoLayer} ELSE {})
                \in SUBSET (LogLayers \cup {NoLayer})
          OBVIOUS
        <5> QED  BY <5>1, <5>2
      <4> DEFINE next == [AtRest EXCEPT !.step = "flushing", !.request = r,
                                        !.unflushed = keys]
      <4>2. next \in ClerkType /\ HoldsContent(next, content)
        BY <4>1, FS_EmptySet DEF AtRest, ClerkType, HoldsContent
      <4> QED  BY <3>8, <4>1, <4>2, OwnStep DEF BeginFlush, BeginClerk
    <3>9. CASE FlushKey(k)
      <4>1. PICK l \in me.unflushed :
              LET found == PendingOf(me.request, l) \ me.flushed IN
                clerk' = [clerk EXCEPT
                  ![k].unflushed = @ \ {l},
                  ![k].flushed = @ \cup found,
                  ![k].entries = IF found = {} THEN @ ELSE @ \cup
                    {[request |-> me.request, layer |-> l, changes |-> found]}]
        BY <3>9 DEF FlushKey
      <4> DEFINE found == PendingOf(me.request, l) \ me.flushed
                 entry == [request |-> me.request, layer |-> l, changes |-> found]
                 entries == IF found = {} THEN me.entries ELSE me.entries \cup {entry}
                 next == [me EXCEPT !.unflushed = @ \ {l},
                                    !.flushed = @ \cup found, !.entries = entries]
      <4>2. me.step = "flushing" /\ me.request \in Requests
        BY <3>9, <3>m DEF FlushKey, Doing, HoldsContent
      <4>3. clerk' = [clerk EXCEPT ![k] = next]
        BY <4>1
      <4>4. found \in SUBSET ChangeIds
        BY DEF PendingOf
      <4> HIDE DEF found
      <4>5. entry \in EntryType
        BY <3>m, <4>1, <4>2, <4>4 DEF EntryType, ClerkType
      <4> HIDE DEF entry
      <4>6. entries \in SUBSET EntryType /\ IsFiniteSet(entries)
        BY <3>m, <4>5, FS_AddElement DEF ClerkType, HoldsContent
      <4> HIDE DEF entries
      <4>7. next \in ClerkType /\ next.step = "flushing" /\ next.request \in Requests
            /\ next.entries = entries
        BY <3>m, <4>2, <4>4, <4>6 DEF ClerkType
      <4> HIDE DEF next
      <4>8. HoldsContent(next, content)
        BY <4>6, <4>7 DEF HoldsContent
      <4> QED  BY <3>9, <4>3, <4>7, <4>8, OwnStep DEF FlushKey
    <3>10. CASE CommitFlush(k)
      <4> DEFINE N == Cardinality(log)
                 Numbered(e) == [entry |-> e, number |-> N]
                 new == { Numbered(e) : e \in me.entries }
      <4>1. N \in Nat
        BY <3>t, FS_CardinalityType
      <4>2. new \subseteq [entry : EntryType, number : Nat]
        BY <3>m, <4>1 DEF ClerkType
      <4>3. IsFiniteSet(new)
        <5> DEFINE number == [e \in me.entries |-> Numbered(e)]
        <5>1. number \in Surjection(me.entries, new)
          BY DEF Surjection
        <5>2. IsFiniteSet(me.entries)
          BY <3>m DEF HoldsContent
        <5> HIDE DEF number, new
        <5> QED  BY <5>1, <5>2, FS_Surjection
      <4>4. log' = log \cup new
        BY <3>10 DEF CommitFlush
      <4>5. log' \subseteq [entry : EntryType, number : Nat] /\ IsFiniteSet(log')
        <5> HIDE DEF new
        <5> QED  BY <3>t, <4>2, <4>3, <4>4, FS_Union
      <4>6. change' \in [ChangeIds -> ChangeType]
        BY <3>10, <3>t DEF CommitFlush, ChangeType
      <4>7. KeysStay /\ content' = content /\ crew' = crew
        BY <3>10 DEF CommitFlush, KeysStay, RowsOf
      <4> QED  BY <3>10, <3>t, <4>5, <4>6, <4>7, RestHolds, TypedStep DEF CommitFlush
    <3>11. CASE FailClerk(k)
      BY <3>11, RestHolds, OwnStep DEF FailClerk
    <3> QED  BY <2>n, <3>1, <3>2, <3>3, <3>4, <3>5, <3>6, <3>7, <3>8, <3>9, <3>10, <3>11
  <2> QED  BY <2>0, <2>c, <2>n DEF ContentNext
<1>3. TypedInv => ContentTypeOK
  BY DEF TypedInv
<1> QED  BY <1>1, <1>2, <1>3, PTL DEF ContentSpec
=============================================================================
