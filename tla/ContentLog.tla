----------------------------- MODULE ContentLog -----------------------------
(***************************************************************************)
(* The contents that the members of the service sampa fill in (specs, test *)
(* cases, remediations), the buffer of their pending changes and the       *)
(* action log the buffer is flushed to.  A content and its pending change  *)
(* are saved by two statements; a flush is a transaction, of its own or    *)
(* that of the handler which moves a layer.                                *)
(***************************************************************************)
EXTENDS Naturals, FiniteSets, FiniteSetsExt

CONSTANTS
  Requests,   \* the assessment requests
  LogLayers,  \* their layers
  Owner,      \* the request of each layer
  SpecItems,  \* the spec items
  Values,     \* the values of a spec content
  RowIds,     \* the ids of request_spec_content, in order of creation
  ChangeIds,  \* the ids of pending_changes, in order of creation
  Clerks,     \* the handlers that may be in flight together
  Crews       \* the regimes: how many at a time, whether they may fail, which
              \* values they write, and how many rows and changes they add

NoLayer == "no layer"
NoValue == "no value"

ASSUME ContentConstantsAssumption ==
  /\ Owner \in [LogLayers -> Requests]
  /\ NoLayer \notin LogLayers
  /\ NoValue \notin Values /\ NoValue \notin Requests
  /\ RowIds \subseteq Nat \ {0}
  /\ ChangeIds \subseteq Nat \ {0}
  /\ \A c \in Crews : /\ c.clerks \in Nat /\ c.mayFail \in BOOLEAN
                     /\ c.values \subseteq Values
                     /\ c.rows \in Nat /\ c.changes \in Nat

VARIABLES
  content,  \* the rows of request_spec_content
  change,   \* the rows of pending_changes
  log,      \* the entries of action_log that carry changes
  clerk,    \* local variables of each handler
  crew      \* the regime; never changes

logVars == <<content, change, log, clerk, crew>>

-----------------------------------------------------------------------------
Keys == Requests \X SpecItems

NoContent == [key |-> <<NoValue, NoValue>>, value |-> NoValue]

\* A change of a spec content keeps the row and its value before and after; a
\* change of anything else has row 0.
NoChange == [ state |-> "none", request |-> NoValue, layer |-> NoLayer, row |-> 0,
              before |-> NoValue, after |-> NoValue ]

Changed == { c \in ChangeIds : change[c].state # "none" }

RowsOf(key) == { n \in RowIds : content[n].key = key }

\* Ids are handed out in order.
AnyUnused(ids, used) == ids \ used # {}

NextOf(ids, used) == Min(ids \ used)

-----------------------------------------------------------------------------
(***************************************************************************)
(* A handler.  "todo" are the requests it still has to add a change for,   *)
(* "unflushed" the keys (layers, or NoLayer for the request) it still has  *)
(* to flush, and "entries" and "flushed" what its transaction wrote.       *)
(***************************************************************************)
AtRest == [ step |-> "rest", request |-> NoValue, layer |-> NoLayer,
            key |-> <<NoValue, NoValue>>, row |-> 0, before |-> NoValue,
            after |-> NoValue, todo |-> {}, unflushed |-> {}, entries |-> {},
            flushed |-> {} ]

ChangeType == [ state : {"none", "pending", "flushed", "cleaned"},
                request : Requests \cup {NoValue}, layer : LogLayers \cup {NoLayer},
                row : RowIds \cup {0}, before : Values \cup {NoValue},
                after : Values \cup {NoValue} ]

EntryType == [ request : Requests, layer : LogLayers \cup {NoLayer},
               changes : SUBSET ChangeIds ]

ClerkType == [ step : {"rest", "reading", "saving", "adding", "spreading", "flushing"},
               request : Requests \cup {NoValue}, layer : LogLayers \cup {NoLayer},
               key : Keys \cup {AtRest.key}, row : RowIds \cup {0},
               before : Values \cup {NoValue}, after : Values \cup {NoValue},
               todo : SUBSET Requests, unflushed : SUBSET (LogLayers \cup {NoLayer}),
               entries : SUBSET EntryType, flushed : SUBSET ChangeIds ]

ContentTypeOK ==
  /\ content \in [RowIds -> [ key : Keys \cup {NoContent.key},
                              value : Values \cup {NoValue} ]]
  /\ change \in [ChangeIds -> ChangeType]
  /\ log \subseteq [entry : EntryType, number : Nat]
  /\ clerk \in [Clerks -> ClerkType]
  /\ crew \in Crews
  /\ \A k \in Clerks : clerk[k].step = "adding" => clerk[k].row \in RowsOf(clerk[k].key)

ContentInit ==
  /\ content = [n \in RowIds |-> NoContent]
  /\ change = [c \in ChangeIds |-> NoChange]
  /\ log = {}
  /\ clerk = [k \in Clerks |-> AtRest]
  /\ crew \in Crews

BeginClerk(k, record) ==
  /\ clerk[k].step = "rest"
  /\ Cardinality({ o \in Clerks : clerk[o].step # "rest" }) < crew.clerks
  /\ clerk' = [clerk EXCEPT ![k] = record]

Doing(k, step) == clerk[k].step = step

-----------------------------------------------------------------------------
(* RequestSpecContentService.updateSpecForLayer.                           *)

\* The layer (of which the member is in the team), and any content of the item.
FindContent(k) ==
  /\ \E l \in LogLayers, i \in SpecItems, v \in crew.values :
       LET key == <<Owner[l], i>>
           begin == [ AtRest EXCEPT !.request = Owner[l], !.layer = l,
                                    !.key = key, !.after = v ]
       IN  \/ /\ RowsOf(key) = {}
              /\ BeginClerk(k, [begin EXCEPT !.step = "saving"])
           \/ \E n \in RowsOf(key) :
                BeginClerk(k, [begin EXCEPT !.step = "reading", !.row = n])
  /\ UNCHANGED <<content, change, log, crew>>

\* The content as it was, for the log.
ReadBefore(k) ==
  /\ Doing(k, "reading")
  /\ clerk' = [clerk EXCEPT ![k].before = content[clerk[k].row].value,
                            ![k].step = "saving"]
  /\ UNCHANGED <<content, change, log, crew>>

\* Mutant of SaveContent: the entity that is kept for the log is the saved one.
SaveContentKeepsSaved(k) ==
  LET me == clerk[k] IN
  /\ Doing(k, "saving") /\ me.row # 0
  /\ content' = [content EXCEPT ![me.row].value = me.after]
  /\ clerk' = [clerk EXCEPT ![k].before = me.after, ![k].step = "adding"]
  /\ UNCHANGED <<change, log, crew>>

SaveContent(k) ==
  LET me == clerk[k] IN
  /\ Doing(k, "saving") /\ me.row # 0
  /\ content' = [content EXCEPT ![me.row].value = me.after]
  /\ clerk' = [clerk EXCEPT ![k].step = "adding"]
  /\ UNCHANGED <<change, log, crew>>

\* Mutant of CreateContent: the id of the new row is not taken over.
CreateContentForgetsId(k) ==
  LET used == { n \in RowIds : content[n] # NoContent } IN
  /\ Doing(k, "saving") /\ clerk[k].row = 0
  /\ Cardinality(used) < crew.rows
  /\ AnyUnused(RowIds, used)
  /\ content' = [content EXCEPT ![NextOf(RowIds, used)] =
                    [key |-> clerk[k].key, value |-> clerk[k].after]]
  /\ clerk' = [clerk EXCEPT ![k].step = "adding"]
  /\ UNCHANGED <<change, log, crew>>

CreateContent(k) ==
  LET me == clerk[k]
      used == { n \in RowIds : content[n] # NoContent }
      n == NextOf(RowIds, used)
  IN
  /\ Doing(k, "saving") /\ me.row = 0
  /\ Cardinality(used) < crew.rows
  /\ AnyUnused(RowIds, used)
  /\ content' = [content EXCEPT ![n] = [key |-> me.key, value |-> me.after]]
  /\ clerk' = [clerk EXCEPT ![k].row = n, ![k].step = "adding"]
  /\ UNCHANGED <<change, log, crew>>

-----------------------------------------------------------------------------
(* ActionLogBufferService.addChange, a statement of its own.               *)

Add(record) ==
  /\ Cardinality(Changed) < crew.changes
  /\ AnyUnused(ChangeIds, Changed)
  /\ change' = [change EXCEPT ![NextOf(ChangeIds, Changed)] = record]

AddSpecChange(k) ==
  LET me == clerk[k] IN
  /\ Doing(k, "adding")
  /\ Add([ state |-> "pending", request |-> me.request, layer |-> me.layer,
           row |-> me.row, before |-> me.before, after |-> me.after ])
  /\ clerk' = [clerk EXCEPT ![k] = AtRest]
  /\ UNCHANGED <<content, log, crew>>

\* A test case content is updated or a remediation created, for one request, or
\* a spec item is updated, for every request with a content of it; the changes
\* follow one by one.
EditForRequests(k) ==
  /\ \E requests \in { {r} : r \in Requests } \cup
                     { { r \in Requests : RowsOf(<<r, i>>) # {} } : i \in SpecItems } :
       /\ requests # {}
       /\ BeginClerk(k, [AtRest EXCEPT !.step = "spreading", !.todo = requests])
  /\ UNCHANGED <<content, change, log, crew>>

AddRequestChange(k) ==
  LET me == clerk[k] IN
  /\ Doing(k, "spreading")
  /\ \E r \in me.todo :
       /\ Add([NoChange EXCEPT !.state = "pending", !.request = r])
       /\ clerk' = [clerk EXCEPT ![k] =
            IF me.todo = {r} THEN AtRest ELSE [me EXCEPT !.todo = @ \ {r}]]
  /\ UNCHANGED <<content, log, crew>>

-----------------------------------------------------------------------------
(* ActionLogBufferService.flushToActionLog.                                *)

\* Mutant of PendingOf: the layer is left out of the query.
PendingOfRequest(request, layer) ==
  { c \in ChangeIds : change[c].state = "pending" /\ change[c].request = request }

\* Without a layer the condition "assessmentLayerId: null" is ignored by the
\* query builder: the pending changes of all layers of the request are found.
PendingOf(request, layer) ==
  { c \in ChangeIds : /\ change[c].state = "pending"
                      /\ change[c].request = request
                      /\ layer # NoLayer => change[c].layer = layer }

\* The transaction of a flush: of the request alone, or of some of its layers,
\* and then (addAuditors) of the request.
BeginFlush(k) ==
  /\ \E r \in Requests, layers \in SUBSET LogLayers, andRequest \in BOOLEAN :
       LET keys == layers \cup (IF andRequest THEN {NoLayer} ELSE {}) IN
       /\ \A l \in layers : Owner[l] = r
       /\ keys # {}
       /\ BeginClerk(k, [AtRest EXCEPT !.step = "flushing", !.request = r,
                                       !.unflushed = keys])
  /\ UNCHANGED <<content, change, log, crew>>

\* Mutant of FlushKey: rows this transaction flushed already are found again.
FlushKeyAgain(k) ==
  LET me == clerk[k] IN
  /\ Doing(k, "flushing")
  /\ \E l \in me.unflushed :
       LET found == PendingOf(me.request, l) IN
       /\ l = NoLayer => me.unflushed = {NoLayer}
       /\ clerk' = [clerk EXCEPT
            ![k].unflushed = @ \ {l},
            ![k].flushed = @ \cup found,
            ![k].entries = IF found = {} THEN @ ELSE @ \cup
              {[request |-> me.request, layer |-> l, changes |-> found]}]
  /\ UNCHANGED <<content, change, log, crew>>

\* One key: find, log, mark, all inside the transaction, which sees its own
\* marks but not those of an open one.
FlushKey(k) ==
  LET me == clerk[k] IN
  /\ Doing(k, "flushing")
  /\ \E l \in me.unflushed :
       LET found == PendingOf(me.request, l) \ me.flushed IN
       /\ l = NoLayer => me.unflushed = {NoLayer}
       /\ clerk' = [clerk EXCEPT
            ![k].unflushed = @ \ {l},
            ![k].flushed = @ \cup found,
            ![k].entries = IF found = {} THEN @ ELSE @ \cup
              {[request |-> me.request, layer |-> l, changes |-> found]}]
  /\ UNCHANGED <<content, change, log, crew>>

\* (A change that was cleaned up meanwhile stays so: the update sets isFlushed.)
CommitFlush(k) ==
  LET me == clerk[k] IN
  /\ Doing(k, "flushing") /\ me.unflushed = {}
  /\ log' = log \cup { [entry |-> e, number |-> Cardinality(log)] : e \in me.entries }
  /\ change' = [c \in ChangeIds |->
                  IF c \in me.flushed /\ change[c].state = "pending"
                  THEN [change[c] EXCEPT !.state = "flushed"] ELSE change[c]]
  /\ clerk' = [clerk EXCEPT ![k] = AtRest]
  /\ UNCHANGED <<content, crew>>

\* An exception or a crash: an open transaction rolls back, statements stay.
FailClerk(k) ==
  /\ crew.mayFail
  /\ clerk[k].step # "rest"
  /\ clerk' = [clerk EXCEPT ![k] = AtRest]
  /\ UNCHANGED <<content, change, log, crew>>

-----------------------------------------------------------------------------
\* Mutant of Cleanup: the condition on isFlushed is left out.
CleanupAll ==
  /\ \E last \in ChangeIds :
       change' = [c \in ChangeIds |->
                    IF c <= last /\ change[c].state # "none"
                    THEN [change[c] EXCEPT !.state = "cleaned"] ELSE change[c]]
  /\ UNCHANGED <<content, log, clerk, crew>>

\* CleanupPendingChangesJob: the flushed ones up to some age are soft-deleted.
Cleanup ==
  /\ \E last \in ChangeIds :
       change' = [c \in ChangeIds |->
                    IF c <= last /\ change[c].state = "flushed"
                    THEN [change[c] EXCEPT !.state = "cleaned"] ELSE change[c]]
  /\ UNCHANGED <<content, log, clerk, crew>>

ContentNext ==
  \/ \E k \in Clerks :
       \/ FindContent(k) \/ ReadBefore(k) \/ SaveContent(k) \/ CreateContent(k)
       \/ AddSpecChange(k) \/ EditForRequests(k) \/ AddRequestChange(k)
       \/ BeginFlush(k) \/ FlushKey(k) \/ CommitFlush(k) \/ FailClerk(k)
  \/ Cleanup

ContentSpec == ContentInit /\ [][ContentNext]_logVars

-----------------------------------------------------------------------------
Logged(c) == { e \in log : c \in e.entry.changes }

\* However flushes overlap, roll back and are cleaned up after, a change that
\* was added waits in the buffer or is in the action log.
NoChangeLost == \A c \in Changed : change[c].state = "pending" \/ Logged(c) # {}

\* Without overlap no change is logged twice, also when one transaction flushes
\* the layers and then the request, or when a flush failed and is repeated.
LoggedOnce == crew.clerks = 1 => \A c \in Changed : Cardinality(Logged(c)) <= 1

\* An entry of a layer holds changes of that layer only, and an entry of a
\* request holds none of another request.
LayerLogsOwnChanges ==
  \A e \in log : \A c \in e.entry.changes :
    /\ change[c].request = e.entry.request
    /\ e.entry.layer # NoLayer => change[c].layer = e.entry.layer

ChangesOf(n) == { c \in Changed : change[c].row = n }

\* Without overlap and failure, and with nobody at work, the changes of a spec
\* content lead from its creation to its present value without a gap, and an
\* item has one content.
HistoryIsComplete ==
  /\ crew.clerks = 1 /\ ~ crew.mayFail
  /\ \A k \in Clerks : clerk[k].step \in {"rest", "flushing"}
  => /\ \A key \in Keys : Cardinality(RowsOf(key)) <= 1
     /\ \A n \in { m \in RowIds : content[m] # NoContent } :
          /\ ChangesOf(n) # {}
          /\ change[Max(ChangesOf(n))].after = content[n].value
          /\ \A c \in ChangesOf(n) :
               LET earlier == { d \in ChangesOf(n) : d < c } IN
               change[c].before = IF earlier = {} THEN NoValue
                                  ELSE change[Max(earlier)].after
=============================================================================
