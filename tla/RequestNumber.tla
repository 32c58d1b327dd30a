--------------------------- MODULE RequestNumber ---------------------------
(***************************************************************************)
(* The numbers of the assessment requests: <type code>-<day>-<sequence>.   *)
(* Every create runs in a transaction of its own (READ COMMITTED): it      *)
(* selects the rows of its base FOR UPDATE, takes the highest number plus  *)
(* one and inserts.  The lock holds rows, so the first two requests of a   *)
(* base have none to lock, and a create that waited for it goes on with    *)
(* the rows its own select had found; the unique index on requestNumber    *)
(* decides.                                                                *)
(***************************************************************************)
EXTENDS Naturals, FiniteSets, FiniteSetsExt

CONSTANTS
  Bases,      \* the pairs of a type code and a day
  Creates,    \* the requests to create one
  LastNumber  \* the last number of a base (99 in the code)

ASSUME NumberAssumption == LastNumber \in Nat \ {0}

NoBase == "no base"
ASSUME BaseAssumption == NoBase \notin Bases

VARIABLES
  numbers,  \* numbers[b]: the sequence numbers of the committed rows of b
  create    \* create[c]: the transaction of c

numberVars == <<numbers, create>>

\* seen: the rows its select found.  alone: history, whether no transaction of
\* the same base was open at any time of this one.
NoCreate == [st |-> "none", base |-> NoBase, seen |-> {}, number |-> 0,
             alone |-> TRUE]

Open(c) == create[c].st \in {"selecting", "locked", "inserted"}
Ended(c, st) == [create EXCEPT ![c].st = st]

\* Mutant of Latest: the order of the select is left out.
LatestUnordered(rows) == IF rows = {} THEN 0 ELSE Min(rows)

Latest(rows) == IF rows = {} THEN 0 ELSE Max(rows)

\* What a transaction has locked: the rows it found, and the one it inserted.
Locked(c) == IF create[c].st \in {"locked", "inserted"} THEN create[c].seen ELSE {}

SameBase(c) == {d \in Creates \ {c} : Open(d) /\ create[d].base = create[c].base}

-----------------------------------------------------------------------------
NumbersInit ==
  /\ numbers = [b \in Bases |-> {}]
  /\ create = [c \in Creates |-> NoCreate]

\* The select sees the rows that are committed when it starts.
SelectLatest(c, b) ==
  /\ create[c].st = "none"
  /\ LET rivals == {d \in Creates : Open(d) /\ create[d].base = b} IN
     create' = [d \in Creates |->
       IF d = c THEN [st |-> "selecting", base |-> b, seen |-> numbers[b],
                      number |-> 0, alone |-> rivals = {}]
       ELSE IF d \in rivals THEN [create[d] EXCEPT !.alone = FALSE]
       ELSE create[d]]
  /\ UNCHANGED numbers

\* FOR UPDATE waits for whoever holds one of these rows, and then goes on with
\* the same rows: nothing in them has changed.
LockRows(c) ==
  /\ create[c].st = "selecting"
  /\ \A d \in SameBase(c) : Locked(d) \cap create[c].seen = {}
  /\ create' = Ended(c, "locked")
  /\ UNCHANGED numbers

\* The insert waits for an open transaction that has inserted the same number.
InsertNumber(c) ==
  LET number == Latest(create[c].seen) + 1 IN
  /\ create[c].st = "locked"
  /\ number <= LastNumber
  /\ number \notin numbers[create[c].base]
  /\ \A d \in SameBase(c) : create[d].st = "inserted" => create[d].number # number
  /\ create' = [create EXCEPT ![c].st = "inserted", ![c].number = number]
  /\ UNCHANGED numbers

\* The sequence overflows, or the number is taken: the create is answered with
\* an error and rolled back.
RefuseNumber(c) ==
  LET number == Latest(create[c].seen) + 1 IN
  /\ create[c].st = "locked"
  /\ \/ number > LastNumber
     \/ number \in numbers[create[c].base]
  /\ create' = Ended(c, "refused")
  /\ UNCHANGED numbers

CommitNumber(c) ==
  /\ create[c].st = "inserted"
  /\ numbers' = [numbers EXCEPT ![create[c].base] = @ \cup {create[c].number}]
  /\ create' = Ended(c, "created")

\* Any failure of the database, or the end of the process: rolled back.
RollBack(c) ==
  /\ Open(c)
  /\ create' = Ended(c, "failed")
  /\ UNCHANGED numbers

NumbersNext == \E c \in Creates :
  \/ \E b \in Bases : SelectLatest(c, b)
  \/ LockRows(c)
  \/ InsertNumber(c)
  \/ RefuseNumber(c)
  \/ CommitNumber(c)
  \/ RollBack(c)

NumbersSpec == NumbersInit /\ [][NumbersNext]_numberVars

-----------------------------------------------------------------------------
NumbersTypeOK ==
  /\ numbers \in [Bases -> SUBSET (1..LastNumber)]
  /\ create \in [Creates ->
       [st : {"none", "selecting", "locked", "inserted", "created", "refused",
              "failed"},
        base : Bases \cup {NoBase}, seen : SUBSET (1..LastNumber),
        number : 0..LastNumber, alone : BOOLEAN]]

\* Whatever overlaps and rolls back, the numbers of a base run from 1 without a
\* gap, no two open transactions hold the same one, and a create that ran alone
\* is refused only when the numbers are used up.
NumbersRunOn ==
  /\ \A b \in Bases : numbers[b] = 1..Cardinality(numbers[b])
  /\ \A c \in Creates : create[c].st = "inserted" =>
       /\ create[c].number = Cardinality(numbers[create[c].base]) + 1
       /\ \A d \in SameBase(c) : create[d].st # "inserted"
  /\ \A c \in Creates : create[c].st = "refused" /\ create[c].alone
       => numbers[create[c].base] = 1..LastNumber
=============================================================================
