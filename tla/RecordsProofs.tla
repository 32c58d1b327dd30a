---------------------------- MODULE RecordsProofs ----------------------------
(***************************************************************************)
(* The numbers of the requests, for any number of creates and any last     *)
(* number; and what the parts of the records have in common: a behaviour   *)
(* of MCRecords is one of each part, so that the theorems about a part     *)
(* hold of what the run checks.                                            *)
(***************************************************************************)
EXTENDS MCRecords, ContentLogProofs, GroupsProofs, TLAPS

\* The highest number of a run from 1 is its length.
LEMMA RunFacts ==
  ASSUME NEW n \in Nat
  PROVE  Latest(1..n) = n /\ Cardinality(1..n) = n
<1>1. Cardinality(1..n) = n
  BY FS_Interval
<1>2. CASE n = 0
  BY <1>1, <1>2 DEF Latest
<1>3. CASE n > 0
  <2>1. n \in 1..n /\ \A y \in 1..n : n >= y
    BY <1>3
  <2>2. /\ Max(1..n) \in 1..n
        /\ \A y \in 1..n : Max(1..n) >= y
    BY <2>1 DEF Max
  <2>3. Max(1..n) = n
    BY <2>1, <2>2
  <2>4. QED
    BY <1>1, <1>3, <2>1, <2>3 DEF Latest
<1>4. QED
  BY <1>2, <1>3

-----------------------------------------------------------------------------
(***************************************************************************)
(* The inductive invariant.  What a create has seen is a run from 1 and    *)
(* still there; while it is alone it is all there is; and an inserted      *)
(* number is the next one, which nobody else holds.                        *)
(***************************************************************************)
Runs == \A b \in Bases : \E n \in 0..LastNumber : numbers[b] = 1..n

SeenSound(c) ==
  /\ create[c].base \in Bases
  /\ \E k \in 0..LastNumber : create[c].seen = 1..k
  /\ create[c].seen \subseteq numbers[create[c].base]
  /\ create[c].alone => /\ create[c].seen = numbers[create[c].base]
                        /\ SameBase(c) = {}

InsertSound(c) ==
  /\ create[c].number \in 1..LastNumber
  /\ numbers[create[c].base] = 1..(create[c].number - 1)
  /\ \A d \in SameBase(c) : create[d].st # "inserted"

RefusalSound(c) ==
  create[c].alone => /\ create[c].base \in Bases
                     /\ numbers[create[c].base] = 1..LastNumber

CreateSound(c) ==
  /\ Open(c) => SeenSound(c)
  /\ create[c].st = "inserted" => InsertSound(c)
  /\ create[c].st = "refused" => RefusalSound(c)

NumbersInv == NumbersTypeOK /\ Runs /\ \A c \in Creates : CreateSound(c)

LEMMA NumbersInitially == NumbersInit => NumbersInv
<1> SUFFICES ASSUME NumbersInit PROVE NumbersInv
  OBVIOUS
<1>1. NumbersTypeOK
  BY NumberAssumption DEF NumbersInit, NumbersTypeOK, NoCreate
<1>2. Runs
  <2>1. 0 \in 0..LastNumber /\ 1..0 = {}
    BY NumberAssumption
  <2>2. QED
    BY <2>1 DEF Runs, NumbersInit
<1>3. \A c \in Creates : CreateSound(c)
  BY DEF CreateSound, Open, NumbersInit, NoCreate
<1>4. QED
  BY <1>1, <1>2, <1>3 DEF NumbersInv

\* What the next number of a create is.
LEMMA NextNumber ==
  ASSUME NumbersInv, NEW c \in Creates, Open(c)
  PROVE  \E k, n \in 0..LastNumber :
           /\ create[c].seen = 1..k
           /\ Latest(create[c].seen) = k
           /\ numbers[create[c].base] = 1..n
           /\ k <= n
<1>1. create[c].base \in Bases
  BY DEF NumbersInv, CreateSound, SeenSound
<1>2. PICK k \in 0..LastNumber : create[c].seen = 1..k
  BY DEF NumbersInv, CreateSound, SeenSound
<1>3. PICK n \in 0..LastNumber : numbers[create[c].base] = 1..n
  BY <1>1 DEF NumbersInv, Runs
<1>4. 1..k \subseteq 1..n
  BY <1>2, <1>3 DEF NumbersInv, CreateSound, SeenSound
<1>5. k <= n
  BY <1>4, NumberAssumption
<1>6. Latest(create[c].seen) = k
  BY <1>2, RunFacts
<1>7. QED
  BY <1>2, <1>3, <1>5, <1>6

LEMMA SelectStep ==
  ASSUME NumbersInv, NEW c \in Creates, NEW b \in Bases, SelectLatest(c, b)
  PROVE  NumbersInv'
<1> USE DEF NumbersInv
<1>1. /\ create[c].st = "none" /\ UNCHANGED numbers
      /\ \A d \in Creates \ {c} :
           create'[d] = IF Open(d) /\ create[d].base = b
                        THEN [create[d] EXCEPT !.alone = FALSE] ELSE create[d]
      /\ create'[c].st = "selecting" /\ create'[c].base = b
      /\ create'[c].seen = numbers[b] /\ create'[c].number = 0
      /\ create'[c].alone =>
           ~ \E d \in Creates : Open(d) /\ create[d].base = b
  BY DEF SelectLatest
<1>2. NumbersTypeOK'
  <2>1. ASSUME NEW d \in Creates
        PROVE  create'[d] \in
            [st : {"none", "selecting", "locked", "inserted", "created",
                   "refused", "failed"},
             base : Bases \cup {NoBase}, seen : SUBSET (1..LastNumber),
             number : 0..LastNumber, alone : BOOLEAN]
    <3>1. numbers[b] \in SUBSET (1..LastNumber) /\ 0 \in 0..LastNumber
      BY NumberAssumption DEF NumbersTypeOK
    <3>2. CASE d = c
      <4> DEFINE rivals == {e \in Creates : Open(e) /\ create[e].base = b}
                 record(alone) == [st |-> "selecting", base |-> b,
                                   seen |-> numbers[b], number |-> 0,
                                   alone |-> alone]
      <4>1. create'[d] = record(rivals = {})
        BY <3>2 DEF SelectLatest
      <4>2. \A alone \in BOOLEAN : record(alone) \in
              [st : {"none", "selecting", "locked", "inserted", "created",
                     "refused", "failed"},
               base : Bases \cup {NoBase}, seen : SUBSET (1..LastNumber),
               number : 0..LastNumber, alone : BOOLEAN]
        BY <3>1
      <4>3. (rivals = {}) \in BOOLEAN
        OBVIOUS
      <4> HIDE DEF rivals, record
      <4>4. QED
        BY <4>1, <4>2, <4>3, Zenon
    <3>3. CASE d # c
      <4>1. create'[d] \in {create[d], [create[d] EXCEPT !.alone = FALSE]}
        BY <1>1, <3>3
      <4>2. QED
        BY <4>1 DEF NumbersTypeOK
    <3>4. QED
      BY <3>2, <3>3
  <2>2. QED
    BY <1>1, <2>1 DEF NumbersTypeOK, SelectLatest
<1>3. Runs'
  BY <1>1 DEF Runs
<1>4. ASSUME NEW d \in Creates PROVE CreateSound(d)'
  <2>1. \A e \in Creates \ {c} :
          /\ create'[e].st = create[e].st /\ create'[e].base = create[e].base
          /\ create'[e].seen = create[e].seen
          /\ create'[e].number = create[e].number
          /\ create'[e].alone => /\ create[e].alone
                                 /\ ~ (Open(e) /\ create[e].base = b)
    BY <1>1 DEF NumbersTypeOK
  <2>2. CASE d = c
    <3>1. \E k \in 0..LastNumber : numbers[b] = 1..k
      BY DEF Runs
    <3>2. create'[c].alone => SameBase(c)' = {}
      BY <1>1, <2>1 DEF SameBase, Open
    <3>3. QED
      BY <1>1, <2>2, <3>1, <3>2 DEF CreateSound, SeenSound, Open
  <2>3. CASE d # c
    <3>1. Open(d)' => SeenSound(d)'
      BY <1>1, <2>1, <2>3 DEF CreateSound, SeenSound, SameBase, Open
    <3>2. (create'[d].st = "inserted") => InsertSound(d)'
      BY <1>1, <2>1, <2>3 DEF CreateSound, InsertSound, SameBase, Open
    <3>3. (create'[d].st = "refused") => RefusalSound(d)'
      BY <1>1, <2>1, <2>3 DEF CreateSound, RefusalSound
    <3>4. QED
      BY <3>1, <3>2, <3>3 DEF CreateSound
  <2>4. QED
    BY <2>2, <2>3
<1>5. QED
  BY <1>2, <1>3, <1>4

LEMMA InsertStep ==
  ASSUME NumbersInv, NEW c \in Creates, InsertNumber(c)
  PROVE  NumbersInv'
<1> USE DEF NumbersInv
<1>1. Open(c) /\ create[c].st = "locked"
  BY DEF InsertNumber, Open
<1>2. PICK k, n \in 0..LastNumber :
           /\ create[c].seen = 1..k /\ Latest(create[c].seen) = k
           /\ numbers[create[c].base] = 1..n /\ k <= n
  BY <1>1, NextNumber
<1>3. /\ UNCHANGED numbers /\ k + 1 <= LastNumber
      /\ k + 1 \notin numbers[create[c].base]
      /\ \A d \in SameBase(c) : create[d].st = "inserted" => create[d].number # k + 1
      /\ create' = [create EXCEPT ![c].st = "inserted", ![c].number = k + 1]
  BY <1>2 DEF InsertNumber
<1>4. k = n
  BY <1>2, <1>3
<1>5. NumbersTypeOK'
  <2>1. k + 1 \in 0..LastNumber
    BY <1>3, NumberAssumption
  <2>2. QED
    BY <1>3, <2>1 DEF NumbersTypeOK
<1>6. Runs'
  BY <1>3 DEF Runs
<1>7. \A d \in SameBase(c) : create[d].st # "inserted"
  <2> SUFFICES ASSUME NEW d \in SameBase(c), create[d].st = "inserted" PROVE FALSE
    OBVIOUS
  <2>1. d \in Creates /\ create[d].base = create[c].base
    BY DEF SameBase
  <2>2. create[d].number \in 1..LastNumber
        /\ 1..(create[d].number - 1) = 1..n
    BY <1>2, <2>1 DEF CreateSound, InsertSound
  <2>3. create[d].number = n + 1
    BY <2>2, NumberAssumption
  <2>4. QED
    BY <1>3, <1>4, <2>3
<1>8. ASSUME NEW d \in Creates PROVE CreateSound(d)'
  <2>1. /\ \A e \in Creates : /\ Open(e)' <=> Open(e)
                              /\ create'[e].base = create[e].base
                              /\ create'[e].seen = create[e].seen
                              /\ create'[e].alone = create[e].alone
        /\ \A e \in Creates \ {c} : create'[e] = create[e]
        /\ create'[c].st = "inserted" /\ create'[c].number = n + 1
    BY <1>1, <1>3, <1>4 DEF Open, NumbersTypeOK
  <2>2. \A e \in Creates : SameBase(e)' = SameBase(e)
    BY <2>1 DEF SameBase
  <2>3. Open(d)' => SeenSound(d)'
    <3>1. Open(d)' => SeenSound(d)
      BY <2>1 DEF CreateSound
    <3>2. QED
      BY <1>3, <2>1, <2>2, <3>1 DEF SeenSound
  <2>4. (create'[d].st = "refused") => RefusalSound(d)'
    BY <1>3, <2>1 DEF CreateSound, RefusalSound
  <2>5. (create'[d].st = "inserted") => InsertSound(d)'
    <3>1. CASE d = c
      <4>1. (n + 1) - 1 = n /\ n + 1 \in 1..LastNumber
        BY <1>3, <1>4, NumberAssumption
      <4>2. c \notin SameBase(c)
        BY DEF SameBase
      <4>3. \A e \in SameBase(c) : create'[e].st # "inserted"
        BY <1>7, <2>1, <4>2 DEF SameBase
      <4>4. QED
        BY <1>2, <1>3, <2>1, <2>2, <3>1, <4>1, <4>3 DEF InsertSound
    <3>2. CASE d # c
      <4>1. create[d].st = "inserted" =>
              /\ InsertSound(d) /\ (d \in SameBase(c) <=> c \in SameBase(d))
        BY <1>1, <3>2 DEF CreateSound, SameBase, Open
      <4>2. SUFFICES ASSUME create[d].st = "inserted" PROVE InsertSound(d)'
        BY <2>1, <3>2
      <4>3. d \notin SameBase(c) /\ c \notin SameBase(d)
        BY <1>7, <4>1, <4>2
      <4>4. \A e \in SameBase(d) : create'[e].st = create[e].st
        BY <2>1, <4>3 DEF SameBase
      <4>5. QED
        BY <1>3, <2>1, <2>2, <3>2, <4>1, <4>2, <4>4 DEF InsertSound
    <3>3. QED
      BY <3>1, <3>2
  <2>6. QED
    BY <2>3, <2>4, <2>5 DEF CreateSound
<1>9. QED
  BY <1>5, <1>6, <1>8

LEMMA RefuseStep ==
  ASSUME NumbersInv, NEW c \in Creates, RefuseNumber(c)
  PROVE  NumbersInv'
<1> USE DEF NumbersInv
<1>1. Open(c) /\ create[c].st = "locked"
  BY DEF RefuseNumber, Open
<1>2. PICK k, n \in 0..LastNumber :
           /\ create[c].seen = 1..k /\ Latest(create[c].seen) = k
           /\ numbers[create[c].base] = 1..n /\ k <= n
  BY <1>1, NextNumber
<1>3. /\ UNCHANGED numbers
      /\ create' = [create EXCEPT ![c].st = "refused"]
      /\ k + 1 > LastNumber \/ k + 1 \in 1..n
  BY <1>2 DEF RefuseNumber, Ended
<1>4. NumbersTypeOK' /\ Runs'
  BY <1>3 DEF NumbersTypeOK, Runs
<1>5. RefusalSound(c)'
  <2>1. create[c].alone => 1..k = 1..n
    BY <1>1, <1>2 DEF CreateSound, SeenSound
  <2>2. create[c].alone => k = n
    BY <2>1, NumberAssumption
  <2>3. create[c].alone => n = LastNumber
    BY <1>3, <2>2, NumberAssumption
  <2>4. create[c].base \in Bases
    BY <1>1 DEF CreateSound, SeenSound
  <2>5. create'[c].alone = create[c].alone /\ create'[c].base = create[c].base
    BY <1>3 DEF NumbersTypeOK
  <2>6. QED
    BY <1>2, <1>3, <2>3, <2>4, <2>5 DEF RefusalSound
<1>6. ASSUME NEW d \in Creates PROVE CreateSound(d)'
  <2>1. /\ \A e \in Creates \ {c} : create'[e] = create[e]
        /\ ~ Open(c)' /\ create'[c].st = "refused"
    BY <1>3 DEF Open, NumbersTypeOK
  <2>2. \A e \in Creates \ {c} : SameBase(e)' \subseteq SameBase(e)
    BY <2>1 DEF SameBase, Open
  <2>3. CASE d = c
    BY <1>5, <2>1, <2>3 DEF CreateSound
  <2>4. CASE d # c
    <3>1. Open(d)' => SeenSound(d)'
      BY <1>3, <2>1, <2>2, <2>4 DEF CreateSound, SeenSound, Open
    <3>2. (create'[d].st = "inserted") => InsertSound(d)'
      BY <1>3, <2>1, <2>2, <2>4 DEF CreateSound, InsertSound, SameBase
    <3>3. (create'[d].st = "refused") => RefusalSound(d)'
      BY <1>3, <2>1, <2>4 DEF CreateSound, RefusalSound
    <3>4. QED
      BY <3>1, <3>2, <3>3 DEF CreateSound
  <2>5. QED
    BY <2>3, <2>4
<1>7. QED
  BY <1>4, <1>6

LEMMA CommitNumberStep ==
  ASSUME NumbersInv, NEW c \in Creates, CommitNumber(c)
  PROVE  NumbersInv'
<1> USE DEF NumbersInv
<1> DEFINE b == create[c].base
           n == create[c].number
<1>1. /\ create[c].st = "inserted" /\ Open(c) /\ b \in Bases
      /\ n \in 1..LastNumber /\ numbers[b] = 1..(n - 1)
      /\ \A d \in SameBase(c) : create[d].st # "inserted"
  BY DEF CommitNumber, Open, CreateSound, SeenSound, InsertSound
<1>2. /\ numbers' = [numbers EXCEPT ![b] = @ \cup {n}]
      /\ create' = [create EXCEPT ![c].st = "created"]
  BY DEF CommitNumber, Ended
<1>3. NumbersTypeOK'
  BY <1>1, <1>2 DEF NumbersTypeOK
<1>4. numbers'[b] = 1..n /\ \A a \in Bases \ {b} : numbers'[a] = numbers[a]
  <2>1. 1..n = (1..(n - 1)) \cup {n}
    BY <1>1, NumberAssumption
  <2>2. QED
    BY <1>1, <1>2, <2>1 DEF NumbersTypeOK
<1>5. Runs'
  <2>1. n \in 0..LastNumber
    BY <1>1
  <2>2. QED
    BY <1>4, <2>1 DEF Runs
<1>6. ASSUME NEW d \in Creates PROVE CreateSound(d)'
  <2>1. /\ \A e \in Creates \ {c} : create'[e] = create[e]
        /\ ~ Open(c)' /\ create'[c].st = "created"
    BY <1>2 DEF Open, NumbersTypeOK
  <2>2. \A e \in Creates \ {c} : SameBase(e)' \subseteq SameBase(e)
    BY <2>1 DEF SameBase, Open
  <2>3. CASE d = c
    BY <2>1, <2>3 DEF CreateSound
  <2>4. CASE d # c
    <3>1. Open(d) /\ create[d].base = b =>
            /\ d \in SameBase(c) /\ c \in SameBase(d)
      BY <1>1, <2>4 DEF SameBase
    <3>2. Open(d)' => SeenSound(d)'
      <4>1. Open(d)' => Open(d) /\ SeenSound(d)
        BY <2>1, <2>4 DEF CreateSound, Open
      <4>2. CASE create[d].base = b
        BY <1>1, <1>4, <2>1, <2>4, <3>1, <4>1, <4>2 DEF SeenSound, Open
      <4>3. CASE create[d].base # b
        BY <1>4, <2>1, <2>2, <2>4, <4>1, <4>3 DEF SeenSound
      <4>4. QED
        BY <4>2, <4>3
    <3>3. (create'[d].st = "inserted") => InsertSound(d)'
      <4>1. create'[d].st = "inserted" =>
              /\ InsertSound(d) /\ create[d].base \in Bases /\ create[d].base # b
        BY <1>1, <2>1, <2>4, <3>1 DEF CreateSound, SeenSound, Open
      <4>2. QED
        BY <1>4, <2>1, <2>2, <2>4, <4>1 DEF InsertSound, SameBase
    <3>4. (create'[d].st = "refused") => RefusalSound(d)'
      <4>1. CASE create[d].base = b
        <5>1. 1..(n - 1) # 1..LastNumber
          BY <1>1, NumberAssumption
        <5>2. QED
          BY <1>1, <2>1, <2>4, <4>1, <5>1 DEF CreateSound, RefusalSound
      <4>2. CASE create[d].base # b
        BY <1>4, <2>1, <2>4, <4>2 DEF CreateSound, RefusalSound
      <4>3. QED
        BY <4>1, <4>2
    <3>5. QED
      BY <3>2, <3>3, <3>4 DEF CreateSound
  <2>5. QED
    BY <2>3, <2>4
<1>7. QED
  BY <1>3, <1>5, <1>6

\* A create that locks its rows or is rolled back.
LEMMA OtherSteps ==
  ASSUME NumbersInv, NEW c \in Creates, LockRows(c) \/ RollBack(c)
  PROVE  NumbersInv'
<1> USE DEF NumbersInv
<1>1. /\ UNCHANGED numbers /\ Open(c) /\ create[c].st # "refused"
      /\ \/ create' = [create EXCEPT ![c].st = "locked"]
         \/ create' = [create EXCEPT ![c].st = "failed"]
  BY DEF LockRows, RollBack, Ended, Open
<1>2. NumbersTypeOK' /\ Runs'
  BY <1>1 DEF NumbersTypeOK, Runs
<1>3. ASSUME NEW d \in Creates PROVE CreateSound(d)'
  <2>1. /\ \A e \in Creates \ {c} : create'[e] = create[e]
        /\ create'[c].st \in {"locked", "failed"}
        /\ create'[c].base = create[c].base /\ create'[c].seen = create[c].seen
        /\ create'[c].alone = create[c].alone
    BY <1>1 DEF NumbersTypeOK
  <2>2. \A e \in Creates : SameBase(e)' \subseteq SameBase(e)
    BY <1>1, <2>1 DEF SameBase, Open
  <2>3. Open(d)' => Open(d)
    BY <1>1, <2>1 DEF Open
  <2>4. Open(d)' => SeenSound(d)'
    BY <1>1, <2>1, <2>2, <2>3 DEF CreateSound, SeenSound
  <2>5. (create'[d].st = "inserted") => InsertSound(d)'
    BY <1>1, <2>1, <2>2 DEF CreateSound, InsertSound, SameBase
  <2>6. (create'[d].st = "refused") => RefusalSound(d)'
    BY <1>1, <2>1 DEF CreateSound, RefusalSound
  <2>7. QED
    BY <2>4, <2>5, <2>6 DEF CreateSound
<1>4. QED
  BY <1>2, <1>3

LEMMA NumbersInductive == NumbersInv /\ [NumbersNext]_numberVars => NumbersInv'
<1> SUFFICES ASSUME NumbersInv, [NumbersNext]_numberVars PROVE NumbersInv'
  OBVIOUS
<1>1. CASE UNCHANGED numberVars
  BY <1>1 DEF numberVars, NumbersInv, NumbersTypeOK, Runs, CreateSound, SeenSound,
              InsertSound, RefusalSound, SameBase, Open
<1>2. QED
  BY <1>1, SelectStep, InsertStep, RefuseStep, CommitNumberStep, OtherSteps
  DEF NumbersNext

\* The rows and the variables of the creates have their types, however the
\* transactions overlap.
THEOREM NumbersTyping == NumbersSpec => []NumbersTypeOK
<1>1. NumbersInv => NumbersTypeOK
  BY DEF NumbersInv
<1>2. QED
  BY <1>1, NumbersInitially, NumbersInductive, PTL DEF NumbersSpec

\* However the transactions overlap and roll back, the numbers of a base are a
\* run from 1, no two open transactions hold the same one, and a create that ran
\* alone is refused only at the last number.
THEOREM NumbersRun == NumbersSpec => []NumbersRunOn
<1>1. NumbersInv => NumbersRunOn
  <2> SUFFICES ASSUME NumbersInv PROVE NumbersRunOn
    OBVIOUS
  <2> USE DEF NumbersInv
  <2>1. ASSUME NEW b \in Bases PROVE numbers[b] = 1..Cardinality(numbers[b])
    <3>1. PICK n \in 0..LastNumber : numbers[b] = 1..n
      BY DEF Runs
    <3>2. QED
      BY <3>1, RunFacts
  <2>2. ASSUME NEW c \in Creates, create[c].st = "inserted"
        PROVE  /\ create[c].number = Cardinality(numbers[create[c].base]) + 1
               /\ \A d \in SameBase(c) : create[d].st # "inserted"
    <3>1. InsertSound(c)
      BY <2>2 DEF CreateSound
    <3>2. create[c].number - 1 \in Nat
      BY <3>1 DEF InsertSound
    <3>3. Cardinality(1..(create[c].number - 1)) = create[c].number - 1
      BY <3>2, RunFacts
    <3>4. QED
      BY <3>1, <3>2, <3>3 DEF InsertSound
  <2>3. ASSUME NEW c \in Creates, create[c].st = "refused", create[c].alone
        PROVE  numbers[create[c].base] = 1..LastNumber
    BY <2>3 DEF CreateSound, RefusalSound
  <2>4. QED
    BY <2>1, <2>2, <2>3 DEF NumbersRunOn
<1>2. QED
  BY <1>1, NumbersInitially, NumbersInductive, PTL DEF NumbersSpec

-----------------------------------------------------------------------------
(* The records together.                                                   *)

\* The parts share no state: a step of one leaves the others as they are.
LEMMA EachRecord == Spec => ContentSpec /\ GroupsSpec /\ NumbersSpec
<1>1. Init => ContentInit /\ GroupsInit /\ NumbersInit
  BY DEF Init, ContentResting, GroupsResting
<1>2. [Next]_allVars => /\ [ContentNext]_logVars
                        /\ [GroupsNext]_groupVars
                        /\ [NumbersNext]_numberVars
  BY DEF Next, allVars, logVars, groupVars, syncVars, numberVars
<1> QED  BY <1>1, <1>2, PTL DEF Spec, ContentSpec, GroupsSpec, NumbersSpec

\* Contents and their changes, members and groups, and the numbers of requests
\* keep their types, whatever handlers, consumers and creates overlap and fail.
THEOREM RecordsAreTyped == Spec => []RecordsTypeOK
<1>1. ContentTypeOK /\ GroupsTypeOK /\ NumbersTypeOK => RecordsTypeOK
  BY DEF RecordsTypeOK
<1> QED  BY <1>1, EachRecord, ContentsAreTyped, GroupsAreTyped, NumbersTyping, PTL
=============================================================================
