------------------------- MODULE DownloadItemsProofs -------------------------
(* downloadItems keeps its promise for calls of any size.                   *)
EXTENDS DownloadItems, FiniteSetTheorems, SequenceTheorems, TLAPS

(* What the array holds: items that have been read, each once.              *)
ArrayHolds ==
    /\ Len(itemArray) = count
    /\ \A i \in 1..count : itemArray[i] \in (1..withIds) \ waiting
    /\ \A i, j \in 1..count : itemArray[i] = itemArray[j] => i = j

(* Completion has only been called with what the array held at the time.    *)
AnswersHold == \A a \in 1..Len(answers) : Promise!Extends(itemArray, answers[a])

(* The inductive invariant.                                                 *)
IInv ==
    /\ TypeOK
    /\ withIds = NotCalled =>
          waiting = {} /\ itemArray = <<>> /\ count = 0 /\ answers = <<>>
    /\ withIds # NotCalled =>
          waiting \subseteq 1..withIds /\ ArrayHolds /\ AnswersHold
    /\ ReadsAccounted

-----------------------------------------------------------------------------
(* Answering one of the reads that wait leaves one less.                    *)
LEMMA OneLess ==
    ASSUME IInv, NEW i \in Positions, Answer(i)
    PROVE  /\ withIds \in 1..MaxIds /\ withIds' = withIds
           /\ i \in waiting /\ waiting' = waiting \ {i} /\ i \in 1..withIds
           /\ IsFiniteSet(waiting') /\ Cardinality(waiting) \in Nat \ {0}
           /\ Cardinality(waiting') = Cardinality(waiting) - 1
           /\ count \in Nat /\ Len(answers) \in Nat
           /\ count < withIds
           /\ Cardinality(waiting) + count + Len(answers) = withIds
<1>1. i \in waiting /\ withIds # NotCalled
  BY DEF Answer, IInv
<1>2. withIds \in 0..MaxIds /\ waiting \subseteq 1..withIds
  BY <1>1 DEF IInv, TypeOK
<1>3. IsFiniteSet(waiting)
  <2>1. 1 \in Int /\ withIds \in Int
    BY <1>2, MaxIdsAssumption
  <2>2. IsFiniteSet(1..withIds)
    BY <2>1, FS_Interval
  <2> QED
    BY <1>2, <2>2, FS_Subset
<1>4. Cardinality(waiting) \in Nat /\ Cardinality(waiting) # 0
  BY <1>1, <1>3, FS_CardinalityType, FS_EmptySet
<1>5. IsFiniteSet(waiting \ {i}) /\ Cardinality(waiting \ {i}) = Cardinality(waiting) - 1
  BY <1>1, <1>3, FS_RemoveElement
<1>6. count \in Nat /\ Len(answers) \in Nat
  BY DEF IInv, TypeOK
<1>7. count # withIds /\ Cardinality(waiting) + count + Len(answers) = withIds
  BY <1>1 DEF IInv, ReadsAccounted
<1> QED
  BY <1>1, <1>2, <1>4, <1>5, <1>6, <1>7, MaxIdsAssumption DEF Answer

(* What an appended array keeps and gains.                                  *)
LEMMA ArrayGrows ==
    ASSUME IInv, NEW i \in Positions, Answer(i),
           itemArray' = Append(itemArray, i), count' = count + 1
    PROVE  /\ itemArray' \in Seq(Positions)
           /\ ArrayHolds'
           /\ \A s \in Seq(Positions) :
                 Promise!Extends(itemArray, s) => Promise!Extends(itemArray', s)
<1>1. /\ itemArray \in Seq(Positions) /\ Len(itemArray) = count /\ count \in Nat
      /\ withIds \in Nat /\ withIds' = withIds
      /\ i \in waiting /\ i \in 1..withIds /\ waiting' = waiting \ {i}
  BY OneLess DEF IInv, TypeOK, ArrayHolds, Answer
<1>2. ArrayHolds
  BY <1>1, NotCalledAssumption DEF IInv
<1>3. /\ itemArray' \in Seq(Positions) /\ Len(itemArray') = count + 1
      /\ itemArray'[count + 1] = i
      /\ \A j \in 1..count : itemArray'[j] = itemArray[j]
  BY <1>1
<1>4. \A j \in 1..(count + 1) : j \in 1..count \/ j = count + 1
  BY <1>1
<1>5. \A j \in 1..count : itemArray[j] # i
  BY <1>1, <1>2 DEF ArrayHolds
<1>6. \A j \in 1..(count + 1) : itemArray'[j] \in (1..withIds) \ (waiting \ {i})
  BY <1>1, <1>2, <1>3, <1>4 DEF ArrayHolds
<1>7. \A j, k \in 1..(count + 1) : itemArray'[j] = itemArray'[k] => j = k
  BY <1>2, <1>3, <1>4, <1>5 DEF ArrayHolds
<1>8. ArrayHolds'
  BY <1>1, <1>3, <1>6, <1>7 DEF ArrayHolds
<1>9. ASSUME NEW s \in Seq(Positions), Promise!Extends(itemArray, s)
      PROVE  Promise!Extends(itemArray', s)
  <2>1. Len(s) \in Nat /\ Len(s) <= count
    BY <1>1, <1>9 DEF Promise!Extends
  <2> QED
    BY <1>1, <1>3, <1>9, <2>1 DEF Promise!Extends
<1> QED
  BY <1>3, <1>8, <1>9

(* Completion called with the array keeps the promise about prefixes.       *)
LEMMA AnswersGrow ==
    ASSUME IInv, NEW s \in Seq(Positions),
           \A a \in 1..Len(answers) : Promise!Extends(s, answers[a]),
           itemArray' = s, answers' = Append(answers, s)
    PROVE  answers' \in Seq(Seq(Positions)) /\ AnswersHold'
<1>1. answers \in Seq(Seq(Positions)) /\ Len(answers) \in Nat
  BY DEF IInv, TypeOK
<1>2. /\ answers' \in Seq(Seq(Positions)) /\ Len(answers') = Len(answers) + 1
      /\ answers'[Len(answers) + 1] = s
      /\ \A a \in 1..Len(answers) : answers'[a] = answers[a]
  BY <1>1
<1>3. \A a \in 1..Len(answers') : a \in 1..Len(answers) \/ a = Len(answers) + 1
  BY <1>1, <1>2
<1>4. Promise!Extends(s, s)
  BY DEF Promise!Extends
<1> QED
  BY <1>2, <1>3, <1>4 DEF AnswersHold

(* An absent item: completion is called with the array as it is.            *)
LEMMA AbsentStep ==
    ASSUME IInv, NEW i \in Positions, Answer(i), answers' = Append(answers, itemArray),
           UNCHANGED <<itemArray, count>>
    PROVE  IInv'
<1>1. /\ withIds \in 1..MaxIds /\ withIds' = withIds /\ withIds # NotCalled
      /\ waiting' = waiting \ {i} /\ count \in Nat /\ Len(answers) \in Nat
      /\ count # withIds
  BY OneLess, MaxIdsAssumption DEF IInv, Answer
<1>2. itemArray \in Seq(Positions) /\ AnswersHold /\ ArrayHolds /\ waiting \subseteq 1..withIds
  BY <1>1 DEF IInv, TypeOK
<1>3. answers' \in Seq(Seq(Positions)) /\ AnswersHold'
  BY <1>2, AnswersGrow DEF AnswersHold
<1>4. ArrayHolds'
  BY <1>1, <1>2 DEF ArrayHolds
<1>5. Len(answers') = Len(answers) + 1
  BY DEF IInv, TypeOK
<1>6. /\ Cardinality(waiting) \in Nat \ {0}
      /\ Cardinality(waiting') = Cardinality(waiting) - 1
      /\ Cardinality(waiting) + count + Len(answers) = withIds
  BY OneLess
<1>7. ReadsAccounted'
  BY <1>1, <1>5, <1>6 DEF ReadsAccounted
<1>8. TypeOK'
  BY <1>1, <1>3 DEF IInv, TypeOK
<1> QED
  BY <1>1, <1>2, <1>3, <1>4, <1>7, <1>8 DEF IInv

(* An item that is there.                                                   *)
LEMMA ThereStep ==
    ASSUME IInv, NEW i \in Positions, There(i)
    PROVE  IInv'
<1>1. Answer(i) /\ itemArray' = Append(itemArray, i) /\ count' = count + 1
  BY DEF There
<1>2. /\ withIds \in 1..MaxIds /\ withIds' = withIds /\ withIds # NotCalled
      /\ waiting' = waiting \ {i} /\ count \in Nat /\ Len(answers) \in Nat
      /\ waiting \subseteq 1..withIds
  BY <1>1, OneLess, MaxIdsAssumption DEF IInv, Answer
<1>3. /\ itemArray' \in Seq(Positions) /\ ArrayHolds'
      /\ \A s \in Seq(Positions) :
            Promise!Extends(itemArray, s) => Promise!Extends(itemArray', s)
  BY <1>1, ArrayGrows
<1>4. \A a \in 1..Len(answers) : answers[a] \in Seq(Positions)
  BY DEF IInv, TypeOK
<1>5. \A a \in 1..Len(answers) : Promise!Extends(itemArray', answers[a])
  BY <1>2, <1>3, <1>4 DEF IInv, AnswersHold
<1>6. answers' \in Seq(Seq(Positions)) /\ AnswersHold'
  <2>1. CASE count' = withIds
    BY <1>3, <1>5, <2>1, AnswersGrow DEF There
  <2>2. CASE count' # withIds
    BY <1>5, <2>2 DEF There, AnswersHold, IInv, TypeOK
  <2> QED
    BY <2>1, <2>2
<1>7. /\ IsFiniteSet(waiting') /\ Cardinality(waiting) \in Nat \ {0}
      /\ Cardinality(waiting') = Cardinality(waiting) - 1
      /\ count < withIds
      /\ Cardinality(waiting) + count + Len(answers) = withIds
  BY <1>1, OneLess
<1>8. ReadsAccounted'
  <2>1. CASE count' = withIds
    <3>1. Cardinality(waiting) = 1 /\ Len(answers) = 0 /\ Cardinality(waiting') = 0
      BY <1>1, <1>2, <1>7, <2>1
    <3>2. IsFiniteSet(waiting')
      BY <1>7
    <3>3. waiting' = {}
      BY <3>1, <3>2, FS_EmptySet
    <3>4. Len(answers') = 1
      BY <2>1, <3>1 DEF There, IInv, TypeOK
    <3> QED
      BY <1>2, <2>1, <3>3, <3>4 DEF ReadsAccounted
  <2>2. CASE count' # withIds
    <3>1. answers' = answers
      BY <2>2 DEF There
    <3> QED
      BY <1>1, <1>2, <1>7, <2>2, <3>1 DEF ReadsAccounted
  <2> QED
    BY <2>1, <2>2
<1>9. TypeOK'
  BY <1>1, <1>2, <1>3, <1>6 DEF IInv, TypeOK
<1> QED
  BY <1>2, <1>3, <1>6, <1>8, <1>9 DEF IInv

(* Making the call.                                                         *)
LEMMA CallStep ==
    ASSUME IInv, NEW n \in 0..MaxIds, Call(n)
    PROVE  IInv'
<1>1. /\ withIds = NotCalled /\ itemArray = <<>> /\ count = 0 /\ answers = <<>>
      /\ withIds' = n /\ waiting' = 1..n /\ n \in Nat /\ n # NotCalled
      /\ itemArray' = <<>> /\ count' = 0
  BY NotCalledAssumption, MaxIdsAssumption DEF IInv, Call
<1>2. answers' = IF n = 0 THEN << <<>> >> ELSE <<>>
  BY <1>1 DEF Call
<1>3. TypeOK'
  <2>1. waiting' \in SUBSET Positions /\ withIds' \in 0..MaxIds
    BY <1>1, MaxIdsAssumption DEF Positions
  <2>2. <<>> \in Seq(Positions)
    OBVIOUS
  <2>3. <<>> \in Seq(Seq(Positions)) /\ << <<>> >> \in Seq(Seq(Positions))
    BY <2>2
  <2>4. answers' \in Seq(Seq(Positions))
    BY <1>2, <2>3
  <2> QED
    BY <1>1, <2>1, <2>2, <2>4 DEF TypeOK
<1>4. ArrayHolds' /\ AnswersHold'
  BY <1>1, <1>2 DEF ArrayHolds, AnswersHold, Promise!Extends
<1>5. Cardinality(1..n) = n
  BY <1>1, FS_Interval
<1>6. ReadsAccounted'
  BY <1>1, <1>2, <1>5 DEF ReadsAccounted
<1> QED
  BY <1>1, <1>3, <1>4, <1>6 DEF IInv

(* NotThere is an absent item: count cannot be complete while a read waits. *)
LEMMA NotThereIsAbsent ==
    ASSUME IInv, NEW i \in Positions, NotThere(i) \/ NoSnapshot(i)
    PROVE  /\ Answer(i) /\ answers' = Append(answers, itemArray)
           /\ UNCHANGED <<itemArray, count>>
<1>1. Answer(i) /\ UNCHANGED <<itemArray, count>>
  BY DEF NotThere, NoSnapshot
<1>2. count # withIds
  BY <1>1, OneLess
<1>3. Append(answers, itemArray) \o <<>> = Append(answers, itemArray)
  BY DEF IInv, TypeOK
<1> QED
  BY <1>1, <1>2, <1>3 DEF NotThere, NoSnapshot

(* IInv holds from the start and is kept by every step.                     *)
LEMMA Inductive ==
    /\ Init => IInv
    /\ IInv /\ [Next]_vars => IInv'
<1>1. Init => IInv
  BY DEF Init, IInv, TypeOK, ReadsAccounted
<1>2. ASSUME IInv, NEW i \in Positions, GotDocument(i) PROVE IInv'
  BY <1>2, ThereStep, NotThereIsAbsent, AbsentStep DEF GotDocument
<1>3. IInv /\ UNCHANGED vars => IInv'
  BY DEF vars, IInv, TypeOK, ArrayHolds, AnswersHold, ReadsAccounted
<1> QED
  BY <1>1, <1>2, <1>3, CallStep DEF Next

(* A call of downloadItems accounts for every read, and its data has the    *)
(* declared types, for calls of any size.                                   *)
THEOREM EveryReadAccounted == Spec => [](TypeOK /\ ReadsAccounted)
<1>1. IInv => TypeOK /\ ReadsAccounted
  BY DEF IInv
<1> QED
  BY <1>1, Inductive, PTL DEF Spec

(* The types alone: no list a caller is given holds anything but documents  *)
(* of the call.                                                             *)
THEOREM TypeCorrect == Spec => []TypeOK
  BY EveryReadAccounted, PTL

-----------------------------------------------------------------------------
(* The lists a caller is given, seen as those of Delivery.                  *)
LEMMA ArrayIsList ==
    ASSUME NEW n \in Nat, NEW k \in Nat, NEW s \in Seq(Positions), Len(s) = k,
           \A i \in 1..k : s[i] \in 1..n,
           \A i, j \in 1..k : s[i] = s[j] => i = j
    PROVE  s \in Promise!Lists(k, n)
<1>1. s \in [1..k -> 1..n] /\ DOMAIN s = 1..k
  BY LenProperties
<1> QED
  BY <1>1 DEF Promise!Lists, Promise!Injection, Promise!IsInjective

(* downloadItems implements Delivery: it answers once with everything, or   *)
(* with growing lists that lack something, never more than it has reads.    *)
THEOREM KeepsPromise == Spec => Promise!Spec
<1>1. Init => Promise!Init
  BY DEF Init, Promise!Init
<1>2. ASSUME IInv, NEW n \in 0..MaxIds, Call(n) PROVE Promise!Call(n)
  BY <1>2 DEF Call, Promise!Call, IInv
<1>3. ASSUME IInv, NEW i \in Positions, There(i), count' = withIds
      PROVE  Promise!AnswerAll
  <2>1. /\ Answer(i) /\ withIds \in 1..MaxIds /\ withIds' = withIds /\ IInv'
        /\ answers' = Append(answers, itemArray')
    BY <1>3, OneLess, ThereStep DEF There
  <2>2. Len(answers) = 0 /\ answers \in Seq(Seq(Positions))
    BY <1>3, <2>1, OneLess DEF There, IInv, TypeOK
  <2>3. answers = <<>> /\ answers' = <<itemArray'>>
    BY <2>1, <2>2
  <2>4. ArrayHolds' /\ itemArray' \in Seq(Positions) /\ withIds \in Nat
    BY <2>1, NotCalledAssumption, MaxIdsAssumption DEF IInv, TypeOK
  <2>5. itemArray' \in Promise!Lists(withIds, withIds)
    BY <1>3, <2>1, <2>4, ArrayIsList DEF ArrayHolds
  <2> QED
    BY <2>1, <2>3, <2>5 DEF Promise!AnswerAll
<1>4. ASSUME IInv, NEW i \in Positions, There(i), count' # withIds
      PROVE  UNCHANGED Promise!vars
  BY <1>4 DEF There, Answer, Promise!vars
<1>5. ASSUME IInv, NEW i \in Positions, NotThere(i) \/ NoSnapshot(i)
      PROVE  Promise!AnswerSome
  <2>1. /\ Answer(i) /\ answers' = Append(answers, itemArray)
        /\ UNCHANGED <<itemArray, count>>
    BY <1>5, NotThereIsAbsent
  <2>2. /\ withIds \in 1..MaxIds /\ withIds' = withIds /\ withIds # NotCalled
        /\ count \in 0..(withIds - 1) /\ Len(answers) < withIds
    BY <1>5, <2>1, OneLess, NotCalledAssumption, MaxIdsAssumption
  <2>3. ArrayHolds /\ AnswersHold /\ itemArray \in Seq(Positions)
        /\ answers \in Seq(Seq(Positions))
    BY <1>5, <2>2 DEF IInv, TypeOK
  <2>4. itemArray \in Promise!Lists(count, withIds)
    BY <2>2, <2>3, MaxIdsAssumption, ArrayIsList DEF ArrayHolds
  <2>5. \A a \in DOMAIN answers :
           Len(answers[a]) < withIds /\ Promise!Extends(itemArray, answers[a])
    <3> SUFFICES ASSUME NEW a \in 1..Len(answers)
                 PROVE  Len(answers[a]) < withIds /\ Promise!Extends(itemArray, answers[a])
      BY <2>3
    <3>1. Promise!Extends(itemArray, answers[a]) /\ answers[a] \in Seq(Positions)
      BY <2>3 DEF AnswersHold
    <3>2. Len(answers[a]) \in Nat /\ Len(answers[a]) <= count
      BY <2>3, <3>1 DEF Promise!Extends, ArrayHolds
    <3> QED
      BY <2>2, <3>1, <3>2, MaxIdsAssumption
  <2> QED
    BY <2>1, <2>2, <2>4, <2>5 DEF Promise!AnswerSome
<1>6. UNCHANGED vars => UNCHANGED Promise!vars
  BY DEF vars, Promise!vars
<1>7. IInv /\ [Next]_vars => [Promise!Next]_Promise!vars
  BY <1>2, <1>3, <1>4, <1>5, <1>6 DEF Next, GotDocument, Promise!Next
<1> QED
  BY <1>1, <1>7, Inductive, PTL DEF Spec, Promise!Spec

=============================================================================
