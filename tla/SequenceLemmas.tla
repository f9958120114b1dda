--------------------------- MODULE SequenceLemmas ---------------------------
(* What the proofs about the queues of the model need: the last of some     *)
(* entries exists; what an entry of an extended or shortened queue is; the  *)
(* elements of a queue with one of its entries taken out.                   *)
EXTENDS Integers, Sequences, Functions, SequenceTheorems, FunctionTheorems,
        FiniteSetTheorems, WellFoundedInduction, TLAPS

Less == {ss \in Nat \X Nat : ss[1] < ss[2]}

(* The order of the natural numbers is well-founded. *)
LEMMA LessWellFounded == IsWellFoundedOn(Less, Nat)
  BY NatLessThanWellFounded DEF OpToRel, Less

(* A set of natural numbers has a least element. *)
LEMMA Least ==
    ASSUME NEW D \in SUBSET Nat, D # {}
    PROVE  \E x \in D : \A y \in D : x <= y
<1>1. PICK x \in D : \A y \in D : <<y, x>> \notin Less
  BY LessWellFounded, WFMin
<1>2. \A y \in D : ~ (y < x)
  BY <1>1 DEF Less
<1> QED
  BY <1>2

(* A set of positions of a queue has a last one. *)
LEMMA Greatest ==
    ASSUME NEW n \in Nat, NEW T \in SUBSET (1..n), T # {}
    PROVE  \E i \in T : \A j \in T : j <= i
<1> DEFINE D == {n - i : i \in T}
<1>1. \A i \in T : i \in Int /\ 1 <= i /\ i <= n
  OBVIOUS
<1>2. D \in SUBSET Nat
  BY <1>1
<1>3. PICK x \in D : \A y \in D : x <= y
  <2>1. D # {}
    OBVIOUS
  <2> QED
    BY <1>2, <2>1, Least
<1>4. PICK i \in T : x = n - i
  OBVIOUS
<1>5. \A j \in T : n - i <= n - j
  BY <1>3, <1>4
<1> QED
  BY <1>1, <1>5

(* What a shorter queue holds, the longer one held. *)
LEMMA TailEntries ==
    ASSUME NEW S, NEW q \in Seq(S), q # <<>>
    PROVE  /\ Head(q) \in S /\ Tail(q) \in Seq(S)
           /\ 1 \in DOMAIN q /\ Head(q) = q[1]
           /\ Len(Tail(q)) = Len(q) - 1
           /\ \A i \in DOMAIN Tail(q) : i + 1 \in DOMAIN q /\ Tail(q)[i] = q[i + 1]
<1>1. Len(q) \in Nat /\ Len(q) >= 1 /\ DOMAIN q = 1..Len(q)
  BY EmptySeq
<1>2. /\ Head(q) \in S /\ Tail(q) \in Seq(S) /\ Head(q) = q[1]
      /\ Len(Tail(q)) = Len(q) - 1
      /\ \A i \in 1..Len(Tail(q)) : Tail(q)[i] = q[i + 1]
  BY <1>1
<1>3. DOMAIN Tail(q) = 1..Len(Tail(q))
  BY <1>2
<1> QED
  BY <1>1, <1>2, <1>3

(* What a longer queue holds: what it held, and the new entry. *)
LEMMA AppendEntries ==
    ASSUME NEW S, NEW q \in Seq(S), NEW e \in S
    PROVE  /\ Append(q, e) \in Seq(S)
           /\ Len(Append(q, e)) = Len(q) + 1
           /\ \A i \in DOMAIN Append(q, e) :
                 \/ i \in DOMAIN q /\ Append(q, e)[i] = q[i]
                 \/ i = Len(q) + 1 /\ Append(q, e)[i] = e
<1>1. Len(q) \in Nat /\ DOMAIN q = 1..Len(q)
  OBVIOUS
<1>2. /\ Append(q, e) \in Seq(S) /\ Len(Append(q, e)) = Len(q) + 1
      /\ \A i \in 1..Len(q) : Append(q, e)[i] = q[i]
      /\ Append(q, e)[Len(q) + 1] = e
  OBVIOUS
<1>3. DOMAIN Append(q, e) = 1..(Len(q) + 1)
  BY <1>1, <1>2
<1>4. \A i \in 1..(Len(q) + 1) : i \in 1..Len(q) \/ i = Len(q) + 1
  BY <1>1
<1> QED
  BY <1>1, <1>2, <1>3, <1>4

(* A queue with entry i taken out. *)
LEMMA WithoutEntry ==
    ASSUME NEW S, NEW q \in Seq(S), NEW i \in DOMAIN q
    PROVE  LET r == SubSeq(q, 1, i - 1) \o SubSeq(q, i + 1, Len(q))
           IN  /\ r \in Seq(S) /\ Len(r) = Len(q) - 1
               /\ \A j \in 1..Len(r) : IF j < i THEN r[j] = q[j] ELSE r[j] = q[j + 1]
<1> DEFINE a == SubSeq(q, 1, i - 1)
           b == SubSeq(q, i + 1, Len(q))
<1>1. Len(q) \in Nat /\ i \in 1..Len(q) /\ \A j \in 1..Len(q) : q[j] \in S
  OBVIOUS
<1>2. a \in Seq(S) /\ Len(a) = i - 1 /\ \A j \in 1..(i - 1) : a[j] = q[j]
  <2>1. 1..(i - 1) \subseteq DOMAIN q
    BY <1>1
  <2> QED
    BY <1>1, <2>1, SubSeqProperties
<1>3. b \in Seq(S) /\ Len(b) = Len(q) - i /\ \A j \in 1..(Len(q) - i) : b[j] = q[j + i]
  <2>1. (i + 1)..Len(q) \subseteq DOMAIN q
    BY <1>1
  <2> QED
    BY <1>1, <2>1, SubSeqProperties
<1> HIDE DEF a, b
<1>4. /\ a \o b \in Seq(S) /\ Len(a \o b) = Len(a) + Len(b)
      /\ \A j \in 1..(Len(a) + Len(b)) :
           (a \o b)[j] = IF j <= Len(a) THEN a[j] ELSE b[j - Len(a)]
  <2>1. a \in Seq(S) /\ b \in Seq(S)
    BY <1>2, <1>3
  <2> QED
    BY <2>1, ConcatProperties
<1>5. \A j \in 1..Len(a \o b) : (a \o b)[j] = IF j <= Len(a) THEN a[j] ELSE b[j - Len(a)]
  BY <1>4
<1>6. Len(a \o b) = Len(q) - 1
  BY <1>1, <1>2, <1>3, <1>4
<1>7. ASSUME NEW j \in 1..(Len(q) - 1), j < i
      PROVE  (a \o b)[j] = q[j]
  <2>1. j \in 1..(i - 1) /\ j <= Len(a)
    BY <1>1, <1>2, <1>7
  <2> QED
    BY <1>2, <1>5, <1>6, <2>1
<1>8. ASSUME NEW j \in 1..(Len(q) - 1), ~ (j < i)
      PROVE  (a \o b)[j] = q[j + 1]
  <2>1. /\ j - (i - 1) \in 1..(Len(q) - i) /\ ~ (j <= i - 1)
        /\ (j - (i - 1)) + i = j + 1
    BY <1>1, <1>8
  <2>2. (a \o b)[j] = b[j - (i - 1)]
    BY <1>2, <1>5, <1>6, <2>1
  <2> QED
    BY <1>3, <2>1, <2>2
<1>9. \A j \in 1..(Len(q) - 1) :
        IF j < i THEN (a \o b)[j] = q[j] ELSE (a \o b)[j] = q[j + 1]
  BY <1>7, <1>8
<1> QED
  BY <1>4, <1>2, <1>3, <1>6, <1>9 DEF a, b

(* A queue of one entry. *)
LEMMA OnlyEntry ==
    ASSUME NEW S, NEW q \in Seq(S)
    PROVE  /\ Len(q) = 1 <=> \E e \in S : q = <<e>>
           /\ Len(q) = 0 <=> q = <<>>
           /\ \A e \in S : /\ <<e>> # <<>> /\ <<e>>[1] = e /\ DOMAIN <<e>> = {1}
                           /\ Head(<<e>>) = e /\ Tail(<<e>>) = <<>>
                           /\ Append(<<>>, e) = <<e>>
<1>1. Len(q) = 0 <=> q = <<>>
  BY EmptySeq
<1>2. \A e \in S : /\ <<e>> # <<>> /\ <<e>>[1] = e /\ DOMAIN <<e>> = {1}
                   /\ Head(<<e>>) = e /\ Tail(<<e>>) = <<>>
                   /\ Append(<<>>, e) = <<e>>
  OBVIOUS
<1>3. ASSUME Len(q) = 1
      PROVE  \E e \in S : q = <<e>>
  <2>1. DOMAIN q = 1..1 /\ q[1] \in S
    BY <1>3
  <2>2. q = [i \in 1..1 |-> q[i]]
    BY <1>3
  <2>3. q = <<q[1]>>
    BY <1>3, <2>1
  <2> QED
    BY <2>1, <2>3
<1> QED
  BY <1>1, <1>2, <1>3

(* The entries of a queue. *)
Entries(q) == {q[i] : i \in DOMAIN q}

(* They come in from behind and go out in front. *)
LEMMA EntriesOf ==
    ASSUME NEW S, NEW q \in Seq(S)
    PROVE  /\ Entries(q) \in SUBSET S
           /\ Entries(q) = {} <=> q = <<>>
           /\ \A e \in S : Entries(Append(q, e)) = Entries(q) \cup {e}
           /\ q # <<>> => Head(q) \in S /\ Entries(q) = Entries(Tail(q)) \cup {Head(q)}
<1>1. Len(q) \in Nat /\ DOMAIN q = 1..Len(q) /\ \A i \in DOMAIN q : q[i] \in S
  OBVIOUS
<1>2. Entries(q) \in SUBSET S
  BY <1>1 DEF Entries
<1>3. Entries(q) = {} <=> q = <<>>
  <2>1. CASE q = <<>>
    BY <2>1 DEF Entries
  <2>2. CASE q # <<>>
    BY <2>2, TailEntries DEF Entries
  <2> QED
    BY <2>1, <2>2
<1>4. ASSUME NEW e \in S
      PROVE  Entries(Append(q, e)) = Entries(q) \cup {e}
  <2> DEFINE r == Append(q, e)
  <2>1. /\ \A i \in DOMAIN r : \/ i \in DOMAIN q /\ r[i] = q[i]
                               \/ i = Len(q) + 1 /\ r[i] = e
    BY AppendEntries
  <2>2. /\ \A i \in DOMAIN q : i \in DOMAIN r /\ r[i] = q[i]
        /\ Len(q) + 1 \in DOMAIN r /\ r[Len(q) + 1] = e
    BY <1>1
  <2> HIDE DEF r
  <2>3. Entries(r) = Entries(q) \cup {e}
    BY <2>1, <2>2 DEF Entries
  <2> QED
    BY <2>3 DEF r
<1>5. ASSUME q # <<>>
      PROVE  Head(q) \in S /\ Entries(q) = Entries(Tail(q)) \cup {Head(q)}
  <2> DEFINE t == Tail(q)
  <2>1. /\ Head(q) \in S /\ 1 \in DOMAIN q /\ Head(q) = q[1] /\ Len(t) = Len(q) - 1
        /\ t \in Seq(S) /\ \A i \in DOMAIN t : i + 1 \in DOMAIN q /\ t[i] = q[i + 1]
    BY <1>5, TailEntries
  <2>2. \A i \in DOMAIN q : i # 1 => i - 1 \in DOMAIN t /\ t[i - 1] = q[i]
    <3> SUFFICES ASSUME NEW i \in 1..Len(q), i # 1
                 PROVE  i - 1 \in DOMAIN t /\ t[i - 1] = q[i]
      BY <1>1
    <3>1. i - 1 \in DOMAIN t /\ (i - 1) + 1 = i
      BY <1>1, <2>1
    <3> QED
      BY <2>1, <3>1
  <2> HIDE DEF t
  <2>3. Entries(q) = Entries(t) \cup {Head(q)}
    BY <2>1, <2>2 DEF Entries
  <2> QED
    BY <2>1, <2>3 DEF t
<1> QED
  BY <1>2, <1>3, <1>4, <1>5

(* Taking one out adds none. *)
LEMMA EntriesWithout ==
    ASSUME NEW S, NEW q \in Seq(S), NEW i \in DOMAIN q
    PROVE  Entries(SubSeq(q, 1, i - 1) \o SubSeq(q, i + 1, Len(q))) \subseteq Entries(q)
<1> DEFINE r == SubSeq(q, 1, i - 1) \o SubSeq(q, i + 1, Len(q))
<1>1. /\ r \in Seq(S) /\ Len(r) = Len(q) - 1
      /\ \A j \in 1..Len(r) : IF j < i THEN r[j] = q[j] ELSE r[j] = q[j + 1]
  BY WithoutEntry
<1>2. Len(q) \in Nat /\ DOMAIN q = 1..Len(q)
  OBVIOUS
<1> HIDE DEF r
<1>3. DOMAIN r = 1..(Len(q) - 1)
  BY <1>1, <1>2
<1>4. \A j \in DOMAIN r : \E k \in DOMAIN q : r[j] = q[k]
  <2> SUFFICES ASSUME NEW j \in 1..(Len(q) - 1)
               PROVE  \E k \in DOMAIN q : r[j] = q[k]
    BY <1>3
  <2>1. j \in DOMAIN q /\ j + 1 \in DOMAIN q
    BY <1>2
  <2>2. r[j] = q[j] \/ r[j] = q[j + 1]
    BY <1>1, <1>2
  <2> QED
    BY <2>1, <2>2
<1>5. Entries(r) \subseteq Entries(q)
  BY <1>4 DEF Entries
<1> QED
  BY <1>5 DEF r

(* A queue that has nothing twice has as many places as entries. *)
LEMMA InjectiveLength ==
    ASSUME NEW S, NEW q \in Seq(S), IsInjective(q)
    PROVE  IsFiniteSet(Entries(q)) /\ Cardinality(Entries(q)) = Len(q)
<1>1. Len(q) \in Nat /\ DOMAIN q = 1..Len(q)
  OBVIOUS
<1>2. q \in [1..Len(q) -> Entries(q)]
  BY <1>1 DEF Entries
<1>3. /\ \A i, j \in 1..Len(q) : q[i] = q[j] => i = j
      /\ \A e \in Entries(q) : \E i \in 1..Len(q) : q[i] = e
  BY <1>1 DEF IsInjective, Entries
<1>4. ExistsBijection(1..Len(q), Entries(q))
  <2>1. q \in Injection(1..Len(q), Entries(q))
    BY <1>2, <1>3, Fun_IsInj
  <2>2. q \in Surjection(1..Len(q), Entries(q))
    BY <1>2, <1>3, Fun_IsSurj
  <2> QED
    BY <2>1, <2>2 DEF ExistsBijection, Bijection
<1> QED
  BY <1>1, <1>4, FS_CountingElements, FS_NatBijection

(* A new entry is none of the old ones. *)
LEMMA InjectiveAppend ==
    ASSUME NEW S, NEW q \in Seq(S), NEW e \in S, IsInjective(q), e \notin Entries(q)
    PROVE  IsInjective(Append(q, e))
<1> DEFINE r == Append(q, e)
<1>1. \A i \in DOMAIN r : \/ i \in DOMAIN q /\ r[i] = q[i]
                          \/ i = Len(q) + 1 /\ r[i] = e
  BY AppendEntries
<1>2. \A i \in DOMAIN q : q[i] # e
  BY DEF Entries
<1> HIDE DEF r
<1>3. \A i, j \in DOMAIN r : r[i] = r[j] => i = j
  BY <1>1, <1>2 DEF IsInjective
<1> QED
  BY <1>3 DEF r, IsInjective

(* Nothing twice: what is taken off the front is not behind. *)
LEMMA InjectiveTail ==
    ASSUME NEW S, NEW q \in Seq(S), q # <<>>, IsInjective(q)
    PROVE  IsInjective(Tail(q)) /\ Head(q) \notin Entries(Tail(q))
<1> DEFINE t == Tail(q)
<1>1. /\ 1 \in DOMAIN q /\ Head(q) = q[1] /\ DOMAIN t \subseteq Nat \ {0}
      /\ \A i \in DOMAIN t : i + 1 \in DOMAIN q /\ t[i] = q[i + 1]
  <2>1. t \in Seq(S)
    BY TailEntries
  <2> QED
    BY <2>1, TailEntries
<1> HIDE DEF t
<1>2. \A i, j \in DOMAIN t : t[i] = t[j] => i = j
  <2> SUFFICES ASSUME NEW i \in DOMAIN t, NEW j \in DOMAIN t, t[i] = t[j]
               PROVE  i = j
    OBVIOUS
  <2>1. i + 1 = j + 1
    BY <1>1 DEF IsInjective
  <2> QED
    BY <1>1, <2>1
<1>3. \A i \in DOMAIN t : t[i] # q[1]
  <2> SUFFICES ASSUME NEW i \in DOMAIN t, t[i] = q[1]
               PROVE  FALSE
    OBVIOUS
  <2>1. i + 1 = 1
    BY <1>1 DEF IsInjective
  <2> QED
    BY <1>1, <2>1
<1> QED
  BY <1>1, <1>2, <1>3 DEF t, IsInjective, Entries

(* What has nothing in common is counted one after the other. *)
LEMMA DisjointUnion ==
    ASSUME NEW S, NEW T, IsFiniteSet(S), IsFiniteSet(T), S \cap T = {}
    PROVE  /\ IsFiniteSet(S \cup T)
           /\ Cardinality(S \cup T) = Cardinality(S) + Cardinality(T)
<1>1. /\ IsFiniteSet(S \cup T)
      /\ Cardinality(S \cup T) = Cardinality(S) + Cardinality(T) - Cardinality(S \cap T)
  BY FS_Union
<1>2. Cardinality(S \cap T) = 0 /\ Cardinality(S) \in Nat /\ Cardinality(T) \in Nat
  BY FS_EmptySet, FS_CardinalityType
<1> QED
  BY <1>1, <1>2

=============================================================================
