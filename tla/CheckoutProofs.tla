--------------------------- MODULE CheckoutProofs ---------------------------
(* What Checkout guarantees for any items and bounds.                       *)
EXTENDS Checkout, SequenceLemmas

(* Every group of variables that an action leaves alone is seen through.    *)
USE DEF server, list, payment, waiting, bounds, accounts

-----------------------------------------------------------------------------
(* The inductive invariants.                                                *)

(* A payment is dismissed with the sheet it was made with. *)
LeavingHasSheet == leaving => sheet # Nothing

(* A history that accounts for everything but the payment whose sheet is    *)
(* still being dismissed.                                                   *)
Due(x) == IF leaving THEN sheet[x] ELSE 0
Accounts(b) == \A x \in Items : b[x] + Due(x) = paid[x] + unpaid[x]

(* Every version of the history that can become the next one accounts for   *)
(* the payments: the one that is written, the one that is stored when no    *)
(* other is on its way, and the record's when nothing is being recorded.    *)
Histories(q) == {w \in Entries(q) : w.of = "history"}
HistoryInStep ==
    ~troubled =>
        /\ \A w \in Histories(pending) :
             /\ w.live /\ Accounts(w.items)
             /\ w.rec # Nothing /\ Accounts(w.rec.bought)
        /\ \A c \in Histories(mainQ) : c.ok /\ c.rec # Nothing /\ Accounts(c.rec.bought)
        /\ Histories(pending) # {} \/ Accounts(doc.bought)
        /\ Recording \/ local = Nothing \/ Accounts(local.bought)

(* An update of the profile brings back the history that the record had     *)
(* when it was made: it is through before a purchase is recorded, and       *)
(* between purchases it brings back nothing old.                            *)
Profiles(q) == {w \in Entries(q) : w.of \in {"edit", "finish"}}
ProfilesFirst(q) ==
    \A i, j \in DOMAIN q :
        q[i].of = "history" /\ q[j].of \in {"edit", "finish"} => j < i
ProfilesInStep ==
    ~troubled =>
        /\ ProfilesFirst(pending) /\ ProfilesFirst(mainQ)
        /\ Histories(mainQ) = {} \/ Profiles(pending) = {}
        /\ Recording \/ \A e \in Profiles(pending) \cup Profiles(mainQ) :
                           e.rec # Nothing /\ Accounts(e.rec.bought)

(* And whatever fails or overlaps, no version of the history holds more     *)
(* than the payments and what the attempts before them left behind.         *)
Copies(q) == {e.rec : e \in Entries(q)}
Arrays(q) == {w.items : w \in Histories(q)}
Copied == {local} \cup Copies(pending) \cup Copies(mainQ)
Versions == {doc.bought} \cup {r.bought : r \in Copied \ {Nothing}} \cup Arrays(pending)
Covered(b) == \A x \in Items : b[x] + Due(x) <= paid[x] + unpaid[x]
NoneMore == \A b \in Versions : Covered(b)

(* A user who has seen all of the basket: every copy of it that can be paid *)
(* for holds at least what the basket holds.                                *)
Below(b, c) == \A x \in Items : b[x] <= c[x]
Mine == Seen("basket", stored)
BasketInStep ==
    ~behind =>
        /\ basket = Nothing \/ basket = Mine
        /\ Below(Mine, allItems) \/ (allItems = Empty /\ ~enabled)
        /\ \A b \in Entries(fetches) : Below(Mine, b)
        /\ sheet # Nothing => Below(Mine, sheet)

-----------------------------------------------------------------------------
(* The operators.                                                           *)

(* The bags that the actions build are bags, and count what they should. *)
LEMMA BagType ==
    /\ Empty \in Bag /\ [Items -> {0, 1}] \subseteq Bag
    /\ \A b \in Bag, c \in Bag : Plus(b, c) \in Bag
    /\ \A b \in Bag, x \in Items : With(b, x) \in Bag /\ Without(b, x) \in Bag
    /\ \A b \in Bag, c \in Bag, x \in Items : Plus(b, c)[x] = b[x] + c[x]
    /\ \A x \in Items : Empty[x] = 0
  BY DEF Bag, Empty, Plus, With, Without

(* What remains of an array when an item is missing is an array. *)
LEMMA PartsType ==
    ASSUME NEW b \in Bag, NEW c \in Parts(b)
    PROVE  c \in Bag
<1>1. \A x \in Items : b[x] \in Nat
  BY DEF Bag
<1>2. UNION {0..b[x] : x \in Items} \subseteq Nat
  BY <1>1
<1> QED
  BY <1>2 DEF Parts, Bag

(* What a phone sees of an array through the queue q of pending writes. *)
SeenIn(q, of, base) ==
    LET W == {i \in DOMAIN q : q[i].of = of}
    IN  IF W = {} THEN base ELSE q[CHOOSE i \in W : \A j \in W : j <= i].items

(* Seen is SeenIn of the queue of the phone. *)
LEMMA SeenPending ==
    ASSUME NEW of, NEW base
    PROVE  Seen(of, base) = SeenIn(pending, of, base)
  BY DEF Seen, SeenIn

(* It is the last write of that array, or the array when there is none. *)
LEMMA SeenShows ==
    ASSUME NEW q \in Seq(Write), NEW of, NEW base
    PROVE  \/ /\ \A i \in DOMAIN q : q[i].of # of
              /\ SeenIn(q, of, base) = base
           \/ \E i \in DOMAIN q :
                 /\ q[i].of = of /\ SeenIn(q, of, base) = q[i].items
                 /\ \A j \in DOMAIN q : q[j].of = of => j <= i
<1> DEFINE W == {i \in DOMAIN q : q[i].of = of}
           last == CHOOSE i \in W : \A j \in W : j <= i
<1>1. CASE W = {}
  BY <1>1 DEF SeenIn
<1>2. CASE W # {}
  <2>1. W \in SUBSET (1..Len(q)) /\ Len(q) \in Nat
    OBVIOUS
  <2>2. \E i \in W : \A j \in W : j <= i
    BY <1>2, <2>1, Greatest
  <2>3. last \in W /\ \A j \in W : j <= last
    BY <2>2
  <2>4. SeenIn(q, of, base) = q[last].items
    BY <1>2 DEF SeenIn
  <2> QED
    BY <2>3, <2>4
<1> QED
  BY <1>1, <1>2

(* The last write of the array is what is seen. *)
LEMMA SeenLast ==
    ASSUME NEW q \in Seq(Write), NEW of, NEW base, NEW i \in DOMAIN q, q[i].of = of,
           \A j \in DOMAIN q : q[j].of = of => j <= i
    PROVE  SeenIn(q, of, base) = q[i].items
<1>1. PICK k \in DOMAIN q : /\ q[k].of = of /\ SeenIn(q, of, base) = q[k].items
                            /\ \A j \in DOMAIN q : q[j].of = of => j <= k
  BY SeenShows
<1>2. i = k
  <2>1. i <= k /\ k <= i /\ i \in Int /\ k \in Int
    BY <1>1
  <2> QED
    BY <2>1
<1> QED
  BY <1>1, <1>2

(* The array is what is seen when no write of it waits. *)
LEMMA SeenBase ==
    ASSUME NEW q, NEW of, NEW base, \A i \in DOMAIN q : q[i].of # of
    PROVE  SeenIn(q, of, base) = base
  BY DEF SeenIn

(* What is seen is an array. *)
LEMMA SeenType ==
    ASSUME NEW q \in Seq(Write), NEW of, NEW base \in Bag
    PROVE  SeenIn(q, of, base) \in Bag
<1>1. \A i \in DOMAIN q : q[i] \in Write
  OBVIOUS
<1>2. \A i \in DOMAIN q : q[i].items \in Bag
  BY <1>1 DEF Write
<1> QED
  BY <1>2, SeenShows

(* A new write shows through; one of another array does not. *)
LEMMA SeenAppend ==
    ASSUME NEW q \in Seq(Write), NEW w \in Write, NEW of, NEW base
    PROVE  SeenIn(Append(q, w), of, base) =
             IF w.of = of THEN w.items ELSE SeenIn(q, of, base)
<1> DEFINE r == Append(q, w)
<1>1. /\ r \in Seq(Write) /\ Len(r) = Len(q) + 1
      /\ \A i \in DOMAIN r : \/ i \in DOMAIN q /\ r[i] = q[i]
                             \/ i = Len(q) + 1 /\ r[i] = w
  BY AppendEntries
<1>2. /\ Len(q) \in Nat /\ DOMAIN q = 1..Len(q) /\ DOMAIN r = 1..(Len(q) + 1)
      /\ r[Len(q) + 1] = w /\ \A i \in DOMAIN q : r[i] = q[i] /\ i \in DOMAIN r
  OBVIOUS
<1> HIDE DEF r
<1>3. CASE w.of = of
  <2>1. /\ Len(q) + 1 \in DOMAIN r /\ r[Len(q) + 1].of = of
        /\ \A j \in DOMAIN r : j <= Len(q) + 1
    BY <1>2, <1>3
  <2>2. SeenIn(r, of, base) = r[Len(q) + 1].items
    BY <1>1, <2>1, SeenLast
  <2> QED
    BY <1>2, <1>3, <2>2 DEF r
<1>4. CASE w.of # of
  <2>1. CASE \A i \in DOMAIN q : q[i].of # of
    <3>1. \A i \in DOMAIN r : r[i].of # of
      BY <1>1, <1>4, <2>1
    <3>2. SeenIn(r, of, base) = base /\ SeenIn(q, of, base) = base
      BY <2>1, <3>1, SeenBase
    <3> QED
      BY <1>4, <3>2 DEF r
  <2>2. CASE \E i \in DOMAIN q : q[i].of = of
    <3>1. PICK i \in DOMAIN q : /\ q[i].of = of /\ SeenIn(q, of, base) = q[i].items
                                /\ \A j \in DOMAIN q : q[j].of = of => j <= i
      BY <2>2, SeenShows
    <3>2. i \in DOMAIN r /\ r[i] = q[i]
      BY <1>2
    <3>3. r[i].of = of /\ \A j \in DOMAIN r : r[j].of = of => j <= i
      BY <1>1, <1>4, <3>1, <3>2
    <3>4. r \in Seq(Write) /\ i \in DOMAIN r
      BY <1>1, <3>2
    <3>5. PICK k \in DOMAIN r : /\ r[k].of = of /\ SeenIn(r, of, base) = r[k].items
                                /\ \A j \in DOMAIN r : r[j].of = of => j <= k
      BY <3>3, <3>4, SeenShows
    <3>6. i = k
      BY <1>1, <1>2, <3>1, <3>3, <3>4, <3>5
    <3> QED
      BY <1>4, <3>1, <3>2, <3>5, <3>6 DEF r
  <2> QED
    BY <2>1, <2>2
<1> QED
  BY <1>3, <1>4

(* When the first write is applied to its array, what is seen remains. *)
LEMMA SeenTail ==
    ASSUME NEW q \in Seq(Write), q # <<>>, NEW of, NEW base
    PROVE  /\ Head(q).of = of => SeenIn(Tail(q), of, Head(q).items) = SeenIn(q, of, base)
           /\ Head(q).of # of => SeenIn(Tail(q), of, base) = SeenIn(q, of, base)
<1> DEFINE t == Tail(q)
           from == IF Head(q).of = of THEN Head(q).items ELSE base
<1>1. /\ t \in Seq(Write) /\ 1 \in DOMAIN q /\ Head(q) = q[1] /\ Len(t) = Len(q) - 1
      /\ \A i \in DOMAIN t : i + 1 \in DOMAIN q /\ t[i] = q[i + 1]
  BY TailEntries
<1>2. Len(q) \in Nat /\ DOMAIN q = 1..Len(q) /\ DOMAIN t = 1..(Len(q) - 1)
  BY <1>1
<1>3. \A i \in DOMAIN q : i # 1 => i - 1 \in DOMAIN t /\ t[i - 1] = q[i]
  <2> SUFFICES ASSUME NEW i \in 1..Len(q), i # 1
               PROVE  i - 1 \in DOMAIN t /\ t[i - 1] = q[i]
    BY <1>2
  <2>1. i - 1 \in DOMAIN t /\ (i - 1) + 1 = i
    BY <1>2
  <2> QED
    BY <1>1, <2>1
<1> HIDE DEF t
<1>4. SeenIn(t, of, from) = SeenIn(q, of, base)
  <2>1. CASE \A i \in DOMAIN t : t[i].of # of
    <3>1. SeenIn(t, of, from) = from
      BY <2>1, SeenBase
    <3>2. \A i \in DOMAIN q : q[i].of = of => i <= 1
      BY <1>2, <1>3, <2>1
    <3>3. CASE q[1].of = of
      <4>1. 1 \in DOMAIN q
        BY <1>1
      <4>2. SeenIn(q, of, base) = q[1].items
        BY <3>2, <3>3, <4>1, SeenLast
      <4> QED
        BY <1>1, <3>1, <3>3, <4>2
    <3>4. CASE q[1].of # of
      <4>1. \A i \in DOMAIN q : q[i].of # of
        BY <1>2, <3>2, <3>4
      <4>2. SeenIn(q, of, base) = base
        BY <4>1, SeenBase
      <4> QED
        BY <1>1, <3>1, <3>4, <4>2
    <3> QED
      BY <3>3, <3>4
  <2>2. CASE \E i \in DOMAIN t : t[i].of = of
    <3>1. t \in Seq(Write)
      BY <1>1
    <3>2. PICK i \in DOMAIN t : /\ t[i].of = of /\ SeenIn(t, of, from) = t[i].items
                                /\ \A j \in DOMAIN t : t[j].of = of => j <= i
      BY <2>2, <3>1, SeenShows
    <3>3. i + 1 \in DOMAIN q /\ q[i + 1] = t[i]
      BY <1>1
    <3>4. ASSUME NEW j \in DOMAIN q, q[j].of = of
          PROVE  j <= i + 1
      <4>1. CASE j = 1
        BY <1>2, <4>1
      <4>2. CASE j # 1
        <5>1. j - 1 <= i
          BY <1>3, <3>2, <3>4, <4>2
        <5> QED
          BY <1>2, <5>1
      <4> QED
        BY <4>1, <4>2
    <3>5. SeenIn(q, of, base) = q[i + 1].items
      BY <3>2, <3>3, <3>4, SeenLast
    <3> QED
      BY <3>2, <3>3, <3>5
  <2> QED
    BY <2>1, <2>2
<1> QED
  BY <1>4 DEF t

(* A restart keeps the pending writes, but for their completions. *)
Unwatched(q) == [i \in DOMAIN q |-> [q[i] EXCEPT !.live = FALSE]]

(* It changes nothing else about them. *)
LEMMA RestartKeeps ==
    ASSUME NEW q \in Seq(Write)
    PROVE  /\ Unwatched(q) \in Seq(Write) /\ DOMAIN Unwatched(q) = DOMAIN q
           /\ \A i \in DOMAIN q :
                /\ Unwatched(q)[i].of = q[i].of /\ Unwatched(q)[i].items = q[i].items
                /\ Unwatched(q)[i].rec = q[i].rec /\ Unwatched(q)[i].live = FALSE
<1>1. DOMAIN q = 1..Len(q) /\ Len(q) \in Nat /\ \A i \in DOMAIN q : q[i] \in Write
  OBVIOUS
<1>2. \A m \in Write : LET f == [m EXCEPT !.live = FALSE]
                       IN  f \in Write /\ f.of = m.of /\ f.items = m.items /\ f.rec = m.rec
                           /\ f.live = FALSE
  BY DEF Write
<1>3. Unwatched(q) \in [1..Len(q) -> Write]
  BY <1>1, <1>2 DEF Unwatched
<1>4. Unwatched(q) \in Seq(Write)
  BY <1>1, <1>3, SeqDef
<1> QED
  BY <1>1, <1>2, <1>4 DEF Unwatched

(* And with them what is seen. *)
LEMMA SeenRestart ==
    ASSUME NEW q \in Seq(Write), NEW of, NEW base
    PROVE  SeenIn(Unwatched(q), of, base) = SeenIn(q, of, base)
<1> DEFINE r == Unwatched(q)
<1>1. /\ r \in Seq(Write) /\ DOMAIN r = DOMAIN q
      /\ \A i \in DOMAIN q : r[i].of = q[i].of /\ r[i].items = q[i].items
  BY RestartKeeps
<1> HIDE DEF r
<1>2. CASE \A i \in DOMAIN q : q[i].of # of
  <2>1. \A i \in DOMAIN r : r[i].of # of
    BY <1>1, <1>2
  <2>2. SeenIn(r, of, base) = base /\ SeenIn(q, of, base) = base
    BY <1>2, <2>1, SeenBase
  <2> QED
    BY <2>2 DEF r
<1>3. CASE \E i \in DOMAIN q : q[i].of = of
  <2>1. PICK i \in DOMAIN q : /\ q[i].of = of /\ SeenIn(q, of, base) = q[i].items
                              /\ \A j \in DOMAIN q : q[j].of = of => j <= i
    BY <1>3, SeenShows
  <2>2. i \in DOMAIN r /\ r[i].of = of /\ \A j \in DOMAIN r : r[j].of = of => j <= i
    BY <1>1, <2>1
  <2>3. PICK k \in DOMAIN r : /\ r[k].of = of /\ SeenIn(r, of, base) = r[k].items
                              /\ \A j \in DOMAIN r : r[j].of = of => j <= k
    BY <1>1, <2>2, SeenShows
  <2>4. i = k
    <3>1. i <= k /\ k <= i /\ DOMAIN q = 1..Len(q)
      BY <1>1, <2>1, <2>2, <2>3
    <3> QED
      BY <1>1, <3>1
  <2> QED
    BY <1>1, <2>1, <2>3, <2>4 DEF r
<1> QED
  BY <1>2, <1>3

-----------------------------------------------------------------------------
(* Types.                                                                   *)

(* A record with another history is a record. *)
LEMMA RecordType ==
    ASSUME NEW r \in Record, NEW b \in Bag
    PROVE  /\ [r EXCEPT !.bought = b] \in Record /\ [r EXCEPT !.bought = b].bought = b
           /\ r.bought \in Bag /\ r.onBoard \in BOOLEAN /\ r # Nothing
  BY NothingAssumption DEF Record

(* The types of the flags, and those of the rest. *)
Flags ==
    /\ auth \in BOOLEAN /\ enabled \in BOOLEAN /\ leaving \in BOOLEAN
    /\ troubled \in BOOLEAN /\ behind \in BOOLEAN
Data ==
    /\ doc \in Record /\ stored \in Bag /\ local \in Record \cup {Nothing}
    /\ pending \in Seq(Write) /\ mainQ \in Seq(Completion)
    /\ reloads \in Nat /\ fetches \in Seq(Bag)
    /\ basket \in Bag \cup {Nothing} /\ allItems \in Bag
    /\ purchasedItemIds \in Bag /\ sheet \in Bag \cup {Nothing}
    /\ taps \in Nat /\ faults \in Nat
    /\ paid \in Bag /\ abandoned \in Bag /\ unpaid \in Bag
    /\ trapped \in {"no", "checkout", "emptying", "deleting", "saving"}

(* Together these are the types of the module. *)
LEMMA TypeParts == (TypeOK <=> Flags /\ Data) /\ (TypeOK' <=> Flags' /\ Data')
  BY DEF Flags, Data, TypeOK

(* The writes are writes. *)
LEMMA BasketWriteType ==
    ASSUME NEW b \in Bag
    PROVE  /\ BasketWrite(b) \in Write /\ BasketWrite(b).of = "basket"
           /\ BasketWrite(b).items = b /\ BasketWrite(b).live
           /\ BasketWrite(b).rec = Nothing
  BY DEF BasketWrite, Write, Updates

(* The update of the profile keeps the history of the stored record. *)
LEMMA ProfileWriteType ==
    ASSUME Data, NEW of \in {"edit", "finish"}, local # Nothing
    PROVE  /\ ProfileWrite(of) \in Write /\ ProfileWrite(of).of = of
           /\ ProfileWrite(of).rec \in Record
           /\ ProfileWrite(of).rec.bought = local.bought
<1> DEFINE r == [local EXCEPT !.onBoard = @ \/ of = "finish"]
<1>1. local \in Record
  BY DEF Data
<1>2. r \in Record /\ r.bought = local.bought
  BY <1>1 DEF Record
<1> HIDE DEF r
<1>3. ProfileWrite(of) = [of |-> of, items |-> Empty, live |-> TRUE, rec |-> r]
  BY DEF ProfileWrite, r
<1> QED
  BY <1>2, <1>3, BagType DEF Write, Updates

(* The write of the history adds what is being bought to the stored record. *)
LEMMA HistoryWriteType ==
    ASSUME Data, local # Nothing
    PROVE  /\ HistoryWrite \in Write /\ HistoryWrite.of = "history" /\ HistoryWrite.live
           /\ HistoryWrite.items = Plus(local.bought, purchasedItemIds)
           /\ HistoryWrite.rec \in Record
           /\ HistoryWrite.rec.bought = Plus(local.bought, purchasedItemIds)
<1> DEFINE b == Plus(local.bought, purchasedItemIds)
           r == [local EXCEPT !.bought = b]
<1>1. local \in Record /\ purchasedItemIds \in Bag
  BY DEF Data
<1>2. b \in Bag /\ r \in Record /\ r.bought = b
  BY <1>1, RecordType, BagType
<1> HIDE DEF b, r
<1>3. HistoryWrite = [of |-> "history", items |-> b, rec |-> r, live |-> TRUE]
  BY DEF HistoryWrite, b, r
<1> QED
  BY <1>2, <1>3 DEF Write, Updates, b

(* The states in which the app starts have the types. *)
LEMMA InitType == Init => TypeOK
<1> SUFFICES ASSUME Init PROVE Flags /\ Data
  BY TypeParts
<1>1. doc \in Record /\ stored \in Bag
  BY BagType DEF Init, Record
<1>2. local = doc /\ Flags
  BY DEF Init, Flags
<1>3. pending \in Seq(Write) /\ mainQ \in Seq(Completion) /\ fetches \in Seq(Bag)
  BY DEF Init
<1> QED
  BY <1>1, <1>2, <1>3, BagType DEF Init, Data

(* getBasketItems keeps them. *)
LEMMA GetBasketItemsType ==
    ASSUME Data, NEW b \in Bag \cup {Nothing}, GetBasketItems(b)
    PROVE  fetches' \in Seq(Bag) /\ allItems' \in Bag
<1>1. CASE b = Nothing \/ b = Empty
  BY <1>1, BagType DEF GetBasketItems, ShowTotals, Data
<1>2. CASE b # Nothing /\ b # Empty
  <2>1. fetches \in Seq(Bag) /\ b \in Bag
    BY <1>2 DEF Data
  <2>2. fetches' = Append(fetches, b) /\ UNCHANGED <<allItems, enabled>>
    BY <1>2 DEF GetBasketItems
  <2> QED
    BY <2>1, <2>2 DEF Data
<1> QED
  BY <1>1, <1>2

(* So does the end of the app. *)
LEMMA RestartedType ==
    ASSUME Data, Restarted, taps' \in Nat, faults' \in Nat,
           trapped' \in {"no", "checkout", "emptying", "deleting", "saving"}
    PROVE  Data'
<1>1. pending' = Unwatched(pending)
  BY DEF Restarted, Unwatched
<1>2. pending' \in Seq(Write)
  BY <1>1, RestartKeeps DEF Data
<1> QED
  BY <1>2, BagType DEF Restarted, Data

(* What the user pays with, and swipes away. *)
LEMMA TrapType ==
    ASSUME Data, Tap, NEW where \in {"checkout", "deleting", "saving"}, Trap(where)
    PROVE  Data'
  BY RestartedType DEF Tap, Trap, Data

(* Paying keeps the types. *)
LEMMA PayType ==
    ASSUME Data, Appear \/ CheckoutButtonPressed \/ PaymentDidCancel \/ PaymentDidComplete
    PROVE  Data'
<1>1. CASE Appear
  BY <1>1 DEF Appear, Tap, ShowTotals, Data
<1>2. CASE CheckoutButtonPressed /\ CurrentUser = Nothing
  BY <1>2, TrapType DEF CheckoutButtonPressed
<1>3. CASE CheckoutButtonPressed /\ CurrentUser # Nothing
  <2>1. Plus(purchasedItemIds, allItems) \in Bag /\ Plus(abandoned, allItems) \in Bag
    BY BagType DEF Data
  <2> QED
    BY <1>3, <2>1 DEF CheckoutButtonPressed, PayButtonPressed, Tap, Data
<1>4. CASE PaymentDidCancel
  <2>1. Plus(abandoned, sheet) \in Bag
    BY <1>4, BagType DEF PaymentDidCancel, Data
  <2> QED
    BY <1>4, <2>1 DEF PaymentDidCancel, Data
<1>5. CASE PaymentDidComplete
  <2>1. Plus(paid, sheet) \in Bag
    BY <1>5, BagType DEF PaymentDidComplete, Data
  <2> QED
    BY <1>5, <2>1 DEF PaymentDidComplete, Data
<1> QED
  BY <1>1, <1>2, <1>3, <1>4, <1>5

(* The writes of a purchase that is recorded, in the queue.                 *)
Recorded == IF CurrentUser = Nothing THEN pending ELSE Append(pending, HistoryWrite)

(* The history is written when there is a user, the basket when there is a  *)
(* basket object; without one the app ends.                                 *)
LEMMA DismissedEffect ==
    ASSUME Data, SheetDismissed
    PROVE  /\ Recorded \in Seq(Write)
           /\ CurrentUser # Nothing => local # Nothing
           /\ IF basket = Nothing THEN pending' = Unwatched(Recorded)
              ELSE pending' = Append(Recorded, BasketWrite(Empty))
<1> DEFINE recorded == IF CurrentUser = Nothing THEN <<>> ELSE <<HistoryWrite>>
<1>1. CurrentUser # Nothing => local # Nothing
  BY DEF CurrentUser
<1>2. pending \in Seq(Write)
  BY DEF Data
<1>3. pending \o recorded = Recorded /\ Recorded \in Seq(Write)
  <2>1. CASE CurrentUser = Nothing
    BY <1>2, <2>1 DEF Recorded
  <2>2. CASE CurrentUser # Nothing
    <3>1. HistoryWrite \in Write
      BY <1>1, <2>2, HistoryWriteType
    <3>2. pending \o <<HistoryWrite>> = Append(pending, HistoryWrite)
      BY <1>2, <3>1
    <3>3. Append(pending, HistoryWrite) \in Seq(Write)
      BY <1>2, <3>1
    <3> QED
      BY <2>2, <3>2, <3>3 DEF Recorded
  <2> QED
    BY <2>1, <2>2
<1>4. IF basket = Nothing
      THEN pending' = [i \in DOMAIN (pending \o recorded) |->
                         [(pending \o recorded)[i] EXCEPT !.live = FALSE]]
      ELSE pending' = pending \o recorded \o <<BasketWrite(Empty)>>
  BY DEF SheetDismissed
<1>5. BasketWrite(Empty) \in Write
  BY BagType, BasketWriteType
<1> HIDE DEF recorded
<1>6. IF basket = Nothing THEN pending' = Unwatched(Recorded)
      ELSE pending' = Recorded \o <<BasketWrite(Empty)>>
  BY <1>3, <1>4 DEF Unwatched
<1>7. Recorded \o <<BasketWrite(Empty)>> = Append(Recorded, BasketWrite(Empty))
  BY <1>3, <1>5
<1> QED
  BY <1>1, <1>3, <1>6, <1>7

(* The dismissal of the sheet, and what the user does with the rows and the *)
(* account, keep the types.                                                 *)
LEMMA DismissedType ==
    ASSUME Data, SheetDismissed
    PROVE  Data'
<1>1. pending' \in Seq(Write)
  <2>1. Recorded \in Seq(Write) /\ BasketWrite(Empty) \in Write
    BY BagType, BasketWriteType, DismissedEffect
  <2>2. Append(Recorded, BasketWrite(Empty)) \in Seq(Write)
    BY <2>1
  <2> QED
    BY <2>1, <2>2, DismissedEffect, RestartKeeps
<1>2. unpaid' \in Bag
  BY BagType DEF SheetDismissed, Data
<1>3. /\ mainQ' \in Seq(Completion) /\ reloads' \in Nat /\ fetches' \in Seq(Bag)
      /\ basket' \in Bag \cup {Nothing}
      /\ trapped' \in {"no", "checkout", "emptying", "deleting", "saving"}
  <2>1. IF basket = Nothing
        THEN /\ mainQ' = <<>> /\ reloads' = 0 /\ fetches' = <<>> /\ basket' = Nothing
             /\ trapped' = "emptying"
        ELSE basket' = Empty /\ UNCHANGED <<mainQ, reloads, fetches, trapped>>
    BY DEF SheetDismissed
  <2>2. CASE basket = Nothing
    BY <2>1, <2>2 DEF Data
  <2>3. CASE basket # Nothing
    BY <2>1, <2>3, BagType DEF Data
  <2> QED
    BY <2>2, <2>3
<1>4. /\ allItems' \in Bag /\ purchasedItemIds' \in Bag /\ abandoned' \in Bag
      /\ sheet' \in Bag \cup {Nothing}
  BY BagType DEF SheetDismissed, Data
<1> QED
  BY <1>1, <1>2, <1>3, <1>4 DEF SheetDismissed, Data

(* Deleting a row keeps the types. *)
LEMMA DeleteType ==
    ASSUME Data, NEW x \in Items, DeleteRow(x)
    PROVE  Data'
<1>1. CASE basket = Nothing
  BY <1>1, TrapType DEF DeleteRow
<1>2. CASE basket # Nothing
  <2> DEFINE w == BasketWrite(Without(basket, x))
  <2>1. Without(allItems, x) \in Bag /\ Without(basket, x) \in Bag
    BY <1>2, BagType DEF Data
  <2>2. w \in Write
    BY <2>1, BasketWriteType
  <2> HIDE DEF w
  <2>3. pending' = Append(pending, w)
    BY <1>2 DEF DeleteRow, w
  <2>4. pending' \in Seq(Write)
    BY <2>2, <2>3 DEF Data
  <2> QED
    BY <1>2, <2>1, <2>4 DEF DeleteRow, Tap, Data
<1> QED
  BY <1>1, <1>2

(* An update of the profile is one more write, or the end of the app. *)
LEMMA ProfileEffect ==
    ASSUME Data, NEW of \in {"edit", "finish"}, UpdateProfile(of)
    PROVE  /\ Free /\ Tap
           /\ \/ Trap("saving")
              \/ \E w \in Write :
                    /\ w.of = of /\ w.rec \in Record /\ local # Nothing
                    /\ w.rec.bought = local.bought
                    /\ pending' = Append(pending, w)
                    /\ troubled' = (troubled \/ Recording)
                    /\ UNCHANGED <<server, auth, local, mainQ, waiting, list, payment, faults,
                                   accounts, trapped, behind>>
<1>1. Free /\ Tap /\ local # Nothing
  BY DEF UpdateProfile
<1>2. CASE ~auth
  BY <1>1, <1>2 DEF UpdateProfile
<1>3. CASE auth
  BY <1>1, <1>3, ProfileWriteType DEF UpdateProfile
<1> QED
  BY <1>2, <1>3

(* It keeps the types. *)
LEMMA ProfileType ==
    ASSUME Data, NEW of \in {"edit", "finish"}, UpdateProfile(of)
    PROVE  Data'
<1>1. CASE Trap("saving")
  BY <1>1, ProfileEffect, TrapType
<1>2. ASSUME NEW w \in Write, pending' = Append(pending, w), Tap,
             UNCHANGED <<server, auth, local, mainQ, waiting, list, payment, faults,
                         accounts, trapped, behind>>
      PROVE  Data'
  <2>1. pending' \in Seq(Write)
    BY <1>2 DEF Data
  <2> QED
    BY <1>2, <2>1 DEF Tap, Data
<1> QED
  BY <1>1, <1>2, ProfileEffect

(* Logging in and out, and adding on another screen, keep the types. *)
LEMMA AccountType ==
    ASSUME Data, LogOut \/ LogIn \/ Revoked \/ \E x \in Items : AddElsewhere(x)
    PROVE  Data'
<1>1. CASE LogOut
  BY <1>1 DEF LogOut, Tap, Data
<1>2. CASE LogIn
  <2>1. doc \in Record /\ doc.bought \in Bag /\ doc.onBoard \in BOOLEAN
        /\ pending \in Seq(Write)
    BY RecordType DEF Data
  <2>2. Seen("history", doc.bought) \in Bag
    BY <2>1, SeenPending, SeenType
  <2>3. \E o \in BOOLEAN : local' = [onBoard |-> o, bought |-> Seen("history", doc.bought)]
    BY <1>2, <2>1 DEF LogIn
  <2>4. local' \in Record
    BY <2>2, <2>3 DEF Record
  <2> QED
    BY <1>2, <2>4 DEF LogIn, Tap, Data
<1>3. CASE Revoked
  BY <1>3 DEF Revoked, Fault, Data
<1>4. ASSUME NEW x \in Items, AddElsewhere(x)
      PROVE  Data'
  <2>1. With(stored, x) \in Bag
    BY BagType DEF Data
  <2> QED
    BY <1>4, <2>1 DEF AddElsewhere, Tap, Data
<1> QED
  BY <1>1, <1>2, <1>3, <1>4

(* What Firestore answers keeps them. *)
LEMMA ReloadedType ==
    ASSUME Data, Reloaded
    PROVE  Data'
<1>1. basket' \in Bag \cup {Nothing} /\ faults' \in Nat
  <2>1. Seen("basket", stored) \in Bag
    BY SeenPending, SeenType DEF Data
  <2> QED
    BY <2>1 DEF Reloaded, Fault, Data
<1>2. fetches' \in Seq(Bag) /\ allItems' \in Bag
  <2>1. PICK b \in Bag \cup {Nothing} : b = basket'
    BY <1>1
  <2>2. GetBasketItems(b)
    BY <2>1 DEF Reloaded
  <2> QED
    BY <2>2, GetBasketItemsType
<1>3. reloads' \in Nat
  BY DEF Reloaded, Data
<1> QED
  BY <1>1, <1>2, <1>3 DEF Reloaded, Data

(* Items that come keep the types. *)
LEMMA FetchedType ==
    ASSUME Data, NEW i \in DOMAIN fetches, ItemsFetched(i) \/ ItemsMissing(i)
    PROVE  Data'
<1>1. fetches \in Seq(Bag) /\ fetches[i] \in Bag
  BY DEF Data
<1>2. PICK rows \in Bag : Fetched(i, rows)
  BY <1>1, PartsType DEF ItemsFetched, ItemsMissing
<1>3. fetches' \in Seq(Bag)
  BY <1>1, <1>2, WithoutEntry DEF Fetched
<1>4. faults' \in Nat
  BY DEF ItemsFetched, ItemsMissing, Fault, Data
<1> QED
  BY <1>2, <1>3, <1>4 DEF Fetched, ShowTotals, Data

(* The server takes the first write, or refuses it. *)
LEMMA CommitType ==
    ASSUME Data, Commit
    PROVE  Data'
<1> DEFINE w == Head(pending)
<1>1. pending \in Seq(Write) /\ pending # <<>>
  BY DEF Commit, Data
<1>2. w \in Write /\ Tail(pending) \in Seq(Write)
  BY <1>1, TailEntries
<1>3. w.items \in Bag /\ \A ok \in BOOLEAN : [of |-> w.of, rec |-> w.rec, ok |-> ok] \in Completion
  BY <1>2 DEF Write, Completion
<1>4. mainQ' \in Seq(Completion)
  <2>1. \A c \in Completion : Append(mainQ, c) \in Seq(Completion)
    BY DEF Data
  <2>2. \E ok \in BOOLEAN :
          mainQ' = IF w.live THEN Append(mainQ, [of |-> w.of, rec |-> w.rec, ok |-> ok])
                   ELSE mainQ
    BY DEF Commit
  <2> QED
    BY <1>3, <2>1, <2>2 DEF Data
<1>5. doc' \in Record /\ stored' \in Bag
  <2>1. doc \in Record /\ stored \in Bag
    BY DEF Data
  <2>2. [doc EXCEPT !.bought = w.items] \in Record /\ [doc EXCEPT !.onBoard = TRUE] \in Record
    BY <1>3, <2>1 DEF Record
  <2>3. Applied(w) \/ UNCHANGED <<doc, stored>>
    BY DEF Commit
  <2> HIDE DEF w
  <2> QED
    BY <1>3, <2>1, <2>2, <2>3 DEF Applied
<1>6. pending' \in Seq(Write)
  BY <1>2 DEF Commit
<1>7. faults' \in Nat
  BY DEF Commit, Fault, Data
<1> QED
  BY <1>4, <1>5, <1>6, <1>7 DEF Commit, Data

(* The main thread runs the first completion. *)
LEMMA CompletionType ==
    ASSUME Data, RunCompletion
    PROVE  Data'
<1>1. mainQ \in Seq(Completion) /\ mainQ # <<>>
  BY DEF RunCompletion, Data
<1>2. Head(mainQ) \in Completion /\ mainQ' \in Seq(Completion)
  BY <1>1, TailEntries DEF RunCompletion
<1>3. Head(mainQ).rec \in Record \cup {Nothing}
  BY <1>2 DEF Completion
<1>4. /\ local' \in Record \cup {Nothing}
      /\ fetches' \in Seq(Bag) /\ allItems' \in Bag
  <2>1. CASE UserUpdated(Head(mainQ))
    BY <1>3, <2>1 DEF UserUpdated, Data
  <2>2. CASE BasketUpdated(Head(mainQ))
    BY <2>2, GetBasketItemsType DEF BasketUpdated, Data
  <2> QED
    BY <2>1, <2>2 DEF RunCompletion
<1> QED
  BY <1>2, <1>4 DEF RunCompletion, Data

(* No step leaves anything else in a flag. *)
LEMMA FlagsStep ==
    ASSUME Flags, Next
    PROVE  Flags'
<1>1. CASE Appear \/ CheckoutButtonPressed \/ PaymentDidCancel \/ PaymentDidComplete
  BY <1>1 DEF Appear, CheckoutButtonPressed, PaymentDidCancel, PaymentDidComplete, ShowTotals,
              Trap, Restarted, Flags
<1>2. CASE SheetDismissed
  BY <1>2 DEF SheetDismissed, Flags
<1>3. CASE LogOut \/ LogIn \/ Revoked
  BY <1>3 DEF LogOut, LogIn, Revoked, Flags
<1>4. CASE Reloaded
  <2>1. enabled' \in BOOLEAN
    BY <1>4 DEF Reloaded, GetBasketItems, ShowTotals, Flags
  <2> QED
    BY <1>4, <2>1 DEF Reloaded, Flags
<1>5. CASE Commit
  BY <1>5 DEF Commit, Flags
<1>6. CASE RunCompletion
  <2>1. enabled' \in BOOLEAN
    BY <1>6 DEF RunCompletion, UserUpdated, BasketUpdated, GetBasketItems, ShowTotals, Flags
  <2> QED
    BY <1>6, <2>1 DEF RunCompletion, Flags
<1>7. CASE Crash
  BY <1>7 DEF Crash, Restarted, Flags
<1>8. ASSUME NEW x \in Items, DeleteRow(x) \/ AddElsewhere(x)
      PROVE  Flags'
  BY <1>8 DEF DeleteRow, Trap, Restarted, AddElsewhere, Flags
<1>9. ASSUME NEW i \in DOMAIN fetches, ItemsFetched(i) \/ ItemsMissing(i)
      PROVE  Flags'
  <2>1. behind' \in BOOLEAN
    BY <1>9 DEF ItemsFetched, ItemsMissing
  <2>2. enabled' \in BOOLEAN /\ UNCHANGED <<auth, leaving, troubled>>
    BY <1>9 DEF ItemsFetched, ItemsMissing, Fetched, ShowTotals
  <2> QED
    BY <2>1, <2>2 DEF Flags
<1>10. ASSUME NEW of \in {"edit", "finish"}, UpdateProfile(of)
       PROVE  Flags'
  BY <1>10 DEF UpdateProfile, Trap, Restarted, Flags
<1> QED
  BY <1>1, <1>2, <1>3, <1>4, <1>5, <1>6, <1>7, <1>8, <1>9, <1>10 DEF Next

(* The variables hold what the code can keep in them. *)
THEOREM TypeCorrect == Spec => []TypeOK
<1>1. TypeOK /\ [Next]_vars => TypeOK'
  <2>1. ASSUME TypeOK, UNCHANGED vars
        PROVE  TypeOK'
    BY <2>1 DEF vars, TypeOK
  <2>2. ASSUME TypeOK, Next
        PROVE  TypeOK'
    <3>1. Flags /\ Data
      BY <2>2, TypeParts
    <3>2. CASE Crash
      <4>1. Data'
        BY <3>1, <3>2, RestartedType DEF Crash, Fault, Data
      <4> QED
        BY <2>2, <3>1, <4>1, FlagsStep, TypeParts
    <3>3. CASE ~Crash
      <4>1. Data'
        BY <2>2, <3>1, <3>3, PayType, DismissedType, DeleteType, ProfileType, AccountType,
           ReloadedType, FetchedType, CommitType, CompletionType DEF Next
      <4> QED
        BY <2>2, <3>1, <4>1, FlagsStep, TypeParts
    <3> QED
      BY <3>2, <3>3
  <2> QED
    BY <2>1, <2>2
<1> QED
  BY <1>1, InitType, PTL DEF Spec

-----------------------------------------------------------------------------
(* What the sheet charges for.                                              *)

(* A sheet that is being dismissed is there. *)
LEMMA LeavingStep ==
    ASSUME TypeOK, LeavingHasSheet, Next
    PROVE  LeavingHasSheet'
<1>1. CASE CheckoutButtonPressed
  <2>1. allItems # Nothing
    BY NothingAssumption DEF TypeOK
  <2>2. (sheet' = Nothing /\ leaving' = FALSE) \/ (sheet' \in {sheet, allItems} /\ UNCHANGED leaving)
    BY <1>1 DEF CheckoutButtonPressed, PayButtonPressed, Trap, Restarted
  <2> QED
    BY <2>1, <2>2 DEF LeavingHasSheet
<1>2. CASE PaymentDidCancel \/ PaymentDidComplete \/ SheetDismissed \/ Crash
  BY <1>2 DEF PaymentDidCancel, PaymentDidComplete, SheetDismissed, Crash, Restarted,
              LeavingHasSheet
<1>3. CASE Appear \/ LogOut \/ LogIn \/ Revoked \/ Reloaded \/ Commit \/ RunCompletion
  BY <1>3 DEF Appear, LogOut, LogIn, Revoked, Reloaded, Commit, RunCompletion, LeavingHasSheet
<1>4. ASSUME NEW x \in Items, DeleteRow(x) \/ AddElsewhere(x)
      PROVE  LeavingHasSheet'
  BY <1>4 DEF DeleteRow, Trap, Restarted, AddElsewhere, LeavingHasSheet
<1>5. ASSUME NEW i \in DOMAIN fetches, ItemsFetched(i) \/ ItemsMissing(i)
      PROVE  LeavingHasSheet'
  BY <1>5 DEF ItemsFetched, ItemsMissing, Fetched, LeavingHasSheet
<1>6. ASSUME NEW of \in {"edit", "finish"}, UpdateProfile(of)
      PROVE  LeavingHasSheet'
  BY <1>6 DEF UpdateProfile, Trap, Restarted, LeavingHasSheet
<1> QED
  BY <1>1, <1>2, <1>3, <1>4, <1>5, <1>6 DEF Next

(* The end of the app forgets the attempts with purchasedItemIds. *)
LEMMA NothingAttempted ==
    ASSUME purchasedItemIds' = Empty, abandoned' = Empty, sheet' = Nothing
    PROVE  AttemptsAccounted'
  BY DEF AttemptsAccounted, OnSheet, Empty

(* A payment records all it charged for, whatever the list does meanwhile. *)
LEMMA AttemptsStep ==
    ASSUME TypeOK, AttemptsAccounted, Next
    PROVE  AttemptsAccounted'
<1>1. CASE CheckoutButtonPressed /\ CurrentUser = Nothing
  BY <1>1, NothingAttempted DEF CheckoutButtonPressed, Trap, Restarted
<1>2. CASE CheckoutButtonPressed /\ CurrentUser # Nothing
  <2>1. /\ purchasedItemIds \in Bag /\ allItems \in Bag /\ abandoned \in Bag
        /\ allItems # Nothing
    BY NothingAssumption DEF TypeOK
  <2>2. \A x \in Items : /\ Plus(purchasedItemIds, allItems)[x] = purchasedItemIds[x] + allItems[x]
                         /\ Plus(abandoned, allItems)[x] = abandoned[x] + allItems[x]
    BY <2>1, BagType
  <2>3. \A x \in Items : purchasedItemIds[x] \in Nat /\ allItems[x] \in Nat /\ abandoned[x] \in Nat
    BY <2>1 DEF Bag
  <2>4. \/ UNCHANGED <<purchasedItemIds, sheet, abandoned>>
        \/ /\ purchasedItemIds' = Plus(purchasedItemIds, allItems)
           /\ sheet' = allItems /\ UNCHANGED abandoned
        \/ /\ purchasedItemIds' = Plus(purchasedItemIds, allItems)
           /\ abandoned' = Plus(abandoned, allItems) /\ UNCHANGED sheet
    BY <1>2 DEF CheckoutButtonPressed, PayButtonPressed
  <2>5. sheet = Nothing
    BY <1>2 DEF CheckoutButtonPressed, Free
  <2> QED
    BY <2>1, <2>2, <2>3, <2>4, <2>5 DEF AttemptsAccounted, OnSheet
<1>3. CASE PaymentDidCancel
  <2>1. sheet \in Bag /\ abandoned \in Bag
    BY <1>3 DEF PaymentDidCancel, TypeOK
  <2>2. \A x \in Items : Plus(abandoned, sheet)[x] = abandoned[x] + sheet[x] /\ abandoned[x] \in Nat
                         /\ sheet[x] \in Nat
    BY <2>1, BagType DEF Bag
  <2> QED
    BY <1>3, <2>2 DEF PaymentDidCancel, AttemptsAccounted, OnSheet
<1>4. CASE SheetDismissed \/ Crash
  BY <1>4, NothingAttempted DEF SheetDismissed, Crash, Restarted
<1>5. CASE UNCHANGED <<purchasedItemIds, sheet, abandoned>>
  BY <1>5 DEF AttemptsAccounted, OnSheet
<1>6. CASE Appear \/ PaymentDidComplete \/ LogOut \/ LogIn \/ Revoked \/ Reloaded \/ Commit
           \/ RunCompletion
  BY <1>5, <1>6 DEF Appear, PaymentDidComplete, LogOut, LogIn, Revoked, Reloaded, Commit,
                    RunCompletion
<1>7. ASSUME NEW x \in Items, DeleteRow(x) \/ AddElsewhere(x)
      PROVE  AttemptsAccounted'
  BY <1>5, <1>7, NothingAttempted DEF DeleteRow, Trap, Restarted, AddElsewhere
<1>8. ASSUME NEW i \in DOMAIN fetches, ItemsFetched(i) \/ ItemsMissing(i)
      PROVE  AttemptsAccounted'
  BY <1>5, <1>8 DEF ItemsFetched, ItemsMissing, Fetched
<1>9. ASSUME NEW of \in {"edit", "finish"}, UpdateProfile(of)
      PROVE  AttemptsAccounted'
  BY <1>5, <1>9, NothingAttempted DEF UpdateProfile, Trap, Restarted
<1> QED
  BY <1>1, <1>2, <1>3, <1>4, <1>6, <1>7, <1>8, <1>9 DEF Next

(* purchasedItemIds is the open sheet and what earlier attempts left.       *)
THEOREM AttemptsAreAccounted == Spec => []AttemptsAccounted
<1>1. Init => AttemptsAccounted
  <2> SUFFICES ASSUME Init, NEW x \in Items
               PROVE  purchasedItemIds[x] = abandoned[x] + OnSheet(x)
    BY DEF AttemptsAccounted
  <2>1. purchasedItemIds = Empty /\ abandoned = Empty /\ sheet = Nothing /\ Empty[x] = 0
    BY BagType DEF Init
  <2>2. purchasedItemIds[x] = 0 /\ abandoned[x] = 0 /\ OnSheet(x) = 0
    BY <2>1 DEF OnSheet
  <2> QED
    BY <2>2
<1>2. TypeOK /\ AttemptsAccounted /\ [Next]_vars => AttemptsAccounted'
  <2>1. UNCHANGED vars /\ AttemptsAccounted => AttemptsAccounted'
    BY DEF vars, AttemptsAccounted, OnSheet
  <2> QED
    BY <2>1, AttemptsStep
<1> QED
  BY <1>1, <1>2, TypeCorrect, PTL DEF Spec

-----------------------------------------------------------------------------
(* The Check out button.                                                    *)

(* What keeps the button enabled over an empty list. *)
UnderWay ==
    \/ \E w \in Entries(pending) : w.of = "basket" /\ w.live
    \/ \E c \in Entries(mainQ) : c.of = "basket"
    \/ fetches # <<>>
    \/ basket = Nothing

(* EmptyListIsDisabled, by the entries of the queues. *)
LEMMA ListUnderWay ==
    /\ EmptyListIsDisabled <=> (enabled /\ allItems = Empty => UnderWay)
    /\ EmptyListIsDisabled' <=> (enabled' /\ allItems' = Empty => UnderWay')
  BY DEF EmptyListIsDisabled, UnderWay, Entries

(* Loading the items disables the button, or is itself under way. *)
LEMMA LoadingItems ==
    ASSUME TypeOK, NEW b \in Bag \cup {Nothing}, GetBasketItems(b)
    PROVE  \/ b = Nothing /\ UNCHANGED <<allItems, enabled, fetches>>
           \/ b = Empty /\ allItems' = Empty /\ ~enabled' /\ UNCHANGED fetches
           \/ /\ b \in Bag /\ fetches' = Append(fetches, b) /\ fetches' # <<>>
              /\ UNCHANGED <<allItems, enabled>>
<1>1. CASE b = Nothing \/ b = Empty
  BY <1>1 DEF GetBasketItems, ShowTotals
<1>2. CASE b # Nothing /\ b # Empty
  <2>1. fetches \in Seq(Bag) /\ b \in Bag
    BY <1>2 DEF TypeOK
  <2>2. Append(fetches, b) # <<>>
    <3>1. Len(Append(fetches, b)) = Len(fetches) + 1 /\ Len(fetches) \in Nat
      BY <2>1
    <3> QED
      BY <3>1
  <2> QED
    BY <1>2, <2>1, <2>2 DEF GetBasketItems
<1> QED
  BY <1>1, <1>2

(* A change of the basket is under way until its items are there. *)
LEMMA EmptyListStep ==
    ASSUME TypeOK, EmptyListIsDisabled, Next
    PROVE  EmptyListIsDisabled'
<1> USE ListUnderWay
<1>1. CASE Appear \/ CheckoutButtonPressed
  <2>1. \/ ~enabled'
        \/ UNCHANGED <<pending, mainQ, fetches, basket, allItems>> /\ (enabled' => enabled \/ allItems # Empty)
    BY <1>1 DEF Appear, ShowTotals, CheckoutButtonPressed, Trap, Restarted
  <2> QED
    BY <2>1 DEF UnderWay
<1>2. CASE PaymentDidCancel \/ PaymentDidComplete \/ LogOut \/ LogIn \/ Revoked
  BY <1>2 DEF PaymentDidCancel, PaymentDidComplete, LogOut, LogIn, Revoked, UnderWay
<1>3. CASE SheetDismissed
  <2>1. CASE basket = Nothing
    BY <1>3, <2>1 DEF SheetDismissed
  <2>2. CASE basket # Nothing
    <3> DEFINE w == BasketWrite(Empty)
    <3>1. w \in Write /\ w.of = "basket" /\ w.live
      BY BagType, BasketWriteType
    <3>2. Recorded \in Seq(Write) /\ pending' = Append(Recorded, w)
      BY <1>3, <2>2, TypeParts, DismissedEffect
    <3>3. w \in Entries(pending')
      BY <3>1, <3>2, EntriesOf
    <3> QED
      BY <3>1, <3>3 DEF UnderWay
  <2> QED
    BY <2>1, <2>2
<1>4. ASSUME NEW x \in Items, DeleteRow(x)
      PROVE  EmptyListIsDisabled'
  <2>1. CASE basket = Nothing
    BY <1>4, <2>1 DEF DeleteRow, Trap, Restarted
  <2>2. CASE basket # Nothing
    <3> DEFINE w == BasketWrite(Without(basket, x))
    <3>1. w \in Write /\ w.of = "basket" /\ w.live
      BY <2>2, BagType, BasketWriteType DEF TypeOK
    <3>2. pending \in Seq(Write) /\ pending' = Append(pending, w)
      BY <1>4, <2>2 DEF DeleteRow, TypeOK
    <3>3. w \in Entries(pending')
      BY <3>1, <3>2, EntriesOf
    <3> QED
      BY <3>1, <3>3 DEF UnderWay
  <2> QED
    BY <2>1, <2>2
<1>5. ASSUME NEW x \in Items, AddElsewhere(x)
      PROVE  EmptyListIsDisabled'
  BY <1>5 DEF AddElsewhere, UnderWay
<1>6. CASE Reloaded
  <2>1. PICK b \in Bag \cup {Nothing} : b = basket'
    BY <1>6, SeenPending, SeenType DEF Reloaded, TypeOK
  <2>2. GetBasketItems(b) /\ UNCHANGED <<pending, mainQ>>
    BY <1>6, <2>1 DEF Reloaded
  <2>3. b = Nothing \/ ~enabled' \/ fetches' # <<>>
    BY <2>2, LoadingItems
  <2> QED
    BY <2>1, <2>3 DEF UnderWay
<1>7. ASSUME NEW i \in DOMAIN fetches, ItemsFetched(i) \/ ItemsMissing(i)
      PROVE  EmptyListIsDisabled'
  <2>1. \E rows : allItems' = rows /\ enabled' = (rows # Empty)
    BY <1>7 DEF ItemsFetched, ItemsMissing, Fetched, ShowTotals
  <2> QED
    BY <2>1
<1>8. CASE Commit
  <2> DEFINE w == Head(pending)
  <2>1. pending \in Seq(Write) /\ pending # <<>> /\ mainQ \in Seq(Completion)
    BY <1>8 DEF Commit, TypeOK
  <2>2. w \in Write /\ Entries(pending) = Entries(Tail(pending)) \cup {w}
    BY <2>1, EntriesOf
  <2>3. PICK ok \in BOOLEAN :
          mainQ' = IF w.live THEN Append(mainQ, [of |-> w.of, rec |-> w.rec, ok |-> ok])
                   ELSE mainQ
    BY <1>8 DEF Commit
  <2> DEFINE c == [of |-> w.of, rec |-> w.rec, ok |-> ok]
  <2>4. c \in Completion /\ c.of = w.of
    BY <2>2 DEF Write, Completion
  <2> HIDE DEF c
  <2>5. Entries(mainQ') = IF w.live THEN Entries(mainQ) \cup {c} ELSE Entries(mainQ)
    <3>1. Entries(Append(mainQ, c)) = Entries(mainQ) \cup {c}
      BY <2>1, <2>4, EntriesOf
    <3>2. mainQ' = IF w.live THEN Append(mainQ, c) ELSE mainQ
      BY <2>3 DEF c
    <3> QED
      BY <3>1, <3>2
  <2>6. /\ Entries(pending') = Entries(Tail(pending))
        /\ UNCHANGED <<fetches, basket, allItems, enabled>>
    BY <1>8 DEF Commit
  <2> HIDE DEF w
  <2> QED
    BY <2>2, <2>4, <2>5, <2>6 DEF UnderWay
<1>9. CASE RunCompletion
  <2> DEFINE c == Head(mainQ)
  <2>1. mainQ \in Seq(Completion) /\ mainQ # <<>>
    BY <1>9 DEF RunCompletion, TypeOK
  <2>2. c \in Completion /\ Entries(mainQ) = Entries(Tail(mainQ)) \cup {c}
    BY <2>1, EntriesOf
  <2>3. Entries(mainQ') = Entries(Tail(mainQ)) /\ UNCHANGED <<pending, basket>>
    BY <1>9 DEF RunCompletion
  <2>4. CASE UserUpdated(c)
    BY <2>2, <2>3, <2>4 DEF UserUpdated, UnderWay
  <2>5. CASE BasketUpdated(c)
    <3>1. GetBasketItems(basket) /\ basket \in Bag \cup {Nothing}
      BY <2>5 DEF BasketUpdated, TypeOK
    <3>2. basket = Nothing \/ ~enabled' \/ fetches' # <<>>
      BY <3>1, LoadingItems
    <3> QED
      BY <2>3, <3>2 DEF UnderWay
  <2> QED
    BY <1>9, <2>4, <2>5 DEF RunCompletion
<1>10. CASE Crash
  BY <1>10 DEF Crash, Restarted
<1>11. ASSUME NEW of \in {"edit", "finish"}, UpdateProfile(of)
       PROVE  EmptyListIsDisabled'
  <2>1. CASE Trap("saving")
    BY <2>1 DEF Trap, Restarted
  <2>2. CASE ~Trap("saving")
    <3>1. PICK w \in Write : /\ pending' = Append(pending, w)
                             /\ UNCHANGED <<mainQ, fetches, basket, allItems, enabled>>
      BY <1>11, <2>2, TypeParts, ProfileEffect
    <3>2. Entries(pending') = Entries(pending) \cup {w}
      BY <3>1, EntriesOf DEF TypeOK
    <3> QED
      BY <3>1, <3>2 DEF UnderWay
  <2> QED
    BY <2>1, <2>2
<1> QED
  BY <1>1, <1>2, <1>3, <1>4, <1>5, <1>6, <1>7, <1>8, <1>9, <1>10, <1>11 DEF Next

(* The Check out button is enabled over an empty list only while a change   *)
(* of the basket or its items is under way, or the basket object was lost.  *)
THEOREM EmptyListDisables == Spec => []EmptyListIsDisabled
<1>1. Init => EmptyListIsDisabled
  BY DEF Init, EmptyListIsDisabled
<1>2. TypeOK /\ EmptyListIsDisabled /\ [Next]_vars => EmptyListIsDisabled'
  <2>1. UNCHANGED vars /\ EmptyListIsDisabled => EmptyListIsDisabled'
    BY DEF vars, EmptyListIsDisabled
  <2> QED
    BY <2>1, EmptyListStep
<1> QED
  BY <1>1, <1>2, TypeCorrect, PTL DEF Spec

-----------------------------------------------------------------------------
(* The purchase history.                                                    *)

(* The writes, or completions, of the history in a queue. *)
LEMMA HistoriesOf ==
    ASSUME NEW S, NEW q \in Seq(S)
    PROVE  /\ Histories(q) \in SUBSET S
           /\ \A e \in S : Histories(Append(q, e)) =
                             Histories(q) \cup (IF e.of = "history" THEN {e} ELSE {})
           /\ q # <<>> => /\ Head(q) \in S
                          /\ Histories(q) = Histories(Tail(q))
                               \cup (IF Head(q).of = "history" THEN {Head(q)} ELSE {})
  BY EntriesOf DEF Histories

(* The updates of the profile in a queue. *)
LEMMA ProfilesOf ==
    ASSUME NEW S, NEW q \in Seq(S)
    PROVE  /\ Profiles(q) \in SUBSET S
           /\ \A e \in S : Profiles(Append(q, e)) =
                             Profiles(q) \cup (IF e.of \in {"edit", "finish"} THEN {e} ELSE {})
           /\ q # <<>> => /\ Head(q) \in S
                          /\ Profiles(q) = Profiles(Tail(q))
                               \cup (IF Head(q).of \in {"edit", "finish"} THEN {Head(q)} ELSE {})
  BY EntriesOf DEF Profiles

(* They stay before the purchases when nothing comes behind one. *)
LEMMA FirstAppend ==
    ASSUME NEW S, NEW q \in Seq(S), NEW e \in S, ProfilesFirst(q),
           e.of \notin {"edit", "finish"} \/ Histories(q) = {}
    PROVE  ProfilesFirst(Append(q, e))
<1> DEFINE r == Append(q, e)
<1>1. \A i \in DOMAIN r : \/ i \in DOMAIN q /\ r[i] = q[i]
                          \/ i = Len(q) + 1 /\ r[i] = e
  BY AppendEntries
<1>2. Len(q) \in Nat /\ DOMAIN q = 1..Len(q)
  OBVIOUS
<1> HIDE DEF r
<1>3. ASSUME NEW i \in DOMAIN r, NEW j \in DOMAIN r,
             r[i].of = "history", r[j].of \in {"edit", "finish"}
      PROVE  j < i
  <2>1. CASE i \in DOMAIN q /\ r[i] = q[i]
    <3>1. Histories(q) # {}
      BY <1>3, <2>1 DEF Histories, Entries
    <3>2. j \in DOMAIN q /\ r[j] = q[j]
      BY <1>1, <1>3, <3>1
    <3> QED
      BY <1>3, <2>1, <3>2 DEF ProfilesFirst
  <2>2. CASE i = Len(q) + 1 /\ r[i] = e
    <3>1. j # i
      BY <1>3
    <3>2. j \in 1..Len(q)
      BY <1>1, <1>2, <2>2, <3>1
    <3> QED
      BY <1>2, <2>2, <3>2
  <2> QED
    BY <1>1, <2>1, <2>2
<1> QED
  BY <1>3 DEF r, ProfilesFirst

(* And behind a purchase that is first there are none. *)
LEMMA FirstTail ==
    ASSUME NEW S, NEW q \in Seq(S), q # <<>>, ProfilesFirst(q)
    PROVE  /\ ProfilesFirst(Tail(q))
           /\ Head(q).of = "history" => Profiles(Tail(q)) = {}
<1> DEFINE t == Tail(q)
<1>1. /\ t \in Seq(S) /\ 1 \in DOMAIN q /\ Head(q) = q[1] /\ Len(t) = Len(q) - 1
      /\ \A i \in DOMAIN t : i + 1 \in DOMAIN q /\ t[i] = q[i + 1]
  BY TailEntries
<1>2. Len(q) \in Nat /\ \A i \in DOMAIN t : i \in Nat /\ 1 <= i
  BY <1>1
<1> HIDE DEF t
<1>3. ASSUME NEW i \in DOMAIN t, NEW j \in DOMAIN t,
             t[i].of = "history", t[j].of \in {"edit", "finish"}
      PROVE  j < i
  <2>1. j + 1 < i + 1
    BY <1>1, <1>3 DEF ProfilesFirst
  <2> QED
    BY <1>2, <2>1
<1>4. ASSUME q[1].of = "history", NEW j \in DOMAIN t
      PROVE  t[j].of \notin {"edit", "finish"}
  <2>1. ~ (j + 1 < 1)
    BY <1>2
  <2> QED
    BY <1>1, <1>4, <2>1 DEF ProfilesFirst
<1>5. Head(q).of = "history" => Profiles(t) = {}
  BY <1>1, <1>4 DEF Profiles, Entries
<1>6. ProfilesFirst(t)
  BY <1>3 DEF ProfilesFirst
<1> QED
  BY <1>5, <1>6 DEF t

(* Where no purchase is being recorded, nothing is behind one. *)
LEMMA FirstAlone ==
    ASSUME NEW q, Histories(q) = {}
    PROVE  ProfilesFirst(q)
  BY DEF ProfilesFirst, Histories, Entries

(* Recording is having one. *)
LEMMA RecordingHistories ==
    /\ Recording <=> Histories(pending) # {} \/ Histories(mainQ) # {}
    /\ Recording' <=> Histories(pending') # {} \/ Histories(mainQ') # {}
  BY DEF Recording, Histories, Entries

(* A restart adds none. *)
LEMMA HistoriesUnwatched ==
    ASSUME NEW q \in Seq(Write), Histories(q) = {}
    PROVE  Histories(Unwatched(q)) = {}
<1> DEFINE r == Unwatched(q)
<1>1. DOMAIN r = DOMAIN q /\ \A i \in DOMAIN q : r[i].of = q[i].of
  BY RestartKeeps
<1> HIDE DEF r
<1>2. \A i \in DOMAIN q : q[i].of # "history"
  BY DEF Histories, Entries
<1>3. Histories(r) = {}
  BY <1>1, <1>2 DEF Histories, Entries
<1> QED
  BY <1>3 DEF r

(* What a history accounts for changes only with a payment. *)
LEMMA AccountsKept ==
    ASSUME UNCHANGED <<paid, unpaid, leaving>>, leaving => UNCHANGED sheet
    PROVE  \A b : Accounts(b) <=> Accounts(b)'
  BY DEF Accounts, Due

(* A payment that is completed is due until it is recorded. *)
LEMMA AccountsPaid ==
    ASSUME TypeOK, PaymentDidComplete, NEW b \in Bag, Accounts(b)
    PROVE  Accounts(b)'
<1> SUFFICES ASSUME NEW x \in Items
             PROVE  b[x] + Due(x)' = paid'[x] + unpaid'[x]
  BY DEF Accounts
<1>1. sheet \in Bag /\ paid \in Bag /\ unpaid \in Bag
  BY DEF PaymentDidComplete, TypeOK
<1>2. paid'[x] = paid[x] + sheet[x] /\ unpaid'[x] = unpaid[x] /\ Due(x)' = sheet[x] /\ Due(x) = 0
  BY <1>1, BagType DEF PaymentDidComplete, Due
<1>3. b[x] + Due(x) = paid[x] + unpaid[x]
  BY DEF Accounts
<1>4. b[x] \in Nat /\ sheet[x] \in Nat /\ paid[x] \in Nat /\ unpaid[x] \in Nat
  BY <1>1 DEF Bag
<1> QED
  BY <1>2, <1>3, <1>4

(* What the types say of the histories in the queues. *)
LEMMA HistoriesType ==
    ASSUME TypeOK
    PROVE  /\ \A w \in Histories(pending) : /\ w \in Write /\ w.of = "history" /\ w.items \in Bag
                                            /\ w.rec # Nothing => w.rec.bought \in Bag
           /\ \A c \in Histories(mainQ) : /\ c \in Completion /\ c.of = "history"
                                          /\ c.rec # Nothing => c.rec.bought \in Bag
           /\ doc.bought \in Bag
           /\ local # Nothing => local.bought \in Bag
<1>1. \A r \in Record : r.bought \in Bag
  BY DEF Record
<1>2. Histories(pending) \in SUBSET Write /\ Histories(mainQ) \in SUBSET Completion
  BY HistoriesOf DEF TypeOK
<1>3. doc \in Record /\ (local # Nothing => local \in Record)
  BY DEF TypeOK
<1>4. /\ \A w \in Write : w.items \in Bag /\ w.rec \in Record \cup {Nothing}
      /\ \A c \in Completion : c.rec \in Record \cup {Nothing}
  BY DEF Write, Completion
<1>5. \A q : \A w \in Histories(q) : w.of = "history"
  BY DEF Histories
<1> QED
  BY <1>1, <1>2, <1>3, <1>4, <1>5

(* And of the updates of the profile. *)
LEMMA ProfilesBought ==
    ASSUME TypeOK
    PROVE  \A e \in Profiles(pending) \cup Profiles(mainQ) :
              e.rec # Nothing => e.rec.bought \in Bag
<1>1. Profiles(pending) \in SUBSET Write /\ Profiles(mainQ) \in SUBSET Completion
  BY ProfilesOf DEF TypeOK
<1>2. \A r \in Record : r.bought \in Bag
  BY DEF Record
<1>3. \A e \in Write \cup Completion : e.rec \in Record \cup {Nothing}
  BY DEF Write, Completion
<1> QED
  BY <1>1, <1>2, <1>3

(* What leaves the writes of the history alone leaves it in step. *)
LEMMA HistoryKept ==
    ASSUME TypeOK, HistoryInStep, ~troubled,
           \A b \in Bag : Accounts(b) => Accounts(b)',
           Histories(pending') = Histories(pending), Histories(mainQ') = Histories(mainQ),
           doc'.bought = doc.bought, local' \in {local, Nothing}
    PROVE  HistoryInStep'
<1>1. \A w \in Histories(pending') :
         /\ w.live /\ Accounts(w.items)' /\ w.rec # Nothing /\ Accounts(w.rec.bought)'
  BY HistoriesType DEF HistoryInStep
<1>2. \A c \in Histories(mainQ') : c.ok /\ c.rec # Nothing /\ Accounts(c.rec.bought)'
  BY HistoriesType DEF HistoryInStep
<1>3. PICK b \in Bag : b = doc.bought
  BY HistoriesType
<1>4. Histories(pending') # {} \/ Accounts(doc.bought)'
  BY <1>3 DEF HistoryInStep
<1>5. Recording' \/ local' = Nothing \/ Accounts(local.bought)'
  <2>1. CASE Recording \/ local' = Nothing
    BY <2>1, RecordingHistories
  <2>2. CASE ~Recording /\ local' # Nothing
    <3>1. local' = local /\ local # Nothing
      BY <2>2
    <3>2. PICK r \in Bag : r = local.bought
      BY <3>1, HistoriesType
    <3>3. Accounts(r)'
      BY <2>2, <3>1, <3>2 DEF HistoryInStep
    <3> QED
      BY <3>1, <3>2, <3>3
  <2> QED
    BY <2>1, <2>2
<1> QED
  BY <1>1, <1>2, <1>4, <1>5 DEF HistoryInStep

(* The end of the app, when no purchase was under way. *)
LEMMA RestartHistory ==
    ASSUME TypeOK, HistoryInStep, ~troubled, ~Recording, ~leaving, Restarted
    PROVE  HistoryInStep'
<1>1. Histories(pending) = {} /\ Histories(mainQ) = {}
  BY RecordingHistories
<1>2. pending \in Seq(Write) /\ pending' = Unwatched(pending)
  BY DEF TypeOK, Restarted, Unwatched
<1>3. Histories(pending') = {} /\ Histories(mainQ') = {}
  <2>1. mainQ' = <<>> /\ Histories(<<>>) = {}
    BY DEF Restarted, Histories, Entries
  <2> QED
    BY <1>1, <1>2, <2>1, HistoriesUnwatched
<1>4. \A b \in Bag : Accounts(b) => Accounts(b)'
  <2>1. ~leaving' /\ UNCHANGED <<paid, unpaid>>
    BY DEF Restarted
  <2>2. \A x \in Items : Due(x) = 0 /\ Due(x)' = 0
    BY <2>1 DEF Due
  <2> QED
    BY <2>1, <2>2 DEF Accounts
<1> QED
  BY <1>1, <1>3, <1>4, HistoryKept DEF Restarted

(* Another write is none of the history. *)
LEMMA OtherWrite ==
    ASSUME NEW q \in Seq(Write), NEW w \in Write, w.of # "history"
    PROVE  Histories(Append(q, w)) = Histories(q)
<1>1. Entries(Append(q, w)) = Entries(q) \cup {w}
  BY EntriesOf
<1> QED
  BY <1>1 DEF Histories

(* Nor is one of the basket. *)
LEMMA BasketWriteHistory ==
    ASSUME NEW q \in Seq(Write), NEW b \in Bag
    PROVE  Histories(Append(q, BasketWrite(b))) = Histories(q)
<1>1. PICK w \in Write : w = BasketWrite(b) /\ w.of # "history"
  BY BasketWriteType
<1> QED
  BY <1>1, OtherWrite

(* The purchase that is recorded accounts for the payment and for what      *)
(* earlier attempts left behind.                                            *)
LEMMA PurchaseAccounts ==
    ASSUME TypeOK, AttemptsAccounted, LeavingHasSheet, SheetDismissed,
           local # Nothing, CurrentUser # Nothing, Accounts(local.bought)
    PROVE  \E n \in Bag : n = Plus(local.bought, purchasedItemIds) /\ Accounts(n)'
<1> DEFINE old == local.bought
           new == Plus(old, purchasedItemIds)
<1>1. old \in Bag /\ purchasedItemIds \in Bag /\ new \in Bag
  BY HistoriesType, BagType DEF TypeOK
<1>2. /\ leaving /\ ~leaving' /\ paid' = paid /\ unpaid' = Plus(unpaid, abandoned)
  BY DEF SheetDismissed
<1>3. PICK s \in Bag : s = sheet
  BY <1>2 DEF LeavingHasSheet, TypeOK
<1>4. PICK n \in Bag : n = new
  BY <1>1
<1>5. ASSUME NEW x \in Items
      PROVE  n[x] + Due(x)' = paid'[x] + unpaid'[x]
  <2>1. n[x] = old[x] + purchasedItemIds[x] /\ Due(x)' = 0
    BY <1>1, <1>2, <1>4, BagType DEF Due
  <2>2. purchasedItemIds[x] = abandoned[x] + s[x]
    BY <1>2, <1>3 DEF AttemptsAccounted, OnSheet, LeavingHasSheet
  <2>3. old[x] + s[x] = paid[x] + unpaid[x]
    BY <1>2, <1>3 DEF Accounts, Due
  <2>4. abandoned \in Bag /\ unpaid \in Bag /\ paid \in Bag
    BY DEF TypeOK
  <2>5. unpaid'[x] = unpaid[x] + abandoned[x]
    BY <1>2, <2>4, BagType
  <2>6. /\ old[x] \in Nat /\ s[x] \in Nat /\ purchasedItemIds[x] \in Nat
        /\ abandoned[x] \in Nat /\ unpaid[x] \in Nat /\ paid[x] \in Nat
    BY <1>1, <2>4 DEF Bag
  <2> HIDE DEF old
  <2> QED
    BY <1>2, <2>1, <2>2, <2>3, <2>5, <2>6
<1>6. Accounts(n)'
  BY <1>5 DEF Accounts
<1> QED
  BY <1>4, <1>6

(* The dismissal records the purchase. *)
LEMMA DismissedHistory ==
    ASSUME TypeOK, AttemptsAccounted, LeavingHasSheet, HistoryInStep, SheetDismissed,
           ~troubled'
    PROVE  HistoryInStep'
<1>1. ~troubled /\ ~Recording /\ basket # Nothing /\ CurrentUser # Nothing /\ local # Nothing
  BY DEF SheetDismissed, CurrentUser
<1>2. Histories(pending) = {} /\ Histories(mainQ) = {}
  BY <1>1, RecordingHistories
<1>3. Accounts(local.bought)
  BY <1>1 DEF HistoryInStep
<1>4. PICK n \in Bag : n = Plus(local.bought, purchasedItemIds) /\ Accounts(n)'
  BY <1>1, <1>3, PurchaseAccounts
<1>5. PICK w \in Write : /\ w = HistoryWrite /\ w.of = "history" /\ w.live /\ w.items = n
                         /\ w.rec \in Record /\ w.rec.bought = n
  BY <1>1, <1>4, TypeParts, HistoryWriteType
<1>6. w.rec # Nothing
  BY <1>5, NothingAssumption
<1>7. pending \in Seq(Write) /\ Recorded = Append(pending, w) /\ Recorded \in Seq(Write)
  BY <1>1, <1>5, TypeParts, DismissedEffect DEF Recorded, TypeOK
<1>8. Histories(Recorded) = {w}
  BY <1>2, <1>5, <1>7, HistoriesOf
<1>9. pending' = Append(Recorded, BasketWrite(Empty))
  BY <1>1, TypeParts, DismissedEffect
<1>10. Histories(pending') = {w}
  BY <1>7, <1>8, <1>9, BagType, BasketWriteHistory
<1>11. Histories(mainQ') = {}
  BY <1>1, <1>2 DEF SheetDismissed
<1>12. Accounts(w.items)' /\ Accounts(w.rec.bought)'
  BY <1>4, <1>5
<1>13. Recording'
  BY <1>10, RecordingHistories
<1> QED
  BY <1>5, <1>6, <1>10, <1>11, <1>12, <1>13 DEF HistoryInStep

(* The first write leaves the queue, and its completion may join another.   *)
LEMMA CommitEffect ==
    ASSUME TypeOK, Commit
    PROVE  \E w \in Write, c \in Completion, ok \in BOOLEAN :
             /\ w = Head(pending) /\ pending # <<>> /\ pending' = Tail(pending)
             /\ c.of = w.of /\ c.rec = w.rec /\ c.ok = ok
             /\ mainQ' = IF w.live THEN Append(mainQ, c) ELSE mainQ
             /\ IF ok THEN Applied(w) /\ UNCHANGED <<troubled, behind>>
                ELSE /\ troubled' = (troubled \/ w.of = "history")
                     /\ behind' = (behind \/ w.of = "basket")
                     /\ UNCHANGED server
             /\ UNCHANGED <<auth, local, waiting, list, payment, taps, accounts, trapped>>
<1>1. pending \in Seq(Write) /\ pending # <<>>
  BY DEF Commit, TypeOK
<1>2. PICK w \in Write : w = Head(pending)
  BY <1>1, TailEntries
<1>3. PICK ok \in BOOLEAN :
        /\ mainQ' = IF w.live THEN Append(mainQ, [of |-> w.of, rec |-> w.rec, ok |-> ok])
                    ELSE mainQ
        /\ IF ok THEN Applied(w) /\ UNCHANGED <<troubled, behind>>
           ELSE /\ troubled' = (troubled \/ w.of = "history")
                /\ behind' = (behind \/ w.of = "basket")
                /\ UNCHANGED server
  BY <1>2 DEF Commit
<1> DEFINE c == [of |-> w.of, rec |-> w.rec, ok |-> ok]
<1>4. c \in Completion /\ c.of = w.of /\ c.rec = w.rec /\ c.ok = ok
  BY <1>3 DEF Write, Completion
<1>5. mainQ' = IF w.live THEN Append(mainQ, c) ELSE mainQ
  BY <1>3
<1> HIDE DEF c
<1>6. /\ pending' = Tail(pending)
      /\ UNCHANGED <<auth, local, waiting, list, payment, taps, accounts, trapped>>
  BY DEF Commit
<1> QED
  BY <1>1, <1>2, <1>3, <1>4, <1>5, <1>6

(* A history that is stored accounts for the payments, as does the record   *)
(* that its completion brings.                                              *)
LEMMA CommitHistory ==
    ASSUME TypeOK, HistoryInStep, Commit, ~troubled'
    PROVE  HistoryInStep'
<1>1. pending \in Seq(Write) /\ mainQ \in Seq(Completion)
  BY DEF TypeOK
<1>2. PICK w \in Write, c \in Completion, ok \in BOOLEAN :
        /\ w = Head(pending) /\ pending # <<>> /\ pending' = Tail(pending)
        /\ c.of = w.of /\ c.rec = w.rec /\ c.ok = ok
        /\ mainQ' = IF w.live THEN Append(mainQ, c) ELSE mainQ
        /\ IF ok THEN Applied(w) /\ UNCHANGED <<troubled, behind>>
           ELSE troubled' = (troubled \/ w.of = "history") /\ UNCHANGED server
        /\ UNCHANGED <<local, paid, unpaid, leaving, sheet>>
  BY CommitEffect
<1>3. Histories(pending) = Histories(Tail(pending)) \cup (IF w.of = "history" THEN {w} ELSE {})
  BY <1>1, <1>2, HistoriesOf
<1>4. ~troubled /\ (w.of = "history" => ok)
  BY <1>2
<1>5. /\ w.of = "history" => doc' = [doc EXCEPT !.bought = w.items]
      /\ w.of # "history" => doc'.bought = doc.bought
  <2>1. w.of = "history" => Applied(w)
    BY <1>2, <1>4
  <2>2. Applied(w) \/ UNCHANGED doc
    BY <1>2
  <2>3. [doc EXCEPT !.onBoard = TRUE].bought = doc.bought
    BY DEF TypeOK, Record
  <2> QED
    BY <2>1, <2>2, <2>3 DEF Applied
<1>6. \A b : Accounts(b) <=> Accounts(b)'
  BY <1>2, AccountsKept
<1>7. Histories(mainQ') = Histories(mainQ)
                            \cup (IF w.live /\ w.of = "history" THEN {c} ELSE {})
  BY <1>1, <1>2, HistoriesOf
<1>8. CASE w.of = "history"
  <2>1. /\ w \in Histories(pending)
        /\ w.live /\ Accounts(w.items) /\ w.rec # Nothing /\ Accounts(w.rec.bought)
    BY <1>3, <1>4, <1>8 DEF HistoryInStep
  <2>2. PICK b \in Bag : b = w.items
    BY <2>1, HistoriesType
  <2>3. doc'.bought = b
    <3>1. doc \in Record /\ doc' = [doc EXCEPT !.bought = b]
      BY <1>5, <1>8, <2>2 DEF TypeOK
    <3> QED
      BY <3>1 DEF Record
  <2>4. Accounts(doc.bought)'
    BY <1>6, <2>1, <2>2, <2>3
  <2>5. \A v \in Histories(pending') :
          v.live /\ Accounts(v.items)' /\ v.rec # Nothing /\ Accounts(v.rec.bought)'
    BY <1>2, <1>3, <1>4, <1>6 DEF HistoryInStep
  <2>6. \A e \in Histories(mainQ') : e.ok /\ e.rec # Nothing /\ Accounts(e.rec.bought)'
    <3>1. \A e \in Histories(mainQ) : e.ok /\ e.rec # Nothing /\ Accounts(e.rec.bought)'
      BY <1>4, <1>6 DEF HistoryInStep
    <3>2. c.ok /\ c.rec # Nothing /\ Accounts(c.rec.bought)'
      BY <1>2, <1>4, <1>6, <1>8, <2>1
    <3> QED
      BY <1>7, <3>1, <3>2
  <2>7. Recording'
    BY <1>7, <1>8, <2>1, RecordingHistories
  <2> QED
    BY <2>4, <2>5, <2>6, <2>7 DEF HistoryInStep
<1>9. CASE w.of # "history"
  <2>1. Histories(pending') = Histories(pending) /\ Histories(mainQ') = Histories(mainQ)
    BY <1>2, <1>3, <1>7, <1>9
  <2>2. doc'.bought = doc.bought /\ local' = local
    BY <1>2, <1>5, <1>9
  <2> QED
    BY <1>4, <1>6, <2>1, <2>2, HistoryKept
<1> QED
  BY <1>8, <1>9

(* The completion of the update brings the record in step. *)
LEMMA CompletionHistory ==
    ASSUME TypeOK, HistoryInStep, ProfilesInStep, RunCompletion, ~troubled'
    PROVE  HistoryInStep'
<1> DEFINE c == Head(mainQ)
<1>1. mainQ \in Seq(Completion) /\ mainQ # <<>>
  BY DEF RunCompletion, TypeOK
<1>2. Histories(mainQ) = Histories(Tail(mainQ)) \cup (IF c.of = "history" THEN {c} ELSE {})
  BY <1>1, HistoriesOf
<1>3. ~troubled /\ UNCHANGED <<doc, pending, paid, unpaid, leaving, sheet>> /\ mainQ' = Tail(mainQ)
  BY DEF RunCompletion
<1>4. \A b : Accounts(b) <=> Accounts(b)'
  BY <1>3, AccountsKept
<1>5. CASE c.of = "history"
  <2>1. c.of = "history" /\ local' = IF c.ok THEN c.rec ELSE local
    BY <1>5 DEF RunCompletion, UserUpdated, BasketUpdated
  <2> HIDE DEF c
  <2>2. c \in Histories(mainQ)
    BY <1>2, <2>1
  <2>3. c.ok /\ c.rec # Nothing /\ Accounts(c.rec.bought)
    BY <1>3, <2>2 DEF HistoryInStep
  <2>4. PICK b \in Bag : b = c.rec.bought
    BY <2>2, <2>3, HistoriesType
  <2>5. local' = c.rec /\ Accounts(b)'
    BY <1>4, <2>1, <2>3, <2>4
  <2>6. Accounts(local.bought)'
    BY <2>4, <2>5
  <2>7. \A v \in Histories(pending') :
          v.live /\ Accounts(v.items)' /\ v.rec # Nothing /\ Accounts(v.rec.bought)'
    BY <1>3, <1>4 DEF HistoryInStep
  <2>8. \A e \in Histories(mainQ') : e.ok /\ e.rec # Nothing /\ Accounts(e.rec.bought)'
    BY <1>2, <1>3, <1>4 DEF HistoryInStep
  <2>9. PICK d \in Bag : d = doc.bought
    BY HistoriesType
  <2>10. Histories(pending') # {} \/ Accounts(doc.bought)'
    BY <1>3, <1>4, <2>9 DEF HistoryInStep
  <2> QED
    BY <2>6, <2>7, <2>8, <2>10 DEF HistoryInStep
<1>6. CASE c.of # "history"
  <2>1. Histories(mainQ') = Histories(mainQ) /\ Histories(pending') = Histories(pending)
    BY <1>2, <1>3, <1>6
  <2>2. CASE local' = local
    BY <1>3, <1>4, <2>1, <2>2, HistoryKept
  <2>3. CASE local' # local
    <3>1. local' = c.rec /\ c.of \in {"edit", "finish"}
      <4>1. c.of \in Updates
        <5>1. c \in Completion
          BY <1>1, TailEntries
        <5> HIDE DEF c
        <5> QED
          BY <5>1 DEF Completion
      <4>2. UserUpdated(c) \/ local' = local
        BY DEF RunCompletion, BasketUpdated
      <4> HIDE DEF c
      <4>3. local' = c.rec /\ c.of # "basket"
        BY <2>3, <4>2 DEF UserUpdated
      <4> QED
        BY <1>6, <4>1, <4>3 DEF Updates
    <3>2. c \in Profiles(mainQ)
      BY <1>1, <3>1, ProfilesOf
    <3> HIDE DEF c
    <3>3. Recording \/ (c.rec # Nothing /\ Accounts(c.rec.bought))
      BY <1>3, <3>2 DEF ProfilesInStep
    <3>4. Recording' \/ local' = Nothing \/ Accounts(local.bought)'
      <4>1. CASE Recording
        BY <2>1, <4>1, RecordingHistories
      <4>2. CASE ~Recording
        <5>1. PICK b : b = c.rec.bought /\ Accounts(b)
          BY <3>3, <4>2
        <5>2. Accounts(b)' /\ local'.bought = b
          BY <1>4, <3>1, <5>1
        <5> QED
          BY <5>2
      <4> QED
        BY <4>1, <4>2
    <3>5. PICK d \in Bag : d = doc.bought
      BY HistoriesType
    <3>6. Histories(pending') # {} \/ Accounts(doc.bought)'
      BY <1>3, <1>4, <3>5, <2>1 DEF HistoryInStep
    <3>7. /\ \A v \in Histories(pending') :
               v.live /\ Accounts(v.items)' /\ v.rec # Nothing /\ Accounts(v.rec.bought)'
          /\ \A e \in Histories(mainQ') : e.ok /\ e.rec # Nothing /\ Accounts(e.rec.bought)'
      BY <1>3, <1>4, <2>1 DEF HistoryInStep
    <3> QED
      BY <3>4, <3>6, <3>7 DEF HistoryInStep
  <2> QED
    BY <2>2, <2>3
<1> QED
  BY <1>5, <1>6

(* A user who signs in gets the record that accounts for the payments. *)
LEMMA LogInHistory ==
    ASSUME TypeOK, HistoryInStep, LogIn, ~troubled'
    PROVE  HistoryInStep'
<1>1. /\ ~troubled
      /\ UNCHANGED <<doc, pending, mainQ, paid, unpaid, leaving, sheet>>
      /\ \E o : local' = [onBoard |-> o, bought |-> Seen("history", doc.bought)]
  BY DEF LogIn
<1>2. \A b : Accounts(b) <=> Accounts(b)'
  BY <1>1, AccountsKept
<1>3. PICK d \in Bag : d = doc.bought
  BY HistoriesType
<1>4. pending \in Seq(Write) /\ Seen("history", d) = SeenIn(pending, "history", d)
  BY SeenPending DEF TypeOK
<1>5. PICK b \in Bag : b = SeenIn(pending, "history", d)
  BY <1>4, SeenType
<1>6. Accounts(b)
  <2>1. CASE Histories(pending) = {}
    <3>1. \A i \in DOMAIN pending : pending[i].of # "history"
      BY <2>1 DEF Histories, Entries
    <3>2. b = d
      BY <1>5, <3>1, SeenBase
    <3> QED
      BY <1>1, <1>3, <2>1, <3>2 DEF HistoryInStep
  <2>2. CASE Histories(pending) # {}
    <3>1. \E i \in DOMAIN pending : pending[i].of = "history"
      BY <2>2 DEF Histories, Entries
    <3>2. \E i \in DOMAIN pending : pending[i].of = "history" /\ b = pending[i].items
      BY <1>4, <1>5, <3>1, SeenShows
    <3>3. \E w \in Histories(pending) : b = w.items
      BY <3>2 DEF Histories, Entries
    <3> QED
      BY <1>1, <3>3 DEF HistoryInStep
  <2> QED
    BY <2>1, <2>2
<1>7. local'.bought = b
  BY <1>1, <1>3, <1>4, <1>5
<1>8. Accounts(local.bought)'
  BY <1>2, <1>6, <1>7
<1>9. /\ \A w \in Histories(pending') :
           w.live /\ Accounts(w.items)' /\ w.rec # Nothing /\ Accounts(w.rec.bought)'
      /\ \A c \in Histories(mainQ') : c.ok /\ c.rec # Nothing /\ Accounts(c.rec.bought)'
  BY <1>1, <1>2 DEF HistoryInStep
<1>10. Histories(pending') # {} \/ Accounts(doc.bought)'
  BY <1>1, <1>2, <1>3 DEF HistoryInStep
<1> QED
  BY <1>8, <1>9, <1>10 DEF HistoryInStep

(* Every version of the history stays in step. *)
LEMMA HistoryStep ==
    ASSUME TypeOK, AttemptsAccounted, LeavingHasSheet, HistoryInStep,
           ProfilesInStep, Next
    PROVE  HistoryInStep'
<1> SUFFICES ASSUME ~troubled' PROVE HistoryInStep'
  BY DEF HistoryInStep
<1>1. ASSUME UNCHANGED <<doc, local, pending, mainQ, paid, unpaid, leaving, troubled>>,
             leaving => UNCHANGED sheet
      PROVE  HistoryInStep'
  <2>1. \A b : Accounts(b) <=> Accounts(b)'
    BY <1>1, AccountsKept
  <2> QED
    BY <1>1, <2>1, HistoryKept
<1>2. ASSUME NEW where, Trap(where), Free
      PROVE  HistoryInStep'
  <2>1. ~leaving /\ ~troubled /\ ~Recording /\ Restarted
    BY <1>2 DEF LeavingHasSheet, Free, Trap
  <2> QED
    BY <2>1, RestartHistory
<1>3. CASE Appear \/ PaymentDidCancel \/ Revoked \/ Reloaded
  BY <1>1, <1>3 DEF Appear, PaymentDidCancel, Revoked, Reloaded
<1>4. CASE CheckoutButtonPressed
  <2>1. Free /\ ~leaving
    BY <1>4 DEF CheckoutButtonPressed, LeavingHasSheet, Free
  <2> QED
    BY <1>1, <1>2, <1>4, <2>1 DEF CheckoutButtonPressed
<1>5. CASE PaymentDidComplete
  <2>1. ~troubled /\ UNCHANGED <<doc, local, pending, mainQ>>
    BY <1>5 DEF PaymentDidComplete
  <2>2. \A b \in Bag : Accounts(b) => Accounts(b)'
    BY <1>5, AccountsPaid
  <2> QED
    BY <2>1, <2>2, HistoryKept
<1>6. CASE LogOut
  <2>1. /\ ~troubled /\ local' = Nothing
        /\ UNCHANGED <<doc, pending, mainQ, paid, unpaid, leaving, sheet>>
    BY <1>6 DEF LogOut
  <2>2. \A b : Accounts(b) <=> Accounts(b)'
    BY <2>1, AccountsKept
  <2> QED
    BY <2>1, <2>2, HistoryKept
<1>7. CASE Crash
  BY <1>7, RestartHistory DEF Crash
<1>8. ASSUME NEW x \in Items, DeleteRow(x)
      PROVE  HistoryInStep'
  <2>1. CASE basket = Nothing
    BY <1>2, <1>8, <2>1 DEF DeleteRow
  <2>2. CASE basket # Nothing
    <3>1. PICK b \in Bag : b = Without(basket, x)
      BY <2>2, BagType DEF TypeOK
    <3>2. /\ ~troubled /\ pending' = Append(pending, BasketWrite(b)) /\ pending \in Seq(Write)
          /\ UNCHANGED <<doc, local, mainQ, paid, unpaid, leaving, sheet>>
      BY <1>8, <2>2, <3>1 DEF DeleteRow, TypeOK
    <3>3. Histories(pending') = Histories(pending)
      BY <3>2, BasketWriteHistory
    <3>4. \A d : Accounts(d) <=> Accounts(d)'
      BY <3>2, AccountsKept
    <3> QED
      BY <3>2, <3>3, <3>4, HistoryKept
  <2> QED
    BY <2>1, <2>2
<1>9. ASSUME NEW x \in Items, AddElsewhere(x)
      PROVE  HistoryInStep'
  BY <1>1, <1>9 DEF AddElsewhere
<1>10. ASSUME NEW i \in DOMAIN fetches, ItemsFetched(i) \/ ItemsMissing(i)
       PROVE  HistoryInStep'
  BY <1>1, <1>10 DEF ItemsFetched, ItemsMissing, Fetched
<1>11. ASSUME NEW of \in {"edit", "finish"}, UpdateProfile(of)
       PROVE  HistoryInStep'
  <2>1. CASE Trap("saving")
    BY <1>2, <1>11, <2>1, TypeParts, ProfileEffect
  <2>2. CASE ~Trap("saving")
    <3>1. PICK w \in Write : /\ w.of = of /\ pending' = Append(pending, w)
                             /\ troubled' = (troubled \/ Recording)
                             /\ UNCHANGED <<doc, local, mainQ, paid, unpaid, leaving, sheet>>
      BY <1>11, <2>2, TypeParts, ProfileEffect
    <3>2. pending \in Seq(Write) /\ w.of # "history"
      BY <1>11, <3>1 DEF TypeOK
    <3>3. Histories(pending') = Histories(pending)
      <4>1. Histories(Append(pending, w)) = Histories(pending)
        BY <3>2, OtherWrite
      <4> QED
        BY <3>1, <4>1
    <3>4. \A d : Accounts(d) <=> Accounts(d)'
      BY <3>1, AccountsKept
    <3> QED
      BY <3>1, <3>3, <3>4, HistoryKept
  <2> QED
    BY <2>1, <2>2
<1> QED
  BY <1>3, <1>4, <1>5, <1>6, <1>7, <1>8, <1>9, <1>10, <1>11, DismissedHistory, CommitHistory,
     CompletionHistory, LogInHistory DEF Next

(* What leaves the updates of the profile and the purchases in the queues   *)
(* where they are leaves them in step.                                      *)
LEMMA ProfilesKept ==
    ASSUME TypeOK, ProfilesInStep, ~troubled,
           \A b \in Bag : Accounts(b) => Accounts(b)',
           ProfilesFirst(pending'), Profiles(pending') = Profiles(pending),
           Histories(pending') = Histories(pending), mainQ' = mainQ
    PROVE  ProfilesInStep'
<1>1. ProfilesFirst(mainQ') /\ (Histories(mainQ') = {} \/ Profiles(pending') = {})
  BY DEF ProfilesInStep
<1>2. ASSUME ~Recording', NEW e \in Profiles(pending') \cup Profiles(mainQ')
      PROVE  e.rec # Nothing /\ Accounts(e.rec.bought)'
  <2>1. ~Recording
    BY <1>2, RecordingHistories
  <2>2. e.rec # Nothing /\ Accounts(e.rec.bought)
    BY <1>2, <2>1 DEF ProfilesInStep
  <2>3. e.rec.bought \in Bag
    BY <1>2, <2>2, ProfilesBought
  <2> QED
    BY <2>2, <2>3
<1> QED
  BY <1>1, <1>2 DEF ProfilesInStep

(* The end of the app, when no purchase was under way. *)
LEMMA RestartProfiles ==
    ASSUME TypeOK, ProfilesInStep, ~troubled, ~Recording, ~leaving, Restarted
    PROVE  ProfilesInStep'
<1>1. pending \in Seq(Write) /\ pending' = Unwatched(pending) /\ mainQ' = <<>>
  BY DEF TypeOK, Restarted, Unwatched
<1>2. Histories(pending') = {} /\ Histories(mainQ') = {} /\ Profiles(mainQ') = {}
  <2>1. Histories(pending) = {}
    BY RecordingHistories
  <2>2. Histories(<<>>) = {} /\ Profiles(<<>>) = {}
    BY DEF Histories, Profiles, Entries
  <2> QED
    BY <1>1, <2>1, <2>2, HistoriesUnwatched
<1>3. ProfilesFirst(pending') /\ ProfilesFirst(mainQ')
  BY <1>2, FirstAlone
<1>4. ASSUME NEW e \in Profiles(pending')
      PROVE  e.rec # Nothing /\ Accounts(e.rec.bought)'
  <2>1. \E v \in Profiles(pending) : v.rec = e.rec
    <3> DEFINE r == Unwatched(pending)
    <3>1. DOMAIN r = DOMAIN pending
          /\ \A i \in DOMAIN pending : r[i].of = pending[i].of /\ r[i].rec = pending[i].rec
      BY <1>1, RestartKeeps
    <3> HIDE DEF r
    <3>2. e \in Profiles(r)
      BY <1>1, <1>4 DEF r
    <3> QED
      BY <3>1, <3>2 DEF Profiles, Entries
  <2>2. e.rec # Nothing /\ Accounts(e.rec.bought) /\ e.rec.bought \in Bag
    BY <2>1, ProfilesBought DEF ProfilesInStep
  <2>3. \A x \in Items : Due(x) = 0 /\ Due(x)' = 0
    BY DEF Restarted, Due
  <2>4. UNCHANGED <<paid, unpaid>>
    BY DEF Restarted
  <2> QED
    BY <2>2, <2>3, <2>4 DEF Accounts
<1> QED
  BY <1>2, <1>3, <1>4 DEF ProfilesInStep

(* The purchase that is recorded comes behind them all. *)
LEMMA DismissedProfiles ==
    ASSUME TypeOK, ProfilesInStep, SheetDismissed, ~troubled'
    PROVE  ProfilesInStep'
<1>1. ~troubled /\ ~Recording /\ basket # Nothing /\ CurrentUser # Nothing /\ local # Nothing
      /\ mainQ' = mainQ
  BY DEF SheetDismissed, CurrentUser
<1>2. Histories(mainQ') = {} /\ ProfilesFirst(mainQ') /\ ProfilesFirst(pending)
  BY <1>1, RecordingHistories DEF ProfilesInStep
<1>3. PICK w \in Write : w = HistoryWrite /\ w.of = "history"
  BY <1>1, TypeParts, HistoryWriteType
<1>4. PICK v \in Write : v = BasketWrite(Empty) /\ v.of = "basket"
  BY BagType, BasketWriteType
<1>5. /\ pending \in Seq(Write) /\ Append(pending, w) \in Seq(Write)
      /\ pending' = Append(Append(pending, w), v)
  BY <1>1, <1>3, <1>4, TypeParts, DismissedEffect DEF Recorded, TypeOK
<1>6. ProfilesFirst(Append(pending, w))
  BY <1>2, <1>3, <1>5, FirstAppend
<1>7. ProfilesFirst(pending')
  BY <1>4, <1>5, <1>6, FirstAppend
<1>8. Recording'
  <2>1. w \in Histories(Append(pending, w))
    BY <1>3, <1>5, HistoriesOf
  <2>2. Histories(pending') = Histories(Append(pending, w))
    BY <1>4, <1>5, OtherWrite
  <2> QED
    BY <2>1, <2>2, RecordingHistories
<1> QED
  BY <1>2, <1>7, <1>8 DEF ProfilesInStep

(* An update of the profile is made when no purchase is being recorded. *)
LEMMA UpdateProfiles ==
    ASSUME TypeOK, HistoryInStep, ProfilesInStep, ~troubled', NEW w \in Write,
           w.of \in {"edit", "finish"}, local # Nothing, w.rec \in Record,
           w.rec.bought = local.bought, pending' = Append(pending, w),
           troubled' = (troubled \/ Recording),
           UNCHANGED <<local, mainQ, paid, unpaid, leaving, sheet>>
    PROVE  ProfilesInStep'
<1>1. ~troubled /\ ~Recording
  OBVIOUS
<1>2. Histories(pending) = {} /\ Histories(mainQ) = {} /\ pending \in Seq(Write)
  BY <1>1, RecordingHistories DEF TypeOK
<1>3. ProfilesFirst(pending') /\ ProfilesFirst(mainQ') /\ Histories(mainQ') = {}
  BY <1>1, <1>2, FirstAppend DEF ProfilesInStep
<1>4. \A b : Accounts(b) <=> Accounts(b)'
  BY AccountsKept
<1>5. Profiles(pending') = Profiles(pending) \cup {w}
  BY <1>2, ProfilesOf
<1>6. w.rec # Nothing /\ Accounts(w.rec.bought)'
  <2>1. PICK b : b = local.bought /\ Accounts(b)
    BY <1>1 DEF HistoryInStep
  <2>2. Accounts(b)' /\ w.rec.bought = b
    BY <1>4, <2>1
  <2> QED
    BY <2>2, NothingAssumption
<1>7. \A e \in Profiles(pending) \cup Profiles(mainQ) :
         e.rec # Nothing /\ Accounts(e.rec.bought)'
  BY <1>1, <1>4 DEF ProfilesInStep
<1> QED
  BY <1>3, <1>5, <1>6, <1>7 DEF ProfilesInStep

(* The server takes the writes in order. *)
LEMMA CommitProfiles ==
    ASSUME TypeOK, HistoryInStep, ProfilesInStep, Commit, ~troubled'
    PROVE  ProfilesInStep'
<1>1. pending \in Seq(Write) /\ mainQ \in Seq(Completion)
  BY DEF TypeOK
<1>2. PICK w \in Write, c \in Completion, ok \in BOOLEAN :
        /\ w = Head(pending) /\ pending # <<>> /\ pending' = Tail(pending)
        /\ c.of = w.of /\ c.rec = w.rec
        /\ mainQ' = IF w.live THEN Append(mainQ, c) ELSE mainQ
        /\ IF ok THEN UNCHANGED troubled ELSE troubled' = (troubled \/ w.of = "history")
        /\ UNCHANGED <<paid, unpaid, leaving, sheet>>
  BY CommitEffect
<1>3. ~troubled /\ \A b : Accounts(b) <=> Accounts(b)'
  BY <1>2, AccountsKept
<1>4. /\ Histories(pending) = Histories(pending') \cup (IF w.of = "history" THEN {w} ELSE {})
      /\ Profiles(pending) = Profiles(pending')
                               \cup (IF w.of \in {"edit", "finish"} THEN {w} ELSE {})
  BY <1>1, <1>2, HistoriesOf, ProfilesOf
<1>5. /\ Histories(mainQ') = Histories(mainQ)
                               \cup (IF w.live /\ w.of = "history" THEN {c} ELSE {})
      /\ Profiles(mainQ') = Profiles(mainQ)
                               \cup (IF w.live /\ w.of \in {"edit", "finish"} THEN {c} ELSE {})
  BY <1>1, <1>2, HistoriesOf, ProfilesOf
<1>6. ProfilesFirst(pending) /\ ProfilesFirst(mainQ) /\ (Histories(mainQ) = {} \/ Profiles(pending) = {})
  BY <1>3 DEF ProfilesInStep
<1>7. ProfilesFirst(pending') /\ (w.of = "history" => Profiles(pending') = {})
  BY <1>1, <1>2, <1>6, FirstTail
<1>8. ProfilesFirst(mainQ')
  <2>1. w.of \in {"edit", "finish"} => Histories(mainQ) = {}
    BY <1>4, <1>6
  <2>2. ProfilesFirst(Append(mainQ, c))
    BY <1>1, <1>2, <1>6, <2>1, FirstAppend
  <2> QED
    BY <1>2, <1>6, <2>2
<1>9. Histories(mainQ') = {} \/ Profiles(pending') = {}
  BY <1>4, <1>5, <1>6, <1>7
<1>10. ASSUME ~Recording', NEW e \in Profiles(pending') \cup Profiles(mainQ')
       PROVE  e.rec # Nothing /\ Accounts(e.rec.bought)'
  <2>1. w.of # "history"
    <3>1. ASSUME w.of = "history" PROVE FALSE
      <4>1. w.live
        BY <1>3, <1>4, <3>1 DEF HistoryInStep
      <4>2. c \in Histories(mainQ')
        BY <1>5, <3>1, <4>1
      <4> QED
        BY <1>10, <4>2, RecordingHistories
    <3> QED
      BY <3>1
  <2>2. ~Recording
    BY <1>4, <1>5, <1>10, <2>1, RecordingHistories
  <2>3. \E v \in Profiles(pending) \cup Profiles(mainQ) : v.rec = e.rec
    BY <1>2, <1>4, <1>5, <1>10
  <2> QED
    BY <1>3, <2>2, <2>3 DEF ProfilesInStep
<1> QED
  BY <1>7, <1>8, <1>9, <1>10 DEF ProfilesInStep

(* The completions run in order. *)
LEMMA CompletionProfiles ==
    ASSUME TypeOK, ProfilesInStep, RunCompletion, ~troubled'
    PROVE  ProfilesInStep'
<1>1. mainQ \in Seq(Completion) /\ mainQ # <<>> /\ mainQ' = Tail(mainQ) /\ pending' = pending
      /\ ~troubled /\ UNCHANGED <<paid, unpaid, leaving, sheet>>
  BY DEF RunCompletion, TypeOK
<1>2. PICK c \in Completion :
        /\ Histories(mainQ) = Histories(mainQ') \cup (IF c.of = "history" THEN {c} ELSE {})
        /\ Profiles(mainQ) = Profiles(mainQ')
                               \cup (IF c.of \in {"edit", "finish"} THEN {c} ELSE {})
        /\ c = Head(mainQ)
  BY <1>1, HistoriesOf, ProfilesOf
<1>3. \A b : Accounts(b) <=> Accounts(b)'
  BY <1>1, AccountsKept
<1>4. ProfilesFirst(pending') /\ ProfilesFirst(mainQ) /\ (Histories(mainQ) = {} \/ Profiles(pending) = {})
  BY <1>1 DEF ProfilesInStep
<1>5. ProfilesFirst(mainQ') /\ (c.of = "history" => Profiles(mainQ') = {})
  BY <1>1, <1>2, <1>4, FirstTail
<1>6. Histories(mainQ') = {} \/ Profiles(pending') = {}
  BY <1>1, <1>2, <1>4
<1>7. ASSUME ~Recording', NEW e \in Profiles(pending') \cup Profiles(mainQ')
      PROVE  e.rec # Nothing /\ Accounts(e.rec.bought)'
  <2>1. c.of # "history"
    BY <1>1, <1>2, <1>4, <1>5, <1>7
  <2>2. ~Recording
    BY <1>1, <1>2, <1>7, <2>1, RecordingHistories
  <2> QED
    BY <1>1, <1>2, <1>3, <1>7, <2>2 DEF ProfilesInStep
<1> QED
  BY <1>4, <1>5, <1>6, <1>7 DEF ProfilesInStep

(* The updates of the profile stay in step. *)
LEMMA ProfilesStep ==
    ASSUME TypeOK, LeavingHasSheet, HistoryInStep, ProfilesInStep, Next
    PROVE  ProfilesInStep'
<1> SUFFICES ASSUME ~troubled' PROVE ProfilesInStep'
  BY DEF ProfilesInStep
<1>1. ASSUME UNCHANGED <<pending, mainQ, troubled>>, \A b \in Bag : Accounts(b) => Accounts(b)'
      PROVE  ProfilesInStep'
  <2>1. ProfilesFirst(pending)
    BY <1>1 DEF ProfilesInStep
  <2> QED
    BY <1>1, <2>1, ProfilesKept
<1>2. ASSUME UNCHANGED <<pending, mainQ, paid, unpaid, leaving, troubled>>,
             leaving => UNCHANGED sheet
      PROVE  ProfilesInStep'
  BY <1>1, <1>2, AccountsKept
<1>3. ASSUME NEW where, Trap(where), Free
      PROVE  ProfilesInStep'
  <2>1. ~leaving /\ ~troubled /\ ~Recording /\ Restarted
    BY <1>3 DEF LeavingHasSheet, Free, Trap
  <2> QED
    BY <2>1, RestartProfiles
<1>4. CASE Appear \/ PaymentDidCancel \/ Revoked \/ Reloaded \/ LogOut \/ LogIn
  BY <1>2, <1>4 DEF Appear, PaymentDidCancel, Revoked, Reloaded, LogOut, LogIn
<1>5. CASE CheckoutButtonPressed
  <2>1. Free /\ ~leaving
    BY <1>5 DEF CheckoutButtonPressed, LeavingHasSheet, Free
  <2> QED
    BY <1>2, <1>3, <1>5, <2>1 DEF CheckoutButtonPressed
<1>6. CASE PaymentDidComplete
  <2>1. UNCHANGED <<pending, mainQ, troubled>>
    BY <1>6 DEF PaymentDidComplete
  <2>2. \A b \in Bag : Accounts(b) => Accounts(b)'
    BY <1>6, AccountsPaid
  <2> QED
    BY <1>1, <2>1, <2>2
<1>7. CASE Crash
  BY <1>7, RestartProfiles DEF Crash
<1>8. ASSUME NEW x \in Items, DeleteRow(x)
      PROVE  ProfilesInStep'
  <2>1. CASE basket = Nothing
    BY <1>3, <1>8, <2>1 DEF DeleteRow
  <2>2. CASE basket # Nothing
    <3>1. PICK b \in Bag : b = Without(basket, x)
      BY <2>2, BagType DEF TypeOK
    <3>2. PICK w \in Write : w = BasketWrite(b) /\ w.of = "basket"
      BY BasketWriteType
    <3>3. /\ ~troubled /\ pending' = Append(pending, w) /\ pending \in Seq(Write)
          /\ UNCHANGED <<mainQ, paid, unpaid, leaving, sheet>>
      BY <1>8, <2>2, <3>1, <3>2 DEF DeleteRow, TypeOK
    <3>4. Histories(pending') = Histories(pending) /\ Profiles(pending') = Profiles(pending)
      <4>1. Entries(Append(pending, w)) = Entries(pending) \cup {w}
        BY <3>3, EntriesOf
      <4> QED
        BY <3>2, <3>3, <4>1 DEF Histories, Profiles
    <3>5. \A d : Accounts(d) <=> Accounts(d)'
      BY <3>3, AccountsKept
    <3>6. ProfilesFirst(pending')
      <4>1. ProfilesFirst(pending)
        BY <3>3 DEF ProfilesInStep
      <4> QED
        BY <3>2, <3>3, <4>1, FirstAppend
    <3> QED
      BY <3>3, <3>4, <3>5, <3>6, ProfilesKept
  <2> QED
    BY <2>1, <2>2
<1>9. ASSUME NEW x \in Items, AddElsewhere(x)
      PROVE  ProfilesInStep'
  BY <1>2, <1>9 DEF AddElsewhere
<1>10. ASSUME NEW i \in DOMAIN fetches, ItemsFetched(i) \/ ItemsMissing(i)
       PROVE  ProfilesInStep'
  BY <1>2, <1>10 DEF ItemsFetched, ItemsMissing, Fetched
<1>11. ASSUME NEW of \in {"edit", "finish"}, UpdateProfile(of)
       PROVE  ProfilesInStep'
  <2>1. CASE Trap("saving")
    BY <1>3, <1>11, <2>1, TypeParts, ProfileEffect
  <2>2. CASE ~Trap("saving")
    <3>1. PICK w \in Write :
            /\ w.of = of /\ w.rec \in Record /\ local # Nothing
            /\ w.rec.bought = local.bought /\ pending' = Append(pending, w)
            /\ troubled' = (troubled \/ Recording)
            /\ UNCHANGED <<local, mainQ, paid, unpaid, leaving, sheet>>
      BY <1>11, <2>2, TypeParts, ProfileEffect
    <3> QED
      BY <3>1, UpdateProfiles
  <2> QED
    BY <2>1, <2>2
<1> QED
  BY <1>4, <1>5, <1>6, <1>7, <1>8, <1>9, <1>10, <1>11, DismissedProfiles, CommitProfiles,
     CompletionProfiles DEF Next

-----------------------------------------------------------------------------
(* The versions of the purchase history, whatever fails or overlaps.        *)

(* Every version is an array. *)
LEMMA VersionsType == TypeOK => Versions \in SUBSET Bag
<1> SUFFICES ASSUME TypeOK PROVE Versions \in SUBSET Bag
  OBVIOUS
<1>1. Entries(pending) \in SUBSET Write /\ Entries(mainQ) \in SUBSET Completion
  BY EntriesOf DEF TypeOK
<1>2. /\ \A r \in Record : r.bought \in Bag
      /\ \A w \in Write : w.items \in Bag /\ w.rec \in Record \cup {Nothing}
      /\ \A c \in Completion : c.rec \in Record \cup {Nothing}
  BY DEF Record, Write, Completion
<1>3. Copied \in SUBSET (Record \cup {Nothing})
  BY <1>1, <1>2 DEF Copied, Copies, TypeOK
<1>4. Arrays(pending) \in SUBSET Bag
  BY <1>1, <1>2 DEF Arrays, Histories
<1>5. doc.bought \in Bag
  BY HistoriesType
<1> QED
  BY <1>2, <1>3, <1>4, <1>5 DEF Versions

(* The queues bring in the copies and arrays of a new write, and lose those *)
(* of the first.                                                            *)
LEMMA CopiesOf ==
    ASSUME NEW S, NEW q \in Seq(S)
    PROVE  /\ \A e \in S :
                /\ Copies(Append(q, e)) = Copies(q) \cup {e.rec}
                /\ Arrays(Append(q, e)) =
                     Arrays(q) \cup (IF e.of = "history" THEN {e.items} ELSE {})
           /\ q # <<>> => /\ Copies(Tail(q)) \subseteq Copies(q) /\ Head(q).rec \in Copies(q)
                          /\ Arrays(Tail(q)) \subseteq Arrays(q)
                          /\ Head(q).of = "history" => Head(q).items \in Arrays(q)
<1>1. ASSUME NEW e \in S
      PROVE  /\ Copies(Append(q, e)) = Copies(q) \cup {e.rec}
             /\ Arrays(Append(q, e)) = Arrays(q) \cup (IF e.of = "history" THEN {e.items} ELSE {})
  <2>1. Entries(Append(q, e)) = Entries(q) \cup {e}
    BY EntriesOf
  <2>2. Copies(Append(q, e)) = Copies(q) \cup {e.rec}
    BY <2>1 DEF Copies
  <2>3. CASE e.of = "history"
    <3>1. Histories(Append(q, e)) = Histories(q) \cup {e}
      BY <2>1, <2>3 DEF Histories
    <3> QED
      BY <2>2, <2>3, <3>1 DEF Arrays
  <2>4. CASE e.of # "history"
    <3>1. Histories(Append(q, e)) = Histories(q)
      BY <2>1, <2>4 DEF Histories
    <3> QED
      BY <2>2, <2>4, <3>1 DEF Arrays
  <2> QED
    BY <2>3, <2>4
<1>2. ASSUME q # <<>>
      PROVE  /\ Copies(Tail(q)) \subseteq Copies(q) /\ Head(q).rec \in Copies(q)
             /\ Arrays(Tail(q)) \subseteq Arrays(q)
             /\ Head(q).of = "history" => Head(q).items \in Arrays(q)
  <2>1. Entries(q) = Entries(Tail(q)) \cup {Head(q)}
    BY <1>2, EntriesOf
  <2> QED
    BY <2>1 DEF Copies, Arrays, Histories
<1> QED
  BY <1>1, <1>2

(* A write of something else brings in its copy only. *)
LEMMA OtherCopies ==
    ASSUME NEW q \in Seq(Write), NEW w \in Write, w.of # "history"
    PROVE  Copies(Append(q, w)) = Copies(q) \cup {w.rec} /\ Arrays(Append(q, w)) = Arrays(q)
<1>1. Entries(Append(q, w)) = Entries(q) \cup {w}
  BY EntriesOf
<1>2. Histories(Append(q, w)) = Histories(q)
  BY <1>1 DEF Histories
<1> QED
  BY <1>1, <1>2 DEF Copies, Arrays

(* A restart keeps those of the pending writes. *)
LEMMA CopiesUnwatched ==
    ASSUME NEW q \in Seq(Write)
    PROVE  Copies(Unwatched(q)) = Copies(q) /\ Arrays(Unwatched(q)) = Arrays(q)
<1> DEFINE r == Unwatched(q)
<1>1. /\ DOMAIN r = DOMAIN q
      /\ \A i \in DOMAIN q : r[i].of = q[i].of /\ r[i].items = q[i].items /\ r[i].rec = q[i].rec
  BY RestartKeeps
<1> HIDE DEF r
<1>2. Copies(r) = Copies(q)
  BY <1>1 DEF Copies, Entries
<1>3. Arrays(r) \subseteq Arrays(q) /\ Arrays(q) \subseteq Arrays(r)
  BY <1>1 DEF Arrays, Histories, Entries
<1> QED
  BY <1>2, <1>3 DEF r

(* When every version was one before, and the payments still cover those. *)
LEMMA NoneMoreKept ==
    ASSUME TypeOK, NoneMore, \A b \in Bag : Covered(b) => Covered(b)',
           doc'.bought \in Versions,
           \A r \in Copied' : r # Nothing => r.bought \in Versions,
           Arrays(pending') \subseteq Versions
    PROVE  NoneMore'
<1>1. Versions' \subseteq Versions
  BY DEF Versions
<1> QED
  BY <1>1, VersionsType DEF NoneMore

(* A step without a payment. *)
LEMMA CoveredKept ==
    ASSUME UNCHANGED <<paid, unpaid, leaving>>, leaving => UNCHANGED sheet
    PROVE  \A b : Covered(b) => Covered(b)'
  BY DEF Covered, Due

(* What is paid is due until the sheet is dismissed. *)
LEMMA CoveredPaid ==
    ASSUME TypeOK, PaymentDidComplete, NEW b \in Bag, Covered(b)
    PROVE  Covered(b)'
<1> SUFFICES ASSUME NEW x \in Items
             PROVE  b[x] + Due(x)' <= paid'[x] + unpaid'[x]
  BY DEF Covered
<1>1. sheet \in Bag /\ paid \in Bag /\ unpaid \in Bag
  BY DEF PaymentDidComplete, TypeOK
<1>2. paid'[x] = paid[x] + sheet[x] /\ unpaid'[x] = unpaid[x] /\ Due(x)' = sheet[x] /\ Due(x) = 0
  BY <1>1, BagType DEF PaymentDidComplete, Due
<1>3. b[x] + Due(x) <= paid[x] + unpaid[x]
  BY DEF Covered
<1>4. b[x] \in Nat /\ sheet[x] \in Nat /\ paid[x] \in Nat /\ unpaid[x] \in Nat
  BY <1>1 DEF Bag
<1> QED
  BY <1>2, <1>3, <1>4

(* Or for good, when the app ends or nobody is signed in. *)
LEMMA CoveredForgotten ==
    ASSUME TypeOK, LeavingHasSheet, NEW b \in Bag, Covered(b), ~leaving',
           UNCHANGED <<paid, unpaid>>
    PROVE  Covered(b)'
<1> SUFFICES ASSUME NEW x \in Items
             PROVE  b[x] + Due(x)' <= paid[x] + unpaid[x]
  BY DEF Covered
<1>1. b[x] + Due(x) <= paid[x] + unpaid[x] /\ Due(x)' = 0
  BY DEF Covered, Due
<1>2. leaving => sheet \in Bag
  BY DEF LeavingHasSheet, TypeOK
<1>3. b[x] \in Nat /\ Due(x) \in Nat /\ paid[x] \in Nat /\ unpaid[x] \in Nat
  BY <1>2 DEF Due, Bag, TypeOK
<1> QED
  BY <1>1, <1>3

(* The dismissal pays what is due, with what earlier attempts left behind.  *)
LEMMA CoveredRecorded ==
    ASSUME TypeOK, AttemptsAccounted, LeavingHasSheet, SheetDismissed, CurrentUser # Nothing,
           NEW b \in Bag, Covered(b)
    PROVE  Covered(b)' /\ \E n \in Bag : n = Plus(b, purchasedItemIds) /\ Covered(n)'
<1>1. leaving /\ ~leaving' /\ paid' = paid /\ unpaid' = Plus(unpaid, abandoned)
  BY DEF SheetDismissed
<1>2. PICK s \in Bag : s = sheet
  BY <1>1 DEF LeavingHasSheet, TypeOK
<1>3. PICK n \in Bag : n = Plus(b, purchasedItemIds) /\ purchasedItemIds \in Bag
  BY BagType DEF TypeOK
<1>4. ASSUME NEW x \in Items
      PROVE  /\ b[x] + Due(x)' <= paid'[x] + unpaid'[x]
             /\ n[x] + Due(x)' <= paid'[x] + unpaid'[x]
  <2>1. n[x] = b[x] + purchasedItemIds[x] /\ Due(x)' = 0
    BY <1>1, <1>3, BagType DEF Due
  <2>2. purchasedItemIds[x] = abandoned[x] + s[x]
    BY <1>1, <1>2 DEF AttemptsAccounted, OnSheet, LeavingHasSheet
  <2>3. b[x] + s[x] <= paid[x] + unpaid[x]
    BY <1>1, <1>2 DEF Covered, Due
  <2>4. abandoned \in Bag /\ unpaid \in Bag /\ paid \in Bag
    BY DEF TypeOK
  <2>5. unpaid'[x] = unpaid[x] + abandoned[x]
    BY <1>1, <2>4, BagType
  <2>6. /\ b[x] \in Nat /\ s[x] \in Nat /\ purchasedItemIds[x] \in Nat
        /\ abandoned[x] \in Nat /\ unpaid[x] \in Nat /\ paid[x] \in Nat
    BY <1>3, <2>4 DEF Bag
  <2> QED
    BY <1>1, <2>1, <2>2, <2>3, <2>5, <2>6
<1>5. Covered(b)' /\ Covered(n)'
  BY <1>4 DEF Covered
<1> QED
  BY <1>3, <1>5

(* The dismissal brings in one version: the record's with the purchase.     *)
LEMMA DismissedNoneMore ==
    ASSUME TypeOK, AttemptsAccounted, LeavingHasSheet, NoneMore, SheetDismissed
    PROVE  NoneMore'
<1>1. PICK w \in Write : /\ w = BasketWrite(Empty) /\ w.of = "basket" /\ w.rec = Nothing
  BY BagType, BasketWriteType
<1>2. /\ Recorded \in Seq(Write) /\ pending \in Seq(Write)
      /\ pending' = Unwatched(Recorded) \/ pending' = Append(Recorded, w)
      /\ CurrentUser # Nothing => local # Nothing
  BY <1>1, TypeParts, DismissedEffect DEF TypeOK
<1>3. /\ Copies(pending') \in {Copies(Recorded), Copies(Recorded) \cup {Nothing}}
      /\ Arrays(pending') = Arrays(Recorded)
  <2>1. CASE pending' = Unwatched(Recorded)
    BY <1>2, <2>1, CopiesUnwatched
  <2>2. CASE pending' = Append(Recorded, w)
    BY <1>1, <1>2, <2>2, OtherCopies
  <2> QED
    BY <1>2, <2>1, <2>2
<1>4. Copies(mainQ') \subseteq Copies(mainQ)
  <2>1. mainQ' = mainQ \/ mainQ' = <<>>
    BY DEF SheetDismissed
  <2>2. Copies(<<>>) = {}
    BY DEF Copies, Entries
  <2> QED
    BY <2>1, <2>2
<1>5. local' = local /\ doc' = doc /\ ~leaving'
  BY DEF SheetDismissed
<1>6. CASE CurrentUser = Nothing
  <2>1. Recorded = pending /\ UNCHANGED <<paid, unpaid>>
    BY <1>6 DEF Recorded, SheetDismissed
  <2>2. \A b \in Bag : Covered(b) => Covered(b)'
    BY <1>5, <2>1, CoveredForgotten
  <2>3. \A r \in Copied' : r # Nothing => r.bought \in Versions
    BY <1>3, <1>4, <1>5, <2>1 DEF Copied, Versions
  <2>4. doc'.bought \in Versions /\ Arrays(pending') \subseteq Versions
    BY <1>3, <1>5, <2>1 DEF Versions
  <2> QED
    BY <2>2, <2>3, <2>4, NoneMoreKept
<1>7. CASE CurrentUser # Nothing
  <2>1. PICK n \in Bag : n = Plus(local.bought, purchasedItemIds)
    BY <1>2, <1>7, HistoriesType, BagType DEF TypeOK
  <2>2. PICK h \in Write : /\ h = HistoryWrite /\ h.of = "history" /\ h.items = n
                           /\ h.rec.bought = n
    BY <1>2, <1>7, <2>1, TypeParts, HistoryWriteType
  <2>3. /\ Copies(Recorded) = Copies(pending) \cup {h.rec}
        /\ Arrays(Recorded) = Arrays(pending) \cup {n}
    BY <1>2, <1>7, <2>2, CopiesOf DEF Recorded
  <2>4. Versions' \subseteq Versions \cup {n}
    BY <1>3, <1>4, <1>5, <2>2, <2>3 DEF Versions, Copied
  <2>5. local.bought \in Versions /\ local.bought \in Bag
    BY <1>2, <1>7, HistoriesType DEF Versions, Copied
  <2>6. Covered(n)'
    <3>1. PICK b \in Bag : b = local.bought /\ Covered(b)
      BY <2>5 DEF NoneMore
    <3>2. PICK m \in Bag : m = Plus(b, purchasedItemIds) /\ Covered(m)'
      BY <1>7, <2>5, <3>1, CoveredRecorded
    <3>3. n = m
      BY <2>1, <3>1, <3>2
    <3> QED
      BY <3>2, <3>3
  <2>7. \A b \in Versions : Covered(b)'
    BY <1>7, CoveredRecorded, VersionsType DEF NoneMore
  <2> QED
    BY <2>4, <2>6, <2>7 DEF NoneMore
<1> QED
  BY <1>6, <1>7

(* What the server stores, and what completions bring, was pending. *)
LEMMA AnsweredNoneMore ==
    ASSUME TypeOK, NoneMore, Commit \/ RunCompletion
    PROVE  NoneMore'
<1>1. pending \in Seq(Write) /\ mainQ \in Seq(Completion)
  BY DEF TypeOK
<1>2. UNCHANGED <<paid, unpaid, leaving, sheet>>
  BY DEF Commit, RunCompletion
<1>3. \A b : Covered(b) => Covered(b)'
  BY <1>2, CoveredKept
<1>4. CASE Commit
  <2>1. PICK w \in Write, c \in Completion, ok \in BOOLEAN :
          /\ w = Head(pending) /\ pending # <<>> /\ pending' = Tail(pending) /\ c.rec = w.rec
          /\ mainQ' = IF w.live THEN Append(mainQ, c) ELSE mainQ
          /\ IF ok THEN Applied(w) ELSE UNCHANGED server
          /\ local' = local
    BY <1>4, CommitEffect
  <2>2. /\ Copies(pending') \subseteq Copies(pending) /\ w.rec \in Copies(pending)
        /\ Arrays(pending') \subseteq Arrays(pending)
        /\ w.of = "history" => w.items \in Arrays(pending)
    BY <1>1, <2>1, CopiesOf
  <2>3. Copies(mainQ') \subseteq Copies(mainQ) \cup {w.rec}
    BY <1>1, <2>1, CopiesOf
  <2>4. doc'.bought \in {doc.bought} \cup Arrays(pending)
    <3>1. Applied(w) \/ doc' = doc
      BY <2>1
    <3>2. doc \in Record /\ \A b : [doc EXCEPT !.bought = b].bought = b
      BY DEF TypeOK, Record
    <3>3. [doc EXCEPT !.onBoard = TRUE].bought = doc.bought
      BY <3>2 DEF Record
    <3> QED
      BY <2>2, <3>1, <3>2, <3>3 DEF Applied
  <2>5. doc'.bought \in Versions /\ Arrays(pending') \subseteq Versions
    BY <2>2, <2>4 DEF Versions
  <2>6. \A r \in Copied' : r # Nothing => r.bought \in Versions
    BY <2>1, <2>2, <2>3 DEF Versions, Copied
  <2> QED
    BY <1>3, <2>5, <2>6, NoneMoreKept
<1>5. CASE RunCompletion
  <2>1. /\ mainQ # <<>> /\ mainQ' = Tail(mainQ) /\ doc' = doc /\ pending' = pending
        /\ local' = local \/ local' = Head(mainQ).rec
    BY <1>5 DEF RunCompletion, UserUpdated, BasketUpdated
  <2>2. Copies(mainQ') \subseteq Copies(mainQ) /\ Head(mainQ).rec \in Copies(mainQ)
    BY <1>1, <2>1, CopiesOf
  <2>3. \A r \in Copied' : r # Nothing => r.bought \in Versions
    BY <2>1, <2>2 DEF Versions, Copied
  <2>4. doc'.bought \in Versions /\ Arrays(pending') \subseteq Versions
    BY <2>1 DEF Versions
  <2> QED
    BY <1>3, <2>3, <2>4, NoneMoreKept
<1> QED
  BY <1>4, <1>5

(* The end of the app brings in none. *)
LEMMA RestartNoneMore ==
    ASSUME TypeOK, LeavingHasSheet, NoneMore, Restarted
    PROVE  NoneMore'
<1>1. /\ pending \in Seq(Write) /\ pending' = Unwatched(pending) /\ mainQ' = <<>>
      /\ UNCHANGED <<doc, local, paid, unpaid>> /\ ~leaving'
  BY DEF TypeOK, Restarted, Unwatched
<1>2. Copies(pending') = Copies(pending) /\ Arrays(pending') = Arrays(pending)
  BY <1>1, CopiesUnwatched
<1>3. Copies(mainQ') = {}
  BY <1>1 DEF Copies, Entries
<1>4. \A b \in Bag : Covered(b) => Covered(b)'
  BY <1>1, CoveredForgotten
<1>5. \A r \in Copied' : r # Nothing => r.bought \in Versions
  BY <1>1, <1>2, <1>3 DEF Versions, Copied
<1>6. doc'.bought \in Versions /\ Arrays(pending') \subseteq Versions
  BY <1>1, <1>2 DEF Versions
<1> QED
  BY <1>4, <1>5, <1>6, NoneMoreKept

(* No step brings in a version that holds more. *)
LEMMA NoneMoreStep ==
    ASSUME TypeOK, AttemptsAccounted, LeavingHasSheet, NoneMore, Next
    PROVE  NoneMore'
<1>1. pending \in Seq(Write) /\ mainQ \in Seq(Completion)
  BY DEF TypeOK
<1>2. ASSUME UNCHANGED <<doc, pending, mainQ>>, local' \in {local, Nothing},
             \A b \in Bag : Covered(b) => Covered(b)'
      PROVE  NoneMore'
  <2>1. \A r \in Copied' : r # Nothing => r.bought \in Versions
    BY <1>2 DEF Versions, Copied
  <2>2. doc'.bought \in Versions /\ Arrays(pending') \subseteq Versions
    BY <1>2 DEF Versions
  <2> QED
    BY <1>2, <2>1, <2>2, NoneMoreKept
<1>3. ASSUME UNCHANGED <<doc, pending, mainQ, paid, unpaid, leaving>>, local' \in {local, Nothing},
             leaving => UNCHANGED sheet
      PROVE  NoneMore'
  BY <1>2, <1>3, CoveredKept
<1>4. ASSUME UNCHANGED <<doc, local, mainQ, paid, unpaid, leaving, sheet>>, NEW w \in Write,
             pending' = Append(pending, w), w.of # "history",
             w.rec = Nothing \/ (local # Nothing /\ w.rec.bought = local.bought)
      PROVE  NoneMore'
  <2>1. Copies(pending') = Copies(pending) \cup {w.rec} /\ Arrays(pending') = Arrays(pending)
    BY <1>1, <1>4, OtherCopies
  <2>2. \A r \in Copied' : r # Nothing => r.bought \in Versions
    BY <1>4, <2>1 DEF Versions, Copied
  <2>3. doc'.bought \in Versions /\ Arrays(pending') \subseteq Versions
    BY <1>4, <2>1 DEF Versions
  <2> QED
    BY <1>4, <2>2, <2>3, CoveredKept, NoneMoreKept
<1>5. CASE Appear \/ PaymentDidCancel \/ Revoked \/ Reloaded \/ LogOut
  BY <1>3, <1>5 DEF Appear, PaymentDidCancel, Revoked, Reloaded, LogOut
<1>6. CASE CheckoutButtonPressed
  <2>1. Free /\ ~leaving
    BY <1>6 DEF CheckoutButtonPressed, LeavingHasSheet, Free
  <2> QED
    BY <1>3, <1>6, <2>1, RestartNoneMore DEF CheckoutButtonPressed, Trap
<1>7. CASE PaymentDidComplete
  <2>1. UNCHANGED <<doc, local, pending, mainQ>>
    BY <1>7 DEF PaymentDidComplete
  <2> QED
    BY <1>2, <1>7, <2>1, CoveredPaid
<1>8. CASE LogIn
  <2>1. /\ UNCHANGED <<doc, pending, mainQ, paid, unpaid, leaving, sheet>>
        /\ local'.bought = SeenIn(pending, "history", doc.bought)
    BY <1>8, SeenPending DEF LogIn
  <2>2. local'.bought \in {doc.bought} \cup Arrays(pending)
    BY <1>1, <2>1, SeenShows DEF Arrays, Histories, Entries
  <2>3. \A r \in Copied' : r # Nothing => r.bought \in Versions
    BY <2>1, <2>2 DEF Versions, Copied
  <2>4. doc'.bought \in Versions /\ Arrays(pending') \subseteq Versions
    BY <2>1 DEF Versions
  <2> QED
    BY <2>1, <2>3, <2>4, CoveredKept, NoneMoreKept
<1>9. CASE Crash
  BY <1>9, RestartNoneMore DEF Crash
<1>10. ASSUME NEW x \in Items, DeleteRow(x)
       PROVE  NoneMore'
  <2>1. CASE basket = Nothing
    BY <1>10, <2>1, RestartNoneMore DEF DeleteRow, Trap
  <2>2. CASE basket # Nothing
    <3>1. PICK b \in Bag : b = Without(basket, x)
      BY <2>2, BagType DEF TypeOK
    <3>2. PICK w \in Write : w = BasketWrite(b) /\ w.of = "basket" /\ w.rec = Nothing
      BY BasketWriteType
    <3>3. /\ pending' = Append(pending, w)
          /\ UNCHANGED <<doc, local, mainQ, paid, unpaid, leaving, sheet>>
      BY <1>10, <2>2, <3>1, <3>2 DEF DeleteRow
    <3> QED
      BY <1>4, <3>2, <3>3
  <2> QED
    BY <2>1, <2>2
<1>11. ASSUME NEW x \in Items, AddElsewhere(x)
       PROVE  NoneMore'
  BY <1>3, <1>11 DEF AddElsewhere
<1>12. ASSUME NEW i \in DOMAIN fetches, ItemsFetched(i) \/ ItemsMissing(i)
       PROVE  NoneMore'
  BY <1>3, <1>12 DEF ItemsFetched, ItemsMissing, Fetched
<1>13. ASSUME NEW of \in {"edit", "finish"}, UpdateProfile(of)
       PROVE  NoneMore'
  <2>1. CASE Trap("saving")
    BY <2>1, RestartNoneMore DEF Trap
  <2>2. CASE ~Trap("saving")
    <3>1. PICK w \in Write :
            /\ w.of = of /\ local # Nothing /\ w.rec.bought = local.bought
            /\ pending' = Append(pending, w)
            /\ UNCHANGED <<doc, local, mainQ, paid, unpaid, leaving, sheet>>
      BY <1>13, <2>2, TypeParts, ProfileEffect
    <3>2. w.of # "history"
      BY <1>13, <3>1
    <3> QED
      BY <1>4, <3>1, <3>2
  <2> QED
    BY <2>1, <2>2
<1> QED
  BY <1>5, <1>6, <1>7, <1>8, <1>9, <1>10, <1>11, <1>12, <1>13, DismissedNoneMore,
     AnsweredNoneMore DEF Next

(* The history never holds more than what was paid for and what the         *)
(* attempts before each payment left behind, and between purchases all of   *)
(* that, unless a payment could not be recorded, or a purchase or an update *)
(* of the profile overlapped with recording the one before.                 *)
THEOREM HistoryIsAccounted == Spec => []HistoryAccounted
<1> DEFINE Inv == LeavingHasSheet /\ HistoryInStep /\ ProfilesInStep /\ NoneMore
<1>1. Init => Inv
  <2> SUFFICES ASSUME Init PROVE Inv
    OBVIOUS
  <2>1. Entries(pending) = {} /\ Entries(mainQ) = {}
    BY DEF Init, Entries
  <2>2. /\ Histories(pending) = {} /\ Histories(mainQ) = {}
        /\ Profiles(pending) = {} /\ Profiles(mainQ) = {}
        /\ Copies(pending) = {} /\ Copies(mainQ) = {} /\ Arrays(pending) = {}
    BY <2>1 DEF Histories, Profiles, Copies, Arrays
  <2>3. ~leaving /\ local = doc /\ paid = Empty /\ unpaid = Empty /\ doc.bought = Empty
    BY DEF Init
  <2>4. Accounts(Empty) /\ Covered(Empty)
    <3> SUFFICES ASSUME NEW x \in Items
                 PROVE  /\ Empty[x] + Due(x) = paid[x] + unpaid[x]
                        /\ Empty[x] + Due(x) <= paid[x] + unpaid[x]
      BY DEF Accounts, Covered
    <3>1. Empty[x] = 0 /\ Due(x) = 0
      BY <2>3, BagType DEF Due
    <3> QED
      BY <2>3, <3>1
  <2>5. Versions = {Empty}
    BY <2>2, <2>3, InitType, RecordType DEF Versions, Copied, TypeOK
  <2>6. NoneMore
    BY <2>4, <2>5 DEF NoneMore
  <2>7. ProfilesInStep
    BY <2>2, FirstAlone DEF ProfilesInStep
  <2> QED
    BY <2>2, <2>3, <2>4, <2>6, <2>7 DEF LeavingHasSheet, HistoryInStep
<1>2. TypeOK /\ AttemptsAccounted /\ Inv /\ [Next]_vars => Inv'
  <2>1. ASSUME TypeOK, Inv, UNCHANGED vars
        PROVE  Inv'
    <3>1. LeavingHasSheet' /\ (Recording' <=> Recording)
      BY <2>1 DEF vars, LeavingHasSheet, Recording
    <3>2. \A b : (Accounts(b) <=> Accounts(b)') /\ (Covered(b) => Covered(b)')
      BY <2>1, AccountsKept, CoveredKept DEF vars
    <3>3. HistoryInStep'
      BY <2>1, <3>2, HistoryKept DEF vars, HistoryInStep
    <3>4. ProfilesInStep'
      BY <2>1, <3>2, ProfilesKept DEF vars, ProfilesInStep
    <3>5. NoneMore'
      <4>1. Versions' = Versions
        BY <2>1 DEF vars, Versions, Copied, Copies, Arrays, Histories, Entries
      <4> QED
        BY <2>1, <3>2, <4>1 DEF NoneMore
    <3> QED
      BY <3>1, <3>3, <3>4, <3>5
  <2> QED
    BY <2>1, LeavingStep, HistoryStep, ProfilesStep, NoneMoreStep
<1>3. Inv /\ TypeOK => HistoryAccounted
  <2> SUFFICES ASSUME Inv, TypeOK, NEW x \in Items
               PROVE  /\ doc.bought[x] <= paid[x] + unpaid[x]
                      /\ ~troubled /\ ~Recording /\ ~leaving =>
                            doc.bought[x] = paid[x] + unpaid[x]
    BY DEF HistoryAccounted
  <2>1. doc.bought[x] \in Nat /\ paid[x] \in Nat /\ unpaid[x] \in Nat
    BY HistoriesType DEF Bag, TypeOK
  <2>2. doc.bought[x] <= paid[x] + unpaid[x]
    <3>1. doc.bought[x] + Due(x) <= paid[x] + unpaid[x]
      BY DEF NoneMore, Versions, Covered
    <3>2. Due(x) \in Nat
      BY DEF Due, LeavingHasSheet, TypeOK, Bag
    <3> QED
      BY <2>1, <3>1, <3>2
  <2>3. ASSUME ~troubled, ~Recording, ~leaving
        PROVE  doc.bought[x] = paid[x] + unpaid[x]
    <3>1. Accounts(doc.bought)
      BY <2>3, RecordingHistories DEF HistoryInStep
    <3> QED
      BY <2>1, <2>3, <3>1 DEF Accounts, Due
  <2> QED
    BY <2>2, <2>3
<1> QED
  BY <1>1, <1>2, <1>3, TypeCorrect, AttemptsAreAccounted, PTL DEF Spec

-----------------------------------------------------------------------------
(* The basket that is emptied.                                              *)

(* The user's basket is an array. *)
LEMMA MineType == TypeOK => Mine \in Bag /\ Mine = SeenIn(pending, "basket", stored)
  BY SeenPending, SeenType DEF TypeOK, Mine

(* And stays what it is while nothing writes it. *)
LEMMA MineIs == Mine' = SeenIn(pending', "basket", stored')
  BY DEF Mine, Seen, SeenIn

(* Any array holds at least nothing. *)
LEMMA EmptyBelow == \A b \in Bag : Below(Empty, b)
<1> SUFFICES ASSUME NEW b \in Bag, NEW x \in Items PROVE Empty[x] <= b[x]
  BY DEF Below
<1>1. Empty[x] = 0 /\ b[x] \in Nat
  BY BagType DEF Bag
<1> QED
  BY <1>1

(* When the lists stay, so does what is known of them. *)
LEMMA BasketKept ==
    ASSUME BasketInStep, ~behind, Mine' = Mine,
           UNCHANGED <<basket, allItems, fetches>>,
           enabled' => enabled \/ allItems # Empty,
           sheet' # Nothing => sheet' = sheet \/ (sheet' = allItems /\ enabled)
    PROVE  BasketInStep'
  BY DEF BasketInStep

(* The end of the app leaves nothing to know. *)
LEMMA NothingShown ==
    ASSUME basket' = Nothing, allItems' = Empty, ~enabled', fetches' = <<>>, sheet' = Nothing
    PROVE  BasketInStep'
<1>1. Entries(fetches') = {}
  BY DEF Entries
<1> QED
  BY <1>1 DEF BasketInStep

(* A row that is swiped away is taken from every copy. *)
LEMMA DeleteInStep ==
    ASSUME TypeOK, BasketInStep, NEW x \in Items, DeleteRow(x)
    PROVE  BasketInStep'
<1>1. CASE basket = Nothing
  BY <1>1, NothingShown DEF DeleteRow, Trap, Restarted
<1>2. CASE basket # Nothing
  <2> SUFFICES ASSUME ~behind' PROVE BasketInStep'
    BY DEF BasketInStep
  <2>1. PICK b \in Bag : b = basket
    BY <1>2 DEF TypeOK
  <2>2. PICK w \in Write : w = BasketWrite(Without(b, x)) /\ w.of = "basket" /\ w.items = Without(b, x)
    BY <2>1, BagType, BasketWriteType
  <2>3. /\ pending' = Append(pending, w) /\ pending \in Seq(Write)
        /\ basket' = Without(b, x) /\ allItems' = Without(allItems, x)
        /\ allItems[x] > 0 /\ ~behind /\ sheet' = Nothing /\ UNCHANGED fetches
    BY <1>2, <2>1, <2>2 DEF DeleteRow, Free, TypeOK
  <2>4. Mine' = Without(b, x)
    BY <2>2, <2>3, MineIs, SeenAppend
  <2>5. b = Mine /\ Below(b, allItems) /\ \A c \in Entries(fetches) : Below(b, c)
    <3>1. allItems # Empty
      <4>1. Empty[x] = 0
        BY BagType
      <4> QED
        BY <2>3, <4>1
    <3> QED
      BY <2>1, <2>3, <3>1, <1>2 DEF BasketInStep
  <2>6. b \in Bag /\ allItems \in Bag /\ Entries(fetches) \subseteq Bag
    BY EntriesOf DEF TypeOK
  <2>7. Below(Without(b, x), Without(allItems, x))
    <3> SUFFICES ASSUME NEW y \in Items PROVE Without(b, x)[y] <= Without(allItems, x)[y]
      BY DEF Below
    <3>1. b[y] \in Nat /\ allItems[y] \in Nat /\ b[y] <= allItems[y]
      BY <2>5, <2>6 DEF Below, Bag
    <3>2. CASE y = x
      BY <2>3, <2>6, <3>1, <3>2 DEF Without, Bag
    <3>3. CASE y # x
      BY <2>3, <2>6, <3>1, <3>3 DEF Without, Bag
    <3> QED
      BY <3>2, <3>3
  <2>8. ASSUME NEW c \in Entries(fetches)
        PROVE  Below(Without(b, x), c)
    <3> SUFFICES ASSUME NEW y \in Items PROVE Without(b, x)[y] <= c[y]
      BY DEF Below
    <3>1. b[y] \in Nat /\ c[y] \in Nat /\ b[y] <= c[y] /\ Without(b, x)[y] <= b[y]
          /\ Without(b, x)[y] \in Nat
      BY <2>5, <2>6, <2>8 DEF Below, Bag, Without
    <3> QED
      BY <3>1
  <2> QED
    BY <2>3, <2>4, <2>7, <2>8 DEF BasketInStep
<1> QED
  BY <1>1, <1>2

(* A payment empties every copy. *)
LEMMA DismissedInStep ==
    ASSUME TypeOK, BasketInStep, SheetDismissed
    PROVE  BasketInStep'
<1>1. CASE basket = Nothing
  BY <1>1, NothingShown DEF SheetDismissed
<1>2. CASE basket # Nothing
  <2>1. PICK w \in Write : w = BasketWrite(Empty) /\ w.of = "basket" /\ w.items = Empty
    BY BagType, BasketWriteType
  <2>2. Recorded \in Seq(Write) /\ pending' = Append(Recorded, w)
    BY <1>2, <2>1, TypeParts, DismissedEffect
  <2>3. Mine' = Empty
    BY <2>1, <2>2, MineIs, SeenAppend
  <2>4. \A b \in Bag : Below(Empty, b)
    BY EmptyBelow
  <2>5. /\ basket' = Empty /\ allItems' = Empty /\ sheet' = Nothing /\ UNCHANGED fetches
    BY <1>2 DEF SheetDismissed
  <2>6. Entries(fetches) \subseteq Bag
    BY EntriesOf DEF TypeOK
  <2> QED
    BY <2>3, <2>4, <2>5, <2>6, BagType DEF BasketInStep
<1> QED
  BY <1>1, <1>2

(* Loading the items of the basket the user sees. *)
LEMMA LoadInStep ==
    ASSUME TypeOK, BasketInStep, NEW b \in Bag \cup {Nothing}, GetBasketItems(b),
           b = Nothing \/ b = Mine, basket' = b, Mine' = Mine, UNCHANGED <<sheet, behind>>
    PROVE  BasketInStep'
<1> SUFFICES ASSUME ~behind PROVE BasketInStep'
  BY DEF BasketInStep
<1>1. CASE b = Nothing
  <2>1. UNCHANGED <<allItems, enabled, fetches>>
    BY <1>1, NothingAssumption, BagType, LoadingItems
  <2> QED
    BY <1>1, <2>1 DEF BasketInStep
<1>2. CASE b # Nothing /\ b = Empty /\ allItems' = Empty /\ UNCHANGED fetches
  <2>1. Below(Empty, Empty)
    BY BagType, EmptyBelow
  <2> QED
    BY <1>2, <2>1 DEF BasketInStep
<1>3. CASE /\ b \in Bag /\ b # Nothing /\ fetches' = Append(fetches, b)
           /\ UNCHANGED <<allItems, enabled>>
  <2>1. Entries(fetches') = Entries(fetches) \cup {b}
    BY <1>3, EntriesOf DEF TypeOK
  <2>2. Below(b, b)
    BY <1>3 DEF Below, Bag
  <2> QED
    BY <1>3, <2>1, <2>2 DEF BasketInStep
<1> QED
  BY <1>1, <1>2, <1>3, LoadingItems

(* The items that come; when they are all there is, the user sees it. *)
LEMMA FetchedInStep ==
    ASSUME TypeOK, BasketInStep, NEW i \in DOMAIN fetches, ItemsFetched(i) \/ ItemsMissing(i)
    PROVE  BasketInStep'
<1> SUFFICES ASSUME ~behind' PROVE BasketInStep'
  BY DEF BasketInStep
<1>1. /\ allItems' = fetches[i] /\ UNCHANGED <<basket, sheet, pending, stored>>
      /\ fetches' = SubSeq(fetches, 1, i - 1) \o SubSeq(fetches, i + 1, Len(fetches))
      /\ ~behind \/ InStep'
  BY DEF ItemsFetched, ItemsMissing, Fetched
<1>2. Mine' = Mine
  BY <1>1 DEF Mine, Seen
<1>3. fetches \in Seq(Bag) /\ fetches[i] \in Entries(fetches)
  BY DEF TypeOK, Entries
<1>4. Entries(fetches') \subseteq Entries(fetches)
  BY <1>1, <1>3, EntriesWithout
<1>5. CASE ~behind
  BY <1>1, <1>2, <1>3, <1>4, <1>5 DEF BasketInStep
<1>6. CASE InStep'
  <2>1. /\ sheet' = Nothing /\ fetches' = <<>>
        /\ {allItems', basket'} = {Mine'}
    BY <1>6 DEF InStep, Free, Mine
  <2>2. allItems' = Mine' /\ basket' = Mine' /\ Entries(fetches') = {}
    BY <2>1 DEF Entries
  <2>3. Below(Mine', Mine')
    BY <1>2, MineType DEF Below, Bag
  <2> QED
    BY <2>1, <2>2, <2>3 DEF BasketInStep
<1> QED
  BY <1>1, <1>5, <1>6

(* What Firestore applies was seen before. *)
LEMMA CommitInStep ==
    ASSUME TypeOK, BasketInStep, Commit
    PROVE  BasketInStep'
<1> SUFFICES ASSUME ~behind' PROVE BasketInStep'
  BY DEF BasketInStep
<1>1. PICK w \in Write, ok \in BOOLEAN :
        /\ w = Head(pending) /\ pending # <<>> /\ pending' = Tail(pending)
        /\ IF ok THEN Applied(w) /\ UNCHANGED behind
           ELSE behind' = (behind \/ w.of = "basket") /\ UNCHANGED server
        /\ UNCHANGED <<basket, allItems, enabled, fetches, sheet>>
  BY CommitEffect
<1>2. pending \in Seq(Write) /\ ~behind
  BY <1>1 DEF TypeOK
<1>3. IF w.of = "basket" THEN stored' = w.items ELSE stored' = stored
  <2>1. CASE ok
    BY <1>1, <2>1 DEF Applied
  <2>2. CASE ~ok
    BY <1>1, <2>2
  <2> QED
    BY <2>1, <2>2
<1>4. Mine' = Mine
  BY <1>1, <1>2, <1>3, MineType, MineIs, SeenTail
<1> QED
  BY <1>1, <1>2, <1>4, BasketKept

(* Every copy of the basket that can be paid for holds what the basket      *)
(* holds, while the user is not behind.                                     *)
LEMMA BasketStep ==
    ASSUME TypeOK, BasketInStep, Next
    PROVE  BasketInStep'
<1>1. ASSUME UNCHANGED <<pending, stored, basket, allItems, fetches, behind>>,
             enabled' => enabled \/ allItems # Empty,
             sheet' # Nothing => sheet' = sheet \/ (sheet' = allItems /\ enabled)
      PROVE  BasketInStep'
  <2>1. Mine' = Mine
    BY <1>1 DEF Mine, Seen
  <2> QED
    BY <1>1, <2>1, BasketKept DEF BasketInStep
<1>2. CASE Appear
  BY <1>1, <1>2 DEF Appear, ShowTotals
<1>3. CASE CheckoutButtonPressed
  BY <1>1, <1>3, NothingShown DEF CheckoutButtonPressed, PayButtonPressed, Trap, Restarted
<1>4. CASE PaymentDidCancel \/ PaymentDidComplete \/ LogOut \/ LogIn \/ Revoked
  BY <1>1, <1>4 DEF PaymentDidCancel, PaymentDidComplete, LogOut, LogIn, Revoked
<1>5. CASE Reloaded
  <2>1. PICK b \in Bag \cup {Nothing} : b = basket' /\ (b = Nothing \/ b = Mine)
    BY <1>5, MineType DEF Reloaded, Mine
  <2>2. GetBasketItems(b) /\ UNCHANGED <<pending, stored, sheet, behind>>
    BY <1>5, <2>1 DEF Reloaded
  <2>3. Mine' = Mine
    BY <2>2 DEF Mine, Seen
  <2> QED
    BY <2>1, <2>2, <2>3, LoadInStep
<1>6. CASE RunCompletion
  <2>1. UNCHANGED <<pending, stored, basket, sheet, behind>>
    BY <1>6 DEF RunCompletion
  <2>2. Mine' = Mine
    BY <2>1 DEF Mine, Seen
  <2>3. CASE UserUpdated(Head(mainQ))
    BY <1>1, <2>1, <2>3 DEF UserUpdated
  <2>4. CASE BasketUpdated(Head(mainQ))
    <3>1. CASE behind
      BY <2>1, <3>1 DEF BasketInStep
    <3>2. CASE ~behind
      <4>1. basket = Nothing \/ basket = Mine
        BY <3>2 DEF BasketInStep
      <4>2. PICK b \in Bag \cup {Nothing} : b = basket
        BY DEF TypeOK
      <4>3. GetBasketItems(b)
        BY <2>4, <4>2 DEF BasketUpdated
      <4> QED
        BY <2>1, <2>2, <4>1, <4>2, <4>3, LoadInStep
    <3> QED
      BY <3>1, <3>2
  <2> QED
    BY <1>6, <2>3, <2>4 DEF RunCompletion
<1>7. CASE Crash
  BY <1>7, NothingShown DEF Crash, Restarted
<1>8. ASSUME NEW x \in Items, AddElsewhere(x)
      PROVE  BasketInStep'
  BY <1>8 DEF AddElsewhere, BasketInStep
<1>9. ASSUME NEW of \in {"edit", "finish"}, UpdateProfile(of)
      PROVE  BasketInStep'
  <2>1. CASE Trap("saving")
    BY <2>1, NothingShown DEF Trap, Restarted
  <2>2. CASE ~Trap("saving")
    <3>1. PICK w \in Write :
            /\ w.of = of /\ pending' = Append(pending, w)
            /\ UNCHANGED <<stored, basket, allItems, enabled, fetches, sheet, behind>>
      BY <1>9, <2>2, TypeParts, ProfileEffect
    <3>2. pending \in Seq(Write) /\ w.of # "basket"
      BY <1>9, <3>1 DEF TypeOK
    <3>3. Mine' = Mine
      BY <3>1, <3>2, MineType, MineIs, SeenAppend
    <3> QED
      BY <3>1, <3>3, BasketKept DEF BasketInStep
  <2> QED
    BY <2>1, <2>2
<1> QED
  BY <1>2, <1>3, <1>4, <1>5, <1>6, <1>7, <1>8, <1>9, DismissedInStep, DeleteInStep,
     FetchedInStep, CommitInStep DEF Next

(* Emptying the basket after a payment drops nothing that was not paid for. *)
THEOREM EmptiesThePaid == Spec => []EmptiesWhatWasPaid
<1>1. Init => LeavingHasSheet /\ BasketInStep
  <2> SUFFICES ASSUME Init PROVE LeavingHasSheet /\ BasketInStep
    OBVIOUS
  <2>1. ~leaving /\ basket = Nothing /\ allItems = Empty /\ ~enabled /\ sheet = Nothing
    BY DEF Init
  <2>2. Entries(fetches) = {}
    BY DEF Init, Entries
  <2> QED
    BY <2>1, <2>2 DEF LeavingHasSheet, BasketInStep
<1>2. TypeOK /\ LeavingHasSheet /\ BasketInStep /\ [Next]_vars
        => LeavingHasSheet' /\ BasketInStep'
  <2>1. ASSUME LeavingHasSheet, BasketInStep, UNCHANGED vars
        PROVE  LeavingHasSheet' /\ BasketInStep'
    <3>1. Mine' = Mine /\ LeavingHasSheet'
      BY <2>1 DEF vars, Mine, Seen, LeavingHasSheet
    <3> QED
      BY <2>1, <3>1, BasketKept DEF vars, BasketInStep
  <2> QED
    BY <2>1, LeavingStep, BasketStep
<1>3. LeavingHasSheet /\ BasketInStep => EmptiesWhatWasPaid
  BY DEF LeavingHasSheet, BasketInStep, EmptiesWhatWasPaid, Below, Mine
<1> QED
  BY <1>1, <1>2, <1>3, TypeCorrect, PTL DEF Spec

=============================================================================
