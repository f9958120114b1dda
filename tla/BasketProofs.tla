---------------------------- MODULE BasketProofs ----------------------------
(* What Basket guarantees for any phones, items and bounds.                 *)
EXTENDS Basket, SequenceLemmas

(* Every group of variables that an action leaves alone is seen through.    *)
USE DEF firestore, view, bounds, history

-----------------------------------------------------------------------------
(* The operators.                                                           *)

(* The bags that the actions build are bags. *)
LEMMA BagType ==
    /\ Empty \in Bag
    /\ \A b \in Bag, x \in Items : With(b, x) \in Bag /\ Without(b, x) \in Bag
    /\ \A b \in Bag, x \in Items, y \in Items :
          /\ With(b, x)[y] = IF x = y THEN b[y] + 1 ELSE b[y]
          /\ Without(b, x)[y] <= b[y]
  BY DEF Bag, Empty, With, Without

(* What a phone sees of a document is the document, or what one of its     *)
(* pending writes of that document wrote.                                   *)
LEMMA SeenShows ==
    ASSUME NEW docs \in Docs, NEW q \in Seq(Write), NEW b \in Ids
    PROVE  \/ Seen(docs, q, b) = docs[b]
           \/ \E i \in DOMAIN q : q[i].id = b /\ Seen(docs, q, b) = q[i].items
<1> DEFINE of == {i \in DOMAIN q : q[i].id = b}
           last == CHOOSE i \in DOMAIN q :
                     /\ q[i].id = b
                     /\ \A j \in DOMAIN q : q[j].id = b => j <= i
<1>1. CASE \E i \in DOMAIN q : q[i].id = b /\ (docs[b] # NoBasket \/ q[i].op = "set")
  <2>1. of \in SUBSET (1..Len(q)) /\ Len(q) \in Nat /\ of # {}
    BY <1>1
  <2>2. \E i \in of : \A j \in of : j <= i
    BY <2>1, Greatest
  <2>3. last \in DOMAIN q /\ q[last].id = b
    BY <2>2
  <2>4. Seen(docs, q, b) = q[last].items
    BY <1>1 DEF Seen
  <2> QED
    BY <2>3, <2>4
<1>2. CASE ~ \E i \in DOMAIN q : q[i].id = b /\ (docs[b] # NoBasket \/ q[i].op = "set")
  BY <1>2 DEF Seen
<1> QED
  BY <1>1, <1>2

(* What a phone sees is a collection of baskets. *)
LEMMA OverlayType ==
    ASSUME NEW docs \in Docs, NEW q \in Seq(Write)
    PROVE  Overlay(docs, q) \in Docs
<1>1. \A i \in DOMAIN q : q[i].items \in Bag
  <2>1. \A i \in DOMAIN q : q[i] \in Write
    OBVIOUS
  <2> QED
    BY <2>1 DEF Write
<1>2. \A b \in Ids : Seen(docs, q, b) \in Bag \cup {NoBasket}
  BY <1>1, SeenShows DEF Docs
<1> QED
  BY <1>2 DEF Docs, Overlay

(* The first document of a snapshot is one of its documents, or nil when    *)
(* there is none.                                                           *)
LEMMA FirstOfShows ==
    ASSUME NEW docs \in Docs, NEW f \in FirstOf(docs)
    PROVE  \/ f = NoBasket /\ \A b \in Ids : docs[b] = NoBasket
           \/ \E b \in Ids : /\ docs[b] # NoBasket /\ f = [id |-> b, items |-> docs[b]]
                             /\ f \in Object /\ f # NoBasket
<1> DEFINE there == {b \in Ids : docs[b] # NoBasket}
<1>1. CASE there = {}
  BY <1>1 DEF FirstOf
<1>2. CASE there # {}
  <2>1. PICK b \in there : f = [id |-> b, items |-> docs[b]]
    BY <1>2 DEF FirstOf
  <2>2. b \in Ids /\ docs[b] # NoBasket /\ docs[b] \in Bag
    BY <2>1 DEF Docs
  <2>3. f \in Object
    BY <2>1, <2>2 DEF Object
  <2> QED
    BY <2>1, <2>2, <2>3, NoBasketAssumption DEF Object
<1> QED
  BY <1>1, <1>2

(* A restart keeps the pending writes, but for their completions. *)
LEMMA RestartKeeps ==
    ASSUME NEW q \in Seq(Write)
    PROVE  LET r == [i \in DOMAIN q |-> [q[i] EXCEPT !.row = FALSE]]
           IN  /\ r \in Seq(Write) /\ DOMAIN r = DOMAIN q
               /\ \A i \in DOMAIN q : /\ r[i].id = q[i].id /\ r[i].items = q[i].items
                                      /\ r[i].op = q[i].op /\ r[i].row = FALSE
<1> DEFINE r == [i \in DOMAIN q |-> [q[i] EXCEPT !.row = FALSE]]
<1>1. DOMAIN q = 1..Len(q) /\ Len(q) \in Nat /\ \A i \in DOMAIN q : q[i] \in Write
  OBVIOUS
<1>2. \A m \in Write : LET f == [m EXCEPT !.row = FALSE]
                       IN  f \in Write /\ f.id = m.id /\ f.items = m.items /\ f.op = m.op
                           /\ f.row = FALSE
  BY DEF Write
<1>3. r \in [1..Len(q) -> Write]
  BY <1>1, <1>2
<1>4. r \in Seq(Write)
  BY <1>1, <1>3, SeqDef
<1> QED
  BY <1>1, <1>2, <1>4

(* What remains of an array when an item is missing is an array. *)
LEMMA PartsType ==
    ASSUME NEW b \in Bag, NEW c \in Parts(b)
    PROVE  c \in Bag
<1>1. \A x \in Items : b[x] \in Nat
  BY DEF Bag
<1>2. UNION {0..b[x] : x \in Items} \subseteq Nat
  BY <1>1
<1> QED
  BY <1>2 DEF Parts, Bag

-----------------------------------------------------------------------------
(* Types.                                                                   *)

(* At first every bag is of zeros and ones, and nothing is on its way. *)
LEMMA InitType == Init => TypeOK
<1> SUFFICES ASSUME Init PROVE TypeOK
  OBVIOUS
<1>1. [Items -> {0, 1}] \subseteq Bag /\ Empty \in Bag
  BY DEF Bag, Empty
<1>2. used \in SUBSET Ids /\ server \in Docs /\ added \in [Ids -> Bag] /\ wanted \in Bag
  BY <1>1 DEF Init, Docs
<1>3. cache \in [Phones -> Docs]
  <2>1. [i \in Ids |-> NoBasket] \in Docs
    BY DEF Docs
  <2> QED
    BY <2>1 DEF Init
<1>4. asked \in [Phones -> [Items \cup {Reload} -> Nat]]
  BY DEF Init
<1>5. /\ pending \in [Phones -> Seq(Write)] /\ mainQ \in [Phones -> Seq(Callback)]
      /\ fetches \in [Phones -> Seq(Bag)]
  BY DEF Init
<1>6. /\ basket \in [Phones -> Object \cup {NoBasket}] /\ allItems \in [Phones -> Bag]
      /\ screen \in [Phones -> {"basket", "item"}]
  BY <1>1 DEF Init
<1>7. taps \in [Phones -> Nat] /\ faults \in [Phones -> Nat] /\ disturbed \in BOOLEAN
  BY DEF Init
<1> QED
  BY <1>2, <1>3, <1>4, <1>5, <1>6, <1>7 DEF TypeOK

(* A phone's counters. *)
LEMMA TapType ==
    ASSUME TypeOK, NEW d \in Phones, Tap(d)
    PROVE  taps' \in [Phones -> Nat] /\ taps' = [taps EXCEPT ![d] = taps[d] + 1]
  BY DEF TypeOK, Tap

(* A fault is one more fault. *)
LEMMA FaultType ==
    ASSUME TypeOK, NEW d \in Phones, Fault(d)
    PROVE  faults' \in [Phones -> Nat]
  BY DEF TypeOK, Fault

(* A question, a callback, a write that is added to the queue of a phone. *)
LEMMA AskType ==
    ASSUME TypeOK, NEW d \in Phones, NEW k \in Items \cup {Reload}, Ask(d, k)
    PROVE  asked' \in [Phones -> [Items \cup {Reload} -> Nat]]
<1>1. asked[d] \in [Items \cup {Reload} -> Nat]
  BY DEF TypeOK
<1>2. [asked[d] EXCEPT ![k] = @ + 1] \in [Items \cup {Reload} -> Nat]
  BY <1>1
<1> QED
  BY <1>2 DEF TypeOK, Ask

(* A callback waits behind the others. *)
LEMMA PostType ==
    ASSUME TypeOK, NEW d \in Phones, NEW c \in Callback, Post(d, c)
    PROVE  mainQ' \in [Phones -> Seq(Callback)]
<1>1. Append(mainQ[d], c) \in Seq(Callback)
  BY DEF TypeOK
<1> QED
  BY <1>1 DEF TypeOK, Post

(* A write waits behind the others. *)
LEMMA SendType ==
    ASSUME TypeOK, NEW d \in Phones, NEW w \in Write, Send(d, w)
    PROVE  pending' \in [Phones -> Seq(Write)]
<1>1. Append(pending[d], w) \in Seq(Write)
  BY DEF TypeOK
<1> QED
  BY <1>1 DEF TypeOK, Send

(* getBasketItems. *)
LEMMA GetBasketItemsType ==
    ASSUME TypeOK, NEW d \in Phones, NEW o \in Object \cup {NoBasket}, GetBasketItems(d, o)
    PROVE  fetches' \in [Phones -> Seq(Bag)] /\ allItems' \in [Phones -> Bag]
<1>1. CASE o = NoBasket
  BY <1>1 DEF GetBasketItems, TypeOK
<1>2. CASE o # NoBasket /\ o.items = Empty
  BY <1>2, BagType DEF GetBasketItems, TypeOK
<1>3. CASE o # NoBasket /\ o.items # Empty
  <2>1. o.items \in Bag
    BY <1>3 DEF Object
  <2>2. Append(fetches[d], o.items) \in Seq(Bag)
    BY <2>1 DEF TypeOK
  <2> QED
    BY <1>3, <2>2 DEF GetBasketItems, TypeOK
<1> QED
  BY <1>1, <1>2, <1>3

(* A restart keeps the pending writes as writes. *)
LEMMA RestartedType ==
    ASSUME TypeOK, NEW d \in Phones, Restarted(d),
           taps' \in [Phones -> Nat], faults' \in [Phones -> Nat]
    PROVE  TypeOK'
<1>1. pending' \in [Phones -> Seq(Write)]
  <2>1. pending[d] \in Seq(Write)
    BY DEF TypeOK
  <2>2. [i \in DOMAIN pending[d] |-> [pending[d][i] EXCEPT !.row = FALSE]] \in Seq(Write)
    BY <2>1, RestartKeeps
  <2> QED
    BY <2>2 DEF TypeOK, Restarted
<1>2. asked' \in [Phones -> [Items \cup {Reload} -> Nat]]
  BY DEF TypeOK, Restarted
<1>3. mainQ' \in [Phones -> Seq(Callback)] /\ fetches' \in [Phones -> Seq(Bag)]
  BY DEF TypeOK, Restarted
<1>4. basket' \in [Phones -> Object \cup {NoBasket}]
  BY DEF TypeOK, Restarted
<1>5. allItems' \in [Phones -> Bag]
  BY BagType DEF TypeOK, Restarted
<1>6. disturbed' \in BOOLEAN /\ screen' \in [Phones -> {"basket", "item"}]
  BY DEF TypeOK, Restarted
<1> QED
  BY <1>1, <1>2, <1>3, <1>4, <1>5, <1>6 DEF TypeOK, Restarted

(* What the user does keeps the types. *)
LEMMA UserType ==
    ASSUME TypeOK, NEW d \in Phones,
           \/ \E x \in Items : AddToBasket(d, x) \/ DeleteRow(d, x)
           \/ BasketAppears(d) \/ ItemAppears(d) \/ Crash(d)
    PROVE  TypeOK'
<1>1. ASSUME NEW x \in Items, AddToBasket(d, x)
      PROVE  TypeOK'
  <2>1. asked' \in [Phones -> [Items \cup {Reload} -> Nat]] /\ taps' \in [Phones -> Nat]
    BY <1>1, AskType, TapType DEF AddToBasket
  <2> QED
    BY <1>1, <2>1 DEF AddToBasket, TypeOK
<1>2. CASE BasketAppears(d)
  <2>1. asked' \in [Phones -> [Items \cup {Reload} -> Nat]] /\ taps' \in [Phones -> Nat]
    BY <1>2, AskType, TapType DEF BasketAppears
  <2> QED
    BY <1>2, <2>1 DEF BasketAppears, TypeOK
<1>3. CASE ItemAppears(d)
  BY <1>3 DEF ItemAppears, TypeOK
<1>4. CASE Crash(d)
  BY <1>4, RestartedType, FaultType DEF Crash, TypeOK
<1>5. ASSUME NEW x \in Items, DeleteRow(d, x), basket[d] = NoBasket
      PROVE  TypeOK'
  BY <1>5, RestartedType, TapType DEF DeleteRow, TypeOK
<1>6. ASSUME NEW x \in Items, DeleteRow(d, x), basket[d] # NoBasket
      PROVE  TypeOK'
  <2> DEFINE left == Without(basket[d].items, x)
             w == [op |-> "update", id |-> basket[d].id, items |-> left, row |-> TRUE]
  <2>1. basket[d] \in Object
    BY <1>6 DEF TypeOK
  <2>2. left \in Bag /\ basket[d].id \in Ids
    BY <2>1, BagType DEF Object
  <2>3. w \in Write
    BY <2>2 DEF Write
  <2>4. pending' \in [Phones -> Seq(Write)]
    BY <1>6, <2>3, SendType DEF DeleteRow
  <2>5. [basket[d] EXCEPT !.items = left] \in Object
    BY <2>1, <2>2 DEF Object
  <2>6. basket' \in [Phones -> Object \cup {NoBasket}]
    <3>1. basket' = [basket EXCEPT ![d] = [basket[d] EXCEPT !.items = left]]
      BY <1>6 DEF DeleteRow
    <3> QED
      BY <2>5, <3>1 DEF TypeOK
  <2>7. allItems' \in [Phones -> Bag] /\ wanted' \in Bag
    <3>1. Without(allItems[d], x) \in Bag /\ Without(wanted, x) \in Bag
      BY BagType DEF TypeOK
    <3> QED
      BY <1>6, <3>1 DEF DeleteRow, TypeOK
  <2>8. taps' \in [Phones -> Nat]
    BY <1>6, TapType DEF DeleteRow
  <2> QED
    BY <1>6, <2>4, <2>6, <2>7, <2>8 DEF DeleteRow, TypeOK
<1> QED
  BY <1>1, <1>2, <1>3, <1>4, <1>5, <1>6

(* The answer to a query is a callback. *)
LEMMA QueriedType ==
    ASSUME NEW k \in Items \cup {Reload}, NEW f \in Object \cup {NoBasket}
    PROVE  [kind |-> "queried", for |-> k, found |-> f] \in Callback
  BY DEF Callback

(* What Firestore answers keeps the types. *)
LEMMA QueryType ==
    ASSUME TypeOK, NEW d \in Phones, NEW k \in Items \cup {Reload}, QueryAnswered(d, k)
    PROVE  TypeOK'
<1>1. server \in Docs /\ cache[d] \in Docs /\ pending[d] \in Seq(Write)
  BY DEF TypeOK
<1>2. /\ FirstOf(Overlay(server, pending[d])) \subseteq Object \cup {NoBasket}
      /\ FirstOf(Overlay(cache[d], pending[d])) \subseteq Object \cup {NoBasket}
  BY <1>1, OverlayType, FirstOfShows
<1>3. mainQ' \in [Phones -> Seq(Callback)]
  <2>1. \E f \in Object \cup {NoBasket} :
           Post(d, [kind |-> "queried", for |-> k, found |-> f])
    BY <1>2 DEF QueryAnswered
  <2> QED
    BY <2>1, QueriedType, PostType
<1>4. asked' \in [Phones -> [Items \cup {Reload} -> Nat]]
  <2>1. asked[d] \in [Items \cup {Reload} -> Nat] /\ asked[d][k] > 0
    BY DEF TypeOK, QueryAnswered
  <2>2. [asked[d] EXCEPT ![k] = @ - 1] \in [Items \cup {Reload} -> Nat]
    BY <2>1
  <2> QED
    BY <2>2 DEF TypeOK, QueryAnswered
<1>5. cache' \in [Phones -> Docs]
  BY <1>1 DEF TypeOK, QueryAnswered
<1>6. faults' \in [Phones -> Nat] /\ disturbed' \in BOOLEAN
  BY FaultType DEF TypeOK, QueryAnswered
<1> QED
  BY <1>3, <1>4, <1>5, <1>6 DEF TypeOK, QueryAnswered

(* The server takes the first write of a phone, or refuses it. *)
LEMMA CommitType ==
    ASSUME TypeOK, NEW d \in Phones, Commit(d)
    PROVE  TypeOK'
<1> DEFINE w == Head(pending[d])
<1>1. pending[d] \in Seq(Write) /\ pending[d] # <<>>
  BY DEF TypeOK, Commit
<1>2. w \in Write /\ Tail(pending[d]) \in Seq(Write)
  BY <1>1
<1>3. w.id \in Ids /\ w.items \in Bag
  BY <1>2 DEF Write
<1> HIDE DEF w
<1>4. pending' \in [Phones -> Seq(Write)]
  BY <1>2 DEF TypeOK, Commit
<1>5. mainQ' \in [Phones -> Seq(Callback)]
  <2>1. [kind |-> "deleted"] \in Callback
    BY DEF Callback
  <2> QED
    BY <2>1, PostType DEF TypeOK, Commit
<1>6. server' \in Docs
  BY <1>3 DEF TypeOK, Commit, Docs, w
<1>7. cache' \in [Phones -> Docs]
  <2>1. [cache[d] EXCEPT ![w.id] = w.items] \in Docs
    BY <1>3 DEF TypeOK, Docs
  <2>2. cache' = cache \/ cache' = [cache EXCEPT ![d] = [cache[d] EXCEPT ![w.id] = w.items]]
    BY DEF Commit, w
  <2> QED
    BY <2>1, <2>2 DEF TypeOK
<1>8. faults' \in [Phones -> Nat] /\ disturbed' \in BOOLEAN
  BY FaultType DEF TypeOK, Commit
<1> QED
  BY <1>4, <1>5, <1>6, <1>7, <1>8 DEF TypeOK, Commit

(* A list of items comes back, whole or in part. *)
LEMMA FetchedType ==
    ASSUME TypeOK, NEW d \in Phones, NEW i \in DOMAIN fetches[d],
           ItemsFetched(d, i) \/ ItemsMissing(d, i)
    PROVE  TypeOK'
<1>1. fetches[d] \in Seq(Bag) /\ fetches[d][i] \in Bag
  BY DEF TypeOK
<1>2. PICK rows \in Bag : Fetched(d, i, rows)
  BY <1>1, PartsType DEF ItemsFetched, ItemsMissing
<1>3. fetches' \in [Phones -> Seq(Bag)]
  <2>1. SubSeq(fetches[d], 1, i - 1) \o SubSeq(fetches[d], i + 1, Len(fetches[d])) \in Seq(Bag)
    BY <1>1, WithoutEntry
  <2> QED
    BY <1>2, <2>1 DEF TypeOK, Fetched
<1>4. allItems' \in [Phones -> Bag]
  BY <1>2 DEF TypeOK, Fetched
<1>5. faults' \in [Phones -> Nat] /\ disturbed' \in BOOLEAN
  BY FaultType DEF TypeOK, ItemsFetched, ItemsMissing
<1> QED
  BY <1>2, <1>3, <1>4, <1>5 DEF TypeOK, Fetched

(* The two ways of adding an item, and what they do to the counts. *)
LEMMA AddEffect ==
    ASSUME TypeOK, NEW d \in Phones, NEW c \in Callback, RunAdd(d, c)
    PROVE  \E b \in Ids, m \in Bag :
             LET w == [op |-> IF c.found = NoBasket THEN "set" ELSE "update",
                       id |-> b, items |-> With(m, c.for), row |-> FALSE]
             IN  /\ w \in Write /\ Send(d, w)
                 /\ added' = [added EXCEPT ![b] = With(@, c.for)]
                 /\ IF c.found = NoBasket
                    THEN m = Empty /\ b \notin used /\ used' = used \cup {b}
                    ELSE m = c.found.items /\ b = c.found.id /\ UNCHANGED used
<1>1. c.for \in Items /\ c.found \in Object \cup {NoBasket}
  BY DEF RunAdd, Callback
<1>2. CASE c.found = NoBasket
  <2>1. PICK b \in Ids \ used :
          /\ used' = used \cup {b}
          /\ Send(d, [op |-> "set", id |-> b, items |-> With(Empty, c.for), row |-> FALSE])
          /\ added' = [added EXCEPT ![b] = With(@, c.for)]
    BY <1>2 DEF RunAdd, CreateNewBasket
  <2>2. [op |-> "set", id |-> b, items |-> With(Empty, c.for), row |-> FALSE] \in Write
    BY <1>1, BagType DEF Write
  <2> QED
    BY <1>2, <2>1, <2>2, BagType
<1>3. CASE c.found # NoBasket
  <2>1. c.found.id \in Ids /\ c.found.items \in Bag
    BY <1>1, <1>3 DEF Object
  <2>2. [op |-> "update", id |-> c.found.id, items |-> With(c.found.items, c.for),
         row |-> FALSE] \in Write
    BY <1>1, <2>1, BagType DEF Write
  <2>3. /\ Send(d, [op |-> "update", id |-> c.found.id, items |-> With(c.found.items, c.for),
                    row |-> FALSE])
        /\ added' = [added EXCEPT ![c.found.id] = With(@, c.for)]
        /\ UNCHANGED used
    BY <1>3 DEF RunAdd, AppendToBasket
  <2> QED
    BY <1>3, <2>1, <2>2, <2>3
<1> QED
  BY <1>2, <1>3

(* The main thread runs the first callback of a phone. *)
LEMMA CallbackStepType ==
    ASSUME TypeOK, NEW d \in Phones, RunCallback(d)
    PROVE  TypeOK'
<1> DEFINE c == Head(mainQ[d])
<1>1. mainQ[d] \in Seq(Callback) /\ mainQ[d] # <<>>
  BY DEF TypeOK, RunCallback
<1>2. c \in Callback /\ Tail(mainQ[d]) \in Seq(Callback)
  BY <1>1
<1> HIDE DEF c
<1>3. mainQ' \in [Phones -> Seq(Callback)]
  BY <1>2 DEF TypeOK, RunCallback
<1>4. CASE RunAdd(d, c)
  <2>1. PICK b \in Ids, w \in Write :
           /\ Send(d, w) /\ added' = [added EXCEPT ![b] = With(@, c.for)]
           /\ used' \in {used, used \cup {b}}
    BY <1>2, <1>4, AddEffect
  <2>2. c.for \in Items /\ wanted' = With(wanted, c.for) /\ UNCHANGED <<fetches, view>>
    BY <1>4 DEF RunAdd
  <2>3. added[b] \in Bag /\ wanted \in Bag
    BY DEF TypeOK
  <2>4. added' \in [Ids -> Bag] /\ wanted' \in Bag
    BY <2>1, <2>2, <2>3, BagType DEF TypeOK
  <2>5. pending' \in [Phones -> Seq(Write)]
    BY <2>1, SendType
  <2> QED
    BY <1>3, <2>1, <2>2, <2>4, <2>5 DEF TypeOK, RunCallback
<1>5. CASE RunReload(d, c)
  <2>1. c.found \in Object \cup {NoBasket}
    BY <1>2, <1>5 DEF RunReload, Callback
  <2>2. fetches' \in [Phones -> Seq(Bag)] /\ allItems' \in [Phones -> Bag]
    BY <1>5, <2>1, GetBasketItemsType DEF RunReload
  <2>3. basket' \in [Phones -> Object \cup {NoBasket}]
    BY <1>5, <2>1 DEF RunReload, TypeOK
  <2> QED
    BY <1>3, <1>5, <2>2, <2>3 DEF TypeOK, RunCallback, RunReload
<1>6. CASE RunDeleted(d, c)
  <2>1. basket[d] \in Object \cup {NoBasket}
    BY DEF TypeOK
  <2>2. fetches' \in [Phones -> Seq(Bag)] /\ allItems' \in [Phones -> Bag]
    BY <1>6, <2>1, GetBasketItemsType DEF RunDeleted
  <2> QED
    BY <1>3, <1>6, <2>2 DEF TypeOK, RunCallback, RunDeleted
<1> QED
  BY <1>4, <1>5, <1>6 DEF RunCallback, c

(* Every step keeps the types. *)
LEMMA NextType == TypeOK /\ [Next]_vars => TypeOK'
<1> SUFFICES ASSUME TypeOK, [Next]_vars PROVE TypeOK'
  OBVIOUS
<1>1. CASE UNCHANGED vars
  BY <1>1 DEF vars, TypeOK
<1>2. CASE Next
  BY <1>2, UserType, QueryType, CommitType, FetchedType, CallbackStepType DEF Next
<1> QED
  BY <1>1, <1>2

(* The variables keep their types in every reachable state. *)
THEOREM TypeCorrect == Spec => []TypeOK
  BY InitType, NextType, PTL DEF Spec

-----------------------------------------------------------------------------
(* No phantom items.                                                        *)

(* The parts of NoPhantomItems. *)
ServerBounded == \A i \in Ids : Bounded(server[i], i)
CacheBounded == \A d \in Phones, i \in Ids : Bounded(cache[d][i], i)
WriteBounded(w) == Bounded(w.items, w.id)
PendingBounded == \A d \in Phones : \A k \in DOMAIN pending[d] : WriteBounded(pending[d][k])
ObjectBounded(o) == o # NoBasket => Bounded(o.items, o.id)
CallBounded(c) == c.kind = "queried" => ObjectBounded(c.found)
CallsBounded == \A d \in Phones : \A k \in DOMAIN mainQ[d] : CallBounded(mainQ[d][k])
BasketBounded == \A d \in Phones : ObjectBounded(basket[d])

(* NoPhantomItems says of each of the five places that it is bounded. *)
LEMMA NoPhantomParts ==
    NoPhantomItems <=> /\ ServerBounded /\ CacheBounded /\ PendingBounded
                       /\ CallsBounded /\ BasketBounded
  BY DEF NoPhantomItems, ServerBounded, CacheBounded, WriteBounded, PendingBounded,
         ObjectBounded, CallBounded, CallsBounded, BasketBounded

(* The step leaves every bag bounded that was bounded: the counts of what   *)
(* was added do not fall.                                                   *)
Grows == \A i \in Ids, b \in Bag \cup {NoBasket} : Bounded(b, i) => Bounded(b, i)'

(* What a queue of writes or callbacks holds. *)
LEMMA QueueTypes ==
    ASSUME TypeOK, NEW d \in Phones
    PROVE  /\ pending[d] \in Seq(Write)
           /\ \A k \in DOMAIN pending[d] : /\ pending[d][k] \in Write
                                           /\ pending[d][k].id \in Ids
                                           /\ pending[d][k].items \in Bag
           /\ mainQ[d] \in Seq(Callback)
           /\ \A k \in DOMAIN mainQ[d] : mainQ[d][k] \in Callback
<1>1. pending[d] \in Seq(Write) /\ mainQ[d] \in Seq(Callback)
  BY DEF TypeOK
<1>2. /\ \A k \in DOMAIN pending[d] : pending[d][k] \in Write
      /\ \A k \in DOMAIN mainQ[d] : mainQ[d][k] \in Callback
  BY <1>1
<1>3. \A w \in Write : w.id \in Ids /\ w.items \in Bag
  BY DEF Write
<1> QED
  BY <1>1, <1>2, <1>3

(* A basket object of a callback is nil or an object. *)
LEMMA CallbackObject ==
    \A c \in Callback : c.kind = "queried" => c.found \in Object \cup {NoBasket}
  BY DEF Callback

(* A basket object has an id and a bag. *)
LEMMA ObjectFields ==
    \A o \in Object \cup {NoBasket} : o # NoBasket => o.id \in Ids /\ o.items \in Bag
  BY DEF Object

(* What was bounded stays so. *)
LEMMA StaysBounded ==
    ASSUME Grows
    PROVE  /\ \A w \in Write : WriteBounded(w) => WriteBounded(w)'
           /\ \A o \in Object \cup {NoBasket} : ObjectBounded(o) => ObjectBounded(o)'
           /\ \A c \in Callback : CallBounded(c) => CallBounded(c)'
<1>1. \A w \in Write : w.id \in Ids /\ w.items \in Bag
  BY DEF Write
<1>2. \A w \in Write : WriteBounded(w) => WriteBounded(w)'
  BY <1>1 DEF Grows, WriteBounded
<1>3. \A o \in Object \cup {NoBasket} : ObjectBounded(o) => ObjectBounded(o)'
  BY ObjectFields DEF Grows, ObjectBounded
<1>4. \A c \in Callback : CallBounded(c) => CallBounded(c)'
  BY <1>3, CallbackObject DEF CallBounded
<1> QED
  BY <1>2, <1>3, <1>4

(* The variables that a step leaves alone stay bounded. *)
LEMMA UnchangedBounded ==
    ASSUME TypeOK, NoPhantomItems, Grows
    PROVE  /\ UNCHANGED server => ServerBounded'
           /\ UNCHANGED cache => CacheBounded'
           /\ UNCHANGED pending => PendingBounded'
           /\ UNCHANGED mainQ => CallsBounded'
           /\ UNCHANGED basket => BasketBounded'
<1>1. UNCHANGED server => ServerBounded'
  BY NoPhantomParts DEF ServerBounded, Grows, TypeOK, Docs
<1>2. UNCHANGED cache => CacheBounded'
  BY NoPhantomParts DEF CacheBounded, Grows, TypeOK, Docs
<1>3. UNCHANGED pending => PendingBounded'
  BY NoPhantomParts, QueueTypes, StaysBounded DEF PendingBounded
<1>4. UNCHANGED mainQ => CallsBounded'
  BY NoPhantomParts, QueueTypes, StaysBounded DEF CallsBounded
<1>5. UNCHANGED basket => BasketBounded'
  BY NoPhantomParts, StaysBounded DEF BasketBounded, TypeOK
<1> QED
  BY <1>1, <1>2, <1>3, <1>4, <1>5

(* What is added to a queue. *)
LEMMA SendBounded ==
    ASSUME TypeOK, NoPhantomItems, Grows,
           NEW d \in Phones, NEW w \in Write, Send(d, w), WriteBounded(w)'
    PROVE  PendingBounded'
<1>1. pending' = [pending EXCEPT ![d] = Append(pending[d], w)]
  BY DEF Send
<1>2. \A k \in DOMAIN Append(pending[d], w) :
         \/ k \in DOMAIN pending[d] /\ Append(pending[d], w)[k] = pending[d][k]
         \/ Append(pending[d], w)[k] = w
  BY QueueTypes, AppendEntries
<1>3. \A e \in Phones : \A k \in DOMAIN pending'[e] :
         \/ k \in DOMAIN pending[e] /\ pending'[e][k] = pending[e][k]
         \/ pending'[e][k] = w
  BY <1>1, <1>2 DEF TypeOK
<1>4. \A e \in Phones : \A k \in DOMAIN pending[e] :
         pending[e][k] \in Write /\ WriteBounded(pending[e][k])
  BY QueueTypes, NoPhantomParts DEF PendingBounded
<1> QED
  BY <1>3, <1>4, StaysBounded DEF PendingBounded

(* Posting a bounded callback keeps the main queues bounded. *)
LEMMA PostBounded ==
    ASSUME TypeOK, NoPhantomItems, Grows,
           NEW d \in Phones, NEW c \in Callback, Post(d, c), CallBounded(c)'
    PROVE  CallsBounded'
<1>1. mainQ' = [mainQ EXCEPT ![d] = Append(mainQ[d], c)]
  BY DEF Post
<1>2. \A k \in DOMAIN Append(mainQ[d], c) :
         \/ k \in DOMAIN mainQ[d] /\ Append(mainQ[d], c)[k] = mainQ[d][k]
         \/ Append(mainQ[d], c)[k] = c
  BY QueueTypes, AppendEntries
<1>3. \A e \in Phones : \A k \in DOMAIN mainQ'[e] :
         \/ k \in DOMAIN mainQ[e] /\ mainQ'[e][k] = mainQ[e][k]
         \/ mainQ'[e][k] = c
  BY <1>1, <1>2 DEF TypeOK
<1>4. \A e \in Phones : \A k \in DOMAIN mainQ[e] :
         mainQ[e][k] \in Callback /\ CallBounded(mainQ[e][k])
  BY QueueTypes, NoPhantomParts DEF CallsBounded
<1> QED
  BY <1>3, <1>4, StaysBounded DEF CallsBounded

(* A step that adds nothing leaves the counts as they are. *)
LEMMA SameCounts == UNCHANGED added => Grows
  BY DEF Grows, Bounded

(* What a phone sees is bounded. *)
LEMMA FoundBounded ==
    ASSUME TypeOK, NoPhantomItems, NEW d \in Phones, NEW docs \in {server, cache[d]},
           NEW f \in FirstOf(Overlay(docs, pending[d]))
    PROVE  f \in Object \cup {NoBasket} /\ ObjectBounded(f)
<1>1. docs \in Docs /\ pending[d] \in Seq(Write) /\ Overlay(docs, pending[d]) \in Docs
  BY OverlayType DEF TypeOK
<1>2. CASE f = NoBasket
  BY <1>2 DEF ObjectBounded
<1>3. CASE f # NoBasket
  <2>1. PICK b \in Ids : f = [id |-> b, items |-> Seen(docs, pending[d], b)] /\ f \in Object
    BY <1>1, <1>3, FirstOfShows DEF Overlay
  <2>2. Bounded(docs[b], b)
    BY NoPhantomParts DEF ServerBounded, CacheBounded
  <2>3. \A k \in DOMAIN pending[d] : WriteBounded(pending[d][k])
    BY NoPhantomParts DEF PendingBounded
  <2>4. Bounded(Seen(docs, pending[d], b), b)
    BY <1>1, <2>2, <2>3, SeenShows DEF WriteBounded
  <2> QED
    BY <2>1, <2>4 DEF ObjectBounded
<1> QED
  BY <1>2, <1>3

(* A restart brings nothing. *)
LEMMA RestartedBounded ==
    ASSUME TypeOK, NoPhantomItems, NEW d \in Phones, Restarted(d)
    PROVE  NoPhantomItems'
<1> DEFINE r == [i \in DOMAIN pending[d] |-> [pending[d][i] EXCEPT !.row = FALSE]]
<1>1. /\ pending' = [pending EXCEPT ![d] = r] /\ pending[d] \in Seq(Write)
      /\ UNCHANGED <<server, cache, added>>
      /\ mainQ' = [mainQ EXCEPT ![d] = <<>>] /\ basket' = [basket EXCEPT ![d] = NoBasket]
  BY DEF TypeOK, Restarted
<1>2. /\ DOMAIN r = DOMAIN pending[d]
      /\ \A i \in DOMAIN pending[d] : r[i].id = pending[d][i].id
                                      /\ r[i].items = pending[d][i].items
  BY <1>1, RestartKeeps
<1> HIDE DEF r
<1>3. PendingBounded'
  BY <1>1, <1>2, NoPhantomParts DEF TypeOK, PendingBounded, WriteBounded, Bounded
<1>4. CallsBounded'
  BY <1>1, NoPhantomParts
     DEF TypeOK, CallsBounded, CallBounded, ObjectBounded, Bounded
<1>5. BasketBounded'
  BY <1>1, NoPhantomParts DEF TypeOK, BasketBounded, ObjectBounded, Bounded
<1>6. ServerBounded' /\ CacheBounded'
  BY <1>1, NoPhantomParts DEF ServerBounded, CacheBounded, Bounded
<1> QED
  BY <1>3, <1>4, <1>5, <1>6, NoPhantomParts, PTL

(* What the user does, and a crash. *)
LEMMA UserBounded ==
    ASSUME TypeOK, NoPhantomItems, NEW d \in Phones,
           \/ \E x \in Items : AddToBasket(d, x) \/ DeleteRow(d, x)
           \/ BasketAppears(d) \/ ItemAppears(d) \/ Crash(d)
    PROVE  NoPhantomItems'
<1>1. CASE Crash(d) \/ \E x \in Items : DeleteRow(d, x) /\ basket[d] = NoBasket
  BY <1>1, RestartedBounded DEF Crash, DeleteRow
<1>2. CASE (\E x \in Items : AddToBasket(d, x)) \/ BasketAppears(d) \/ ItemAppears(d)
  <2>1. UNCHANGED <<server, cache, pending, mainQ, basket, added>>
    BY <1>2 DEF AddToBasket, BasketAppears, ItemAppears
  <2>2. /\ ServerBounded' /\ CacheBounded' /\ PendingBounded'
        /\ CallsBounded' /\ BasketBounded'
    BY <2>1, SameCounts, UnchangedBounded
  <2> QED
    BY <2>2, NoPhantomParts, PTL
<1>3. ASSUME NEW x \in Items, DeleteRow(d, x), basket[d] # NoBasket
      PROVE  NoPhantomItems'
  <2> DEFINE left == Without(basket[d].items, x)
             w == [op |-> "update", id |-> basket[d].id, items |-> left, row |-> TRUE]
  <2>1. basket[d] \in Object
    BY <1>3 DEF TypeOK
  <2>2. left \in Bag /\ basket[d].id \in Ids /\ basket[d].items \in Bag
    BY <2>1, BagType DEF Object
  <2>3. w \in Write
    BY <2>2 DEF Write
  <2>4. UNCHANGED <<server, cache, mainQ, added>> /\ Send(d, w)
    BY <1>3 DEF DeleteRow
  <2>5. Bounded(left, basket[d].id)
    <3>1. \A y \in Items : basket[d].items[y] <= added[basket[d].id][y]
      BY <1>3, <2>2, NoPhantomParts, NoBasketAssumption
         DEF BasketBounded, ObjectBounded, Bounded
    <3>2. added[basket[d].id] \in Bag
      BY <2>2 DEF TypeOK
    <3>3. \A y \in Items : /\ basket[d].items[y] \in Nat /\ left[y] \in Nat
                           /\ added[basket[d].id][y] \in Nat
      BY <2>2, <3>2 DEF Bag
    <3>4. \A y \in Items : left[y] <= basket[d].items[y]
      BY <2>2, BagType
    <3> HIDE DEF left
    <3> QED
      BY <3>1, <3>3, <3>4 DEF Bounded
  <2>6. PendingBounded'
    <3>1. PICK m \in Write : m = w
      BY <2>3
    <3>2. WriteBounded(m)'
      BY <2>4, <2>5, <3>1 DEF WriteBounded, Bounded
    <3> QED
      BY <2>4, <3>1, <3>2, SameCounts, SendBounded
  <2>7. BasketBounded'
    <3>1. basket' = [basket EXCEPT ![d] = [basket[d] EXCEPT !.items = left]]
      BY <1>3 DEF DeleteRow
    <3>2. basket'[d].items = left /\ basket'[d].id = basket[d].id
      BY <2>1, <3>1 DEF TypeOK, Object
    <3>3. \A e \in Phones \ {d} : basket'[e] = basket[e]
      BY <3>1 DEF TypeOK
    <3>4. \A e \in Phones \ {d} : ObjectBounded(basket[e])'
      BY <2>4, <3>3, NoPhantomParts DEF BasketBounded, ObjectBounded, Bounded
    <3>5. Bounded(basket'[d].items, basket'[d].id)
      BY <2>5, <3>2
    <3>6. ObjectBounded(basket[d])'
      BY <2>4, <3>5 DEF ObjectBounded, Bounded
    <3> QED
      BY <3>4, <3>6 DEF BasketBounded
  <2>8. ServerBounded' /\ CacheBounded' /\ CallsBounded'
    BY <2>4, SameCounts, UnchangedBounded
  <2> QED
    BY <2>6, <2>7, <2>8, NoPhantomParts, PTL
<1> QED
  BY <1>1, <1>2, <1>3

(* What Firestore answers. *)
LEMMA QueryBounded ==
    ASSUME TypeOK, NoPhantomItems, NEW d \in Phones, NEW k \in Items \cup {Reload},
           QueryAnswered(d, k)
    PROVE  NoPhantomItems'
<1>1. UNCHANGED <<server, pending, basket, added>>
  BY DEF QueryAnswered
<1>2. CallsBounded'
  <2>1. PICK f : /\ f \in Object \cup {NoBasket} /\ ObjectBounded(f)
                 /\ Post(d, [kind |-> "queried", for |-> k, found |-> f])
    BY FoundBounded DEF QueryAnswered, ObjectBounded
  <2> DEFINE c == [kind |-> "queried", for |-> k, found |-> f]
  <2>2. c \in Callback
    BY <2>1, QueriedType
  <2>3. CallBounded(c)'
    BY <1>1, <2>1 DEF CallBounded, ObjectBounded, Bounded
  <2> QED
    BY <1>1, <2>1, <2>2, <2>3, SameCounts, PostBounded
<1>3. CacheBounded'
  <2>1. cache' = cache \/ cache' = [cache EXCEPT ![d] = server]
    BY DEF QueryAnswered
  <2>2. \A e \in Phones : cache'[e] = cache[e] \/ cache'[e] = server
    BY <2>1 DEF TypeOK
  <2> QED
    BY <1>1, <2>2, NoPhantomParts DEF CacheBounded, ServerBounded, Bounded
<1>4. ServerBounded' /\ PendingBounded' /\ BasketBounded'
  BY <1>1, SameCounts, UnchangedBounded
<1> QED
  BY <1>2, <1>3, <1>4, NoPhantomParts, PTL

(* What the server takes was bounded as a pending write. *)
LEMMA CommitBounded ==
    ASSUME TypeOK, NoPhantomItems, NEW d \in Phones, Commit(d)
    PROVE  NoPhantomItems'
<1> DEFINE w == Head(pending[d])
<1>1. pending[d] \in Seq(Write) /\ pending[d] # <<>>
  BY DEF TypeOK, Commit
<1>2. /\ w = pending[d][1] /\ 1 \in DOMAIN pending[d] /\ w \in Write
      /\ \A i \in DOMAIN Tail(pending[d]) : /\ i + 1 \in DOMAIN pending[d]
                                            /\ Tail(pending[d])[i] = pending[d][i + 1]
  BY <1>1, TailEntries
<1>3. w.id \in Ids /\ w.items \in Bag
  BY <1>2 DEF Write
<1>4. Bounded(w.items, w.id)
  BY <1>2, NoPhantomParts DEF PendingBounded, WriteBounded
<1> HIDE DEF w
<1>5. /\ UNCHANGED <<basket, added>> /\ pending' = [pending EXCEPT ![d] = Tail(pending[d])]
      /\ Post(d, [kind |-> "deleted"]) \/ UNCHANGED mainQ
      /\ server' = server \/ server' = [server EXCEPT ![w.id] = w.items]
      /\ cache' = cache \/ cache' = [cache EXCEPT ![d] = [cache[d] EXCEPT ![w.id] = w.items]]
  BY DEF Commit, w
<1>6. ServerBounded'
  BY <1>3, <1>4, <1>5, NoPhantomParts DEF TypeOK, Docs, ServerBounded, Bounded
<1>7. CacheBounded'
  <2>1. \A e \in Phones, i \in Ids :
           cache'[e][i] = cache[e][i] \/ (i = w.id /\ cache'[e][i] = w.items)
    <3>1. cache \in [Phones -> Docs] /\ \A e \in Phones : cache[e] \in [Ids -> Bag \cup {NoBasket}]
      BY DEF TypeOK, Docs
    <3> QED
      BY <1>3, <1>5, <3>1
  <2> QED
    BY <1>4, <1>5, <2>1, NoPhantomParts DEF CacheBounded, Bounded
<1>8. PendingBounded'
  <2>1. \A e \in Phones : \A k \in DOMAIN pending'[e] :
           \E j \in DOMAIN pending[e] : pending'[e][k] = pending[e][j]
    BY <1>2, <1>5 DEF TypeOK
  <2>2. \A e \in Phones : \A k \in DOMAIN pending'[e] :
           Bounded(pending'[e][k].items, pending'[e][k].id)
    BY <2>1, NoPhantomParts DEF PendingBounded, WriteBounded
  <2> QED
    BY <1>5, <2>2 DEF PendingBounded, WriteBounded, Bounded
<1>9. CallsBounded'
  <2>1. [kind |-> "deleted"] \in Callback /\ CallBounded([kind |-> "deleted"])'
    BY DEF Callback, CallBounded
  <2> QED
    BY <1>5, <2>1, SameCounts, PostBounded, UnchangedBounded
<1>10. BasketBounded'
  BY <1>5, SameCounts, UnchangedBounded
<1> QED
  BY <1>6, <1>7, <1>8, <1>9, <1>10, NoPhantomParts, PTL

(* Answers to downloads of items change none of the five places. *)
LEMMA FetchedBounded ==
    ASSUME TypeOK, NoPhantomItems, NEW d \in Phones, NEW i \in DOMAIN fetches[d],
           ItemsFetched(d, i) \/ ItemsMissing(d, i)
    PROVE  NoPhantomItems'
<1>1. UNCHANGED <<server, cache, pending, mainQ, basket, added>>
  BY DEF ItemsFetched, ItemsMissing, Fetched
<1>2. /\ ServerBounded' /\ CacheBounded' /\ PendingBounded'
      /\ CallsBounded' /\ BasketBounded'
  BY <1>1, SameCounts, UnchangedBounded
<1> QED
  BY <1>2, NoPhantomParts, PTL

(* Adding an item raises its count in the basket it is added to, and writes *)
(* the item once more than the array that was found.                        *)
LEMMA AddBounded ==
    ASSUME TypeOK, NoPhantomItems, NEW d \in Phones,
           NEW c \in Callback, CallBounded(c), RunAdd(d, c)
    PROVE  Grows /\ PendingBounded'
<1>1. c.for \in Items /\ c.kind = "queried"
  BY DEF RunAdd
<1>2. PICK b \in Ids, m \in Bag, w \in Write :
        /\ w.id = b /\ w.items = With(m, c.for) /\ Send(d, w)
        /\ added' = [added EXCEPT ![b] = With(@, c.for)]
        /\ IF c.found = NoBasket THEN m = Empty ELSE m = c.found.items /\ b = c.found.id
  BY AddEffect
<1>3. added \in [Ids -> Bag] /\ added' = [added EXCEPT ![b] = With(added[b], c.for)]
  BY <1>2 DEF TypeOK
<1>4. \A i \in Ids, y \in Items :
        /\ added[i][y] \in Nat
        /\ added'[i][y] = IF i = b /\ c.for = y THEN added[i][y] + 1 ELSE added[i][y]
  <2>1. With(added[b], c.for) \in Bag /\ added[b] \in Bag
    BY <1>1, <1>3, BagType
  <2>2. \A y \in Items : With(added[b], c.for)[y] = IF c.for = y THEN added[b][y] + 1
                                                              ELSE added[b][y]
    BY <1>1, <2>1 DEF With, Bag
  <2>3. \A i \in Ids : added'[i] = IF i = b THEN With(added[b], c.for) ELSE added[i]
    BY <1>3
  <2>4. \A i \in Ids, y \in Items : added[i][y] \in Nat
    BY <1>3 DEF Bag
  <2> QED
    BY <2>2, <2>3, <2>4
<1>5. Grows
  <2> SUFFICES ASSUME NEW i \in Ids, NEW a \in Bag, Bounded(a, i)
               PROVE  Bounded(a, i)'
    BY DEF Grows, Bounded
  <2>1. \A y \in Items : a[y] \in Nat
    BY DEF Bag
  <2> QED
    BY <1>4, <2>1, NoBasketAssumption DEF Bounded
<1>6. \A y \in Items : m[y] \in Nat /\ m[y] <= added[b][y]
  <2>1. m \in Bag /\ \A y \in Items : m[y] \in Nat
    BY DEF Bag
  <2>2. CASE c.found = NoBasket
    <3>1. \A y \in Items : m[y] = 0
      BY <1>2, <2>2 DEF Empty
    <3> QED
      BY <1>4, <3>1
  <2>3. CASE c.found # NoBasket
    <3>1. m = c.found.items /\ b = c.found.id /\ Bounded(m, b)
      BY <1>1, <1>2, <2>3 DEF CallBounded, ObjectBounded
    <3> QED
      BY <2>1, <3>1, NoBasketAssumption DEF Bounded
  <2> QED
    BY <2>2, <2>3
<1>7. WriteBounded(w)'
  <2>1. \A y \in Items : w.items[y] = IF c.for = y THEN m[y] + 1 ELSE m[y]
    <3>1. \A y \in Items : With(m, c.for)[y] = IF c.for = y THEN m[y] + 1 ELSE m[y]
      BY <1>1, BagType
    <3> QED
      BY <1>2, <3>1
  <2>2. \A y \in Items : w.items[y] <= added'[w.id][y]
    BY <1>2, <1>4, <1>6, <2>1
  <2> QED
    BY <2>2 DEF WriteBounded, Bounded
<1> QED
  BY <1>2, <1>5, <1>7, SendBounded

(* A callback brings its own object to the screen, or writes what it was given. *)
LEMMA CallbackBounded ==
    ASSUME TypeOK, NoPhantomItems, NEW d \in Phones, RunCallback(d)
    PROVE  NoPhantomItems'
<1> DEFINE c == Head(mainQ[d])
<1>1. mainQ[d] \in Seq(Callback) /\ mainQ[d] # <<>>
  BY DEF TypeOK, RunCallback
<1>2. /\ c = mainQ[d][1] /\ 1 \in DOMAIN mainQ[d] /\ c \in Callback
      /\ \A i \in DOMAIN Tail(mainQ[d]) : /\ i + 1 \in DOMAIN mainQ[d]
                                          /\ Tail(mainQ[d])[i] = mainQ[d][i + 1]
  BY <1>1, TailEntries
<1>3. CallBounded(c)
  BY <1>2, NoPhantomParts DEF CallsBounded
<1> HIDE DEF c
<1>4. /\ UNCHANGED <<server, cache>> /\ mainQ' = [mainQ EXCEPT ![d] = Tail(mainQ[d])]
      /\ RunAdd(d, c) \/ RunReload(d, c) \/ RunDeleted(d, c)
  BY DEF RunCallback, c
<1>5. PICK v \in Callback : v = c
  BY <1>2
<1>6. Grows /\ PendingBounded'
  <2>1. CASE RunAdd(d, v)
    BY <1>3, <1>5, <2>1, AddBounded
  <2>2. CASE RunReload(d, v) \/ RunDeleted(d, v)
    <3>1. UNCHANGED <<pending, added>>
      BY <2>2 DEF RunReload, RunDeleted
    <3> QED
      BY <3>1, SameCounts, UnchangedBounded
  <2> QED
    BY <1>4, <1>5, <2>1, <2>2
<1>7. CallsBounded'
  <2>1. \A e \in Phones : \A k \in DOMAIN mainQ'[e] :
           \E j \in DOMAIN mainQ[e] : mainQ'[e][k] = mainQ[e][j]
    BY <1>2, <1>4 DEF TypeOK
  <2>2. \A e \in Phones : \A j \in DOMAIN mainQ[e] :
           mainQ[e][j] \in Callback /\ CallBounded(mainQ[e][j])
    BY QueueTypes, NoPhantomParts DEF CallsBounded
  <2> QED
    BY <1>6, <2>1, <2>2, StaysBounded DEF CallsBounded
<1>8. BasketBounded'
  <2>1. basket' = basket \/ (RunReload(d, v) /\ basket' = [basket EXCEPT ![d] = v.found])
    BY <1>4, <1>5 DEF RunAdd, RunReload, RunDeleted
  <2>2. CASE basket' = basket
    BY <1>6, <2>2, UnchangedBounded
  <2>3. CASE RunReload(d, v) /\ basket' = [basket EXCEPT ![d] = v.found]
    <3>1. v.found \in Object \cup {NoBasket} /\ ObjectBounded(v.found)
      BY <1>3, <1>5, <2>3, CallbackObject DEF RunReload, CallBounded
    <3>2. \A e \in Phones : basket'[e] = basket[e] \/ basket'[e] = v.found
      BY <2>3 DEF TypeOK
    <3>3. \A e \in Phones : basket[e] \in Object \cup {NoBasket} /\ ObjectBounded(basket[e])
      BY NoPhantomParts DEF TypeOK, BasketBounded
    <3> QED
      BY <1>6, <3>1, <3>2, <3>3, StaysBounded DEF BasketBounded
  <2> QED
    BY <2>1, <2>2, <2>3
<1>9. ServerBounded' /\ CacheBounded'
  BY <1>4, <1>6, UnchangedBounded
<1> QED
  BY <1>6, <1>7, <1>8, <1>9, NoPhantomParts, PTL

(* At first each document is what was added to it. *)
LEMMA InitBounded == Init => NoPhantomItems
<1> SUFFICES ASSUME Init PROVE NoPhantomItems
  OBVIOUS
<1>1. \A i \in Ids : server[i] # NoBasket => server[i] = added[i] /\ added[i] \in Bag
  <2>1. [Items -> {0, 1}] \subseteq Bag
    BY DEF Bag
  <2> QED
    BY <2>1 DEF Init
<1>2. \A i \in Ids : Bounded(server[i], i)
  BY <1>1 DEF Bounded, Bag
<1>3. /\ \A d \in Phones, i \in Ids : cache[d][i] = NoBasket
      /\ \A d \in Phones : pending[d] = <<>> /\ mainQ[d] = <<>> /\ basket[d] = NoBasket
  BY DEF Init
<1> QED
  BY <1>2, <1>3 DEF NoPhantomItems, Bounded

(* No version of a basket, anywhere, holds an item more often than it was   *)
(* added to that basket.                                                    *)
THEOREM NothingTwice == Spec => []NoPhantomItems
<1>1. TypeOK /\ NoPhantomItems /\ [Next]_vars => NoPhantomItems'
  <2> SUFFICES ASSUME TypeOK, NoPhantomItems, [Next]_vars PROVE NoPhantomItems'
    OBVIOUS
  <2>1. CASE UNCHANGED vars
    BY <2>1 DEF vars, NoPhantomItems, Bounded
  <2>2. CASE Next
    BY <2>2, UserBounded, QueryBounded, CommitBounded, FetchedBounded, CallbackBounded DEF Next
  <2> QED
    BY <2>1, <2>2
<1> QED
  BY <1>1, InitBounded, TypeCorrect, PTL DEF Spec

-----------------------------------------------------------------------------
(* A user to whom nothing goes wrong.                                       *)

(* What a phone waits for: nothing, or exactly one thing. *)
Zero == [k \in Items \cup {Reload} |-> 0]
One(k) == [j \in Items \cup {Reload} |-> IF j = k THEN 1 ELSE 0]
Queues(d, a, m, p, f) == asked[d] = a /\ mainQ[d] = m /\ pending[d] = p /\ fetches[d] = f
Asking(d) == \E k \in Items \cup {Reload} : Queues(d, One(k), <<>>, <<>>, <<>>)
Running(d) == Len(mainQ[d]) = 1 /\ Queues(d, Zero, mainQ[d], <<>>, <<>>)
Writing(d) == Len(pending[d]) = 1 /\ Queues(d, Zero, <<>>, pending[d], <<>>)
Fetching(d) == Len(fetches[d]) = 1 /\ Queues(d, Zero, <<>>, <<>>, fetches[d])

(* One thing at a time, on one phone at a time. *)
Serial ==
    /\ \A d, e \in Phones : Idle(d) \/ Idle(e) \/ d = e
    /\ \A d \in Phones : Idle(d) \/ Asking(d) \/ Running(d) \/ Writing(d) \/ Fetching(d)

(* The baskets there are are on the server, or the first one is on its way. *)
Settled == \A i \in Ids : server[i] # NoBasket <=> i \in used
Creating(d) ==
    /\ pending[d] # <<>> /\ pending[d][1].op = "set" /\ used = {pending[d][1].id}
    /\ \A i \in Ids : server[i] = NoBasket

CreatesFirst(d) == pending[d] # <<>> /\ pending[d][1].op = "set" => Creating(d)

(* A callback that finds no basket finds the user without one. *)
FindsNothing(d) ==
    mainQ[d] # <<>> /\ mainQ[d][1].kind = "queried" /\ mainQ[d][1].found = NoBasket => used = {}

(* The inductive invariant of an undisturbed user. *)
Undisturbed ==
    ~disturbed =>
        /\ Serial
        /\ \A i, j \in used : i = j
        /\ Settled \/ \E d \in Phones : Creating(d)
        /\ \A d \in Phones : CreatesFirst(d) /\ FindsNothing(d)

(* A phone without a tap has done nothing. *)
Untouched == ~disturbed => \A d \in Phones : taps[d] = 0 => Idle(d) /\ screen[d] = "item"

(* The object of a user who has, and wants, what it holds. *)
Fresh(o) == IF used = {} THEN o = NoBasket
            ELSE o # NoBasket /\ o.id \in used /\ o.items = wanted

(* What a phone is about to show. *)
Reloading(d) ==
    \/ asked[d][Reload] > 0
    \/ mainQ[d] # <<>> /\ mainQ[d][1].kind = "queried" /\ mainQ[d][1].for = Reload
Adding(d) ==
    \/ \E x \in Items : asked[d][x] > 0
    \/ mainQ[d] # <<>> /\ mainQ[d][1].kind = "queried" /\ mainQ[d][1].for # Reload

(* The inductive invariant of an undisturbed user of one phone, by what the *)
(* phone waits for and what it shows.                                       *)
WritesWanted(d) ==
    pending[d] # <<>> =>
        /\ pending[d][1].id \in used /\ pending[d][1].items = wanted
        /\ pending[d][1].row => Fresh(basket[d])
RunsWanted(d) ==
    mainQ[d] # <<>> =>
        IF mainQ[d][1].kind = "queried" THEN Fresh(mainQ[d][1].found)
        ELSE used # {} /\ Fresh(basket[d])
FetchesWanted(d) ==
    fetches[d] # <<>> => fetches[d][1] = wanted /\ used # {} /\ Fresh(basket[d])
ShowsWanted(d) ==
    screen[d] = "basket" =>
        /\ ~Adding(d)
        /\ \/ Reloading(d)
           \/ /\ Fresh(basket[d])
              /\ used # {} => fetches[d] # <<>> \/ allItems[d] = wanted
StoredWanted ==
    /\ used = {} => wanted = Empty
    /\ \/ \E d \in Phones : pending[d] # <<>>
       \/ \A i \in used : server[i] = wanted
Followed ==
    ~disturbed /\ OnePhone =>
        /\ StoredWanted
        /\ \A d \in Phones : /\ WritesWanted(d) /\ RunsWanted(d)
                             /\ FetchesWanted(d) /\ ShowsWanted(d)

(* What a phone that waits for one thing waits for. *)
LEMMA OneThing ==
    ASSUME TypeOK, NEW d \in Phones
    PROVE  /\ Idle(d) <=> Queues(d, Zero, <<>>, <<>>, <<>>)
           /\ Running(d) <=> \E c \in Callback : Queues(d, Zero, <<c>>, <<>>, <<>>)
           /\ Writing(d) <=> \E w \in Write : Queues(d, Zero, <<>>, <<w>>, <<>>)
           /\ Fetching(d) <=> \E b \in Bag : Queues(d, Zero, <<>>, <<>>, <<b>>)
<1>1. /\ mainQ[d] \in Seq(Callback) /\ pending[d] \in Seq(Write) /\ fetches[d] \in Seq(Bag)
  BY DEF TypeOK
<1>2. /\ Len(mainQ[d]) = 1 <=> \E c \in Callback : mainQ[d] = <<c>>
      /\ Len(pending[d]) = 1 <=> \E w \in Write : pending[d] = <<w>>
      /\ Len(fetches[d]) = 1 <=> \E b \in Bag : fetches[d] = <<b>>
  <2>1. Len(mainQ[d]) = 1 <=> \E c \in Callback : mainQ[d] = <<c>>
    BY <1>1, OnlyEntry
  <2>2. Len(pending[d]) = 1 <=> \E w \in Write : pending[d] = <<w>>
    BY <1>1, OnlyEntry
  <2>3. Len(fetches[d]) = 1 <=> \E b \in Bag : fetches[d] = <<b>>
    BY <1>1, OnlyEntry
  <2> QED
    BY <2>1, <2>2, <2>3
<1>3. Idle(d) <=> Queues(d, Zero, <<>>, <<>>, <<>>)
  BY DEF Idle, Queues, Zero
<1> QED
  BY <1>2, <1>3 DEF Running, Writing, Fetching, Queues

(* A step of phone d leaves the other phones alone. *)
Local(d) ==
    \A e \in Phones \ {d} :
        /\ asked'[e] = asked[e] /\ mainQ'[e] = mainQ[e]
        /\ pending'[e] = pending[e] /\ fetches'[e] = fetches[e]
        /\ basket'[e] = basket[e] /\ allItems'[e] = allItems[e]
        /\ screen'[e] = screen[e] /\ taps'[e] = taps[e]

(* The queues of a phone before and after a question is asked. *)
LEMMA AskedOne ==
    ASSUME TypeOK, NEW d \in Phones, NEW k \in Items \cup {Reload}, asked[d] = Zero, Ask(d, k)
    PROVE  asked' = [asked EXCEPT ![d] = One(k)]
<1>1. [asked[d] EXCEPT ![k] = asked[d][k] + 1] = One(k)
  BY DEF Zero, One
<1>2. asked' = [asked EXCEPT ![d] = [asked[d] EXCEPT ![k] = asked[d][k] + 1]]
  BY DEF Ask
<1> QED
  BY <1>1, <1>2

(* With nothing pending a phone sees what the server has. *)
LEMMA SeesServer ==
    ASSUME NEW docs \in Docs
    PROVE  Overlay(docs, <<>>) = docs
<1>1. \A b \in Ids : Seen(docs, <<>>, b) = docs[b]
  BY DEF Seen
<1> QED
  BY <1>1 DEF Overlay, Docs

(* What each step of an undisturbed user does to the phone that takes it.   *)
(* A question is asked when everything else is finished.                    *)
LEMMA AskEffect ==
    ASSUME TypeOK, NEW d \in Phones, ~disturbed',
           (\E x \in Items : AddToBasket(d, x)) \/ BasketAppears(d)
    PROVE  /\ ~disturbed /\ \A e \in Phones : Idle(e)
           /\ Local(d) /\ taps' = [taps EXCEPT ![d] = taps[d] + 1]
           /\ UNCHANGED <<server, used, wanted, basket, allItems>>
           /\ \E k \in Items \cup {Reload} :
                 /\ Queues(d, One(k), <<>>, <<>>, <<>>)'
                 /\ IF k = Reload THEN screen'[d] = "basket" ELSE screen'[d] = "item"
<1>1. ~disturbed /\ Quiet
  BY DEF AddToBasket, BasketAppears
<1>2. Queues(d, Zero, <<>>, <<>>, <<>>) /\ \A e \in Phones : Idle(e)
  BY <1>1, OneThing DEF Quiet
<1>3. PICK k \in Items \cup {Reload} :
        /\ Ask(d, k)
        /\ IF k = Reload THEN screen' = [screen EXCEPT ![d] = "basket"]
           ELSE screen[d] = "item" /\ UNCHANGED screen
  <2>1. CASE \E x \in Items : AddToBasket(d, x)
    BY <2>1, ReloadAssumption DEF AddToBasket
  <2>2. CASE BasketAppears(d)
    BY <2>2 DEF BasketAppears
  <2> QED
    BY <2>1, <2>2
<1>4. /\ UNCHANGED <<server, used, wanted, basket, allItems, mainQ, pending, fetches>>
      /\ taps' = [taps EXCEPT ![d] = taps[d] + 1]
  BY DEF AddToBasket, BasketAppears, Tap
<1>5. asked' = [asked EXCEPT ![d] = One(k)]
  BY <1>2, <1>3, AskedOne DEF Queues
<1>6. Queues(d, One(k), <<>>, <<>>, <<>>)' /\ Local(d)
  BY <1>2, <1>3, <1>4, <1>5 DEF Queues, Local, TypeOK, One
<1>7. IF k = Reload THEN screen'[d] = "basket" ELSE screen'[d] = "item"
  BY <1>3 DEF TypeOK
<1> QED
  BY <1>1, <1>2, <1>4, <1>6, <1>7

(* Leaving the list. *)
LEMMA LeaveEffect ==
    ASSUME TypeOK, NEW d \in Phones, ItemAppears(d)
    PROVE  /\ Local(d) /\ screen'[d] = "item"
           /\ UNCHANGED <<server, used, wanted, basket, allItems, taps, disturbed,
                          asked, mainQ, pending, fetches>>
  BY DEF ItemAppears, Local, TypeOK

(* A restart, of a phone that waits for nothing. *)
LEMMA RestartEffect ==
    ASSUME TypeOK, NEW d \in Phones, ~disturbed', Restarted(d)
    PROVE  /\ ~disturbed /\ Idle(d) /\ Idle(d)'
           /\ screen'[d] = "item"
           /\ UNCHANGED <<server, used, wanted>>
           /\ \A e \in Phones \ {d} :
                 /\ asked'[e] = asked[e] /\ mainQ'[e] = mainQ[e]
                 /\ pending'[e] = pending[e] /\ fetches'[e] = fetches[e]
                 /\ basket'[e] = basket[e] /\ allItems'[e] = allItems[e]
                 /\ screen'[e] = screen[e]
<1>1. ~disturbed /\ Idle(d)
  BY DEF Restarted
<1>2. pending' = [pending EXCEPT ![d] =
                    [i \in DOMAIN pending[d] |-> [pending[d][i] EXCEPT !.row = FALSE]]]
  BY DEF Restarted
<1>3. pending'[d] = <<>>
  <2>1. pending[d] = <<>> /\ DOMAIN pending[d] = {}
    BY <1>1 DEF Idle
  <2>2. [i \in DOMAIN pending[d] |-> [pending[d][i] EXCEPT !.row = FALSE]] = <<>>
    BY <2>1
  <2> QED
    BY <1>2, <2>2 DEF TypeOK
<1>4. /\ asked'[d] = [k \in Items \cup {Reload} |-> 0] /\ mainQ'[d] = <<>>
      /\ fetches'[d] = <<>> /\ screen'[d] = "item"
  BY DEF Restarted, TypeOK
<1>5. \A e \in Phones \ {d} :
        /\ asked'[e] = asked[e] /\ mainQ'[e] = mainQ[e]
        /\ pending'[e] = pending[e] /\ fetches'[e] = fetches[e]
        /\ basket'[e] = basket[e] /\ allItems'[e] = allItems[e]
        /\ screen'[e] = screen[e]
  BY <1>2 DEF Restarted, TypeOK
<1> QED
  BY <1>1, <1>3, <1>4, <1>5 DEF Restarted, Idle

(* A row is deleted while everything else is finished. *)
LEMMA DeleteEffect ==
    ASSUME TypeOK, NEW d \in Phones, NEW x \in Items, ~disturbed',
           DeleteRow(d, x), basket[d] # NoBasket
    PROVE  /\ ~disturbed /\ \A e \in Phones : Idle(e)
           /\ Local(d) /\ taps' = [taps EXCEPT ![d] = taps[d] + 1]
           /\ UNCHANGED <<server, used, screen>> /\ screen[d] = "basket"
           /\ wanted' = Without(wanted, x) /\ allItems'[d] = Without(allItems[d], x)
           /\ basket'[d] = [basket[d] EXCEPT !.items = Without(basket[d].items, x)]
           /\ \E w \in Write :
                 /\ Queues(d, Zero, <<>>, <<w>>, <<>>)'
                 /\ w.op = "update" /\ w.id = basket[d].id /\ w.row = TRUE
                 /\ w.items = Without(basket[d].items, x)
<1> DEFINE left == Without(basket[d].items, x)
           v == [op |-> "update", id |-> basket[d].id, items |-> left, row |-> TRUE]
<1>1. ~disturbed /\ Quiet
  BY DEF DeleteRow
<1>2. Queues(d, Zero, <<>>, <<>>, <<>>) /\ \A e \in Phones : Idle(e)
  BY <1>1, OneThing DEF Quiet
<1>3. PICK w \in Write : w = v
  <2>1. basket[d].id \in Ids /\ basket[d].items \in Bag
    BY ObjectFields DEF TypeOK
  <2>2. left \in Bag
    BY <2>1, BagType
  <2> QED
    BY <2>1, <2>2 DEF Write
<1>4. /\ UNCHANGED <<server, used, asked, mainQ, fetches, screen>> /\ screen[d] = "basket"
      /\ taps' = [taps EXCEPT ![d] = taps[d] + 1] /\ wanted' = Without(wanted, x)
      /\ allItems' = [allItems EXCEPT ![d] = Without(allItems[d], x)]
      /\ basket' = [basket EXCEPT ![d] = [basket[d] EXCEPT !.items = left]]
      /\ pending' = [pending EXCEPT ![d] = Append(pending[d], w)]
  BY <1>3 DEF DeleteRow, Tap, Send
<1>5. pending' = [pending EXCEPT ![d] = <<w>>]
  BY <1>2, <1>4 DEF Queues
<1>6. Queues(d, Zero, <<>>, <<w>>, <<>>)'
  BY <1>2, <1>4, <1>5 DEF Queues, TypeOK, Zero
<1>7. Local(d)
  BY <1>4, <1>5 DEF Local, TypeOK
<1>8. w.op = "update" /\ w.id = basket[d].id /\ w.row = TRUE /\ w.items = left
  BY <1>3
<1>9. allItems'[d] = Without(allItems[d], x) /\ basket'[d] = [basket[d] EXCEPT !.items = left]
  BY <1>4 DEF TypeOK
<1> QED
  BY <1>1, <1>2, <1>4, <1>6, <1>7, <1>8, <1>9

(* The server answers the one question that waits. *)
LEMMA QueryEffect ==
    ASSUME TypeOK, Serial, NEW d \in Phones, NEW k \in Items \cup {Reload}, ~disturbed',
           QueryAnswered(d, k)
    PROVE  /\ Queues(d, One(k), <<>>, <<>>, <<>>) /\ Local(d)
           /\ UNCHANGED <<server, used, wanted, basket, allItems, screen, taps, disturbed,
                          pending, fetches>>
           /\ \E f \in FirstOf(server) :
                 Queues(d, Zero, <<[kind |-> "queried", for |-> k, found |-> f]>>, <<>>, <<>>)'
<1>1. asked[d][k] > 0
  BY DEF QueryAnswered
<1>2. PICK j \in Items \cup {Reload} : Queues(d, One(j), <<>>, <<>>, <<>>)
  <2>1. Zero[k] = 0
    BY DEF Zero
  <2>2. asked[d] # Zero
    BY <1>1, <2>1
  <2>3. Asking(d)
    BY <2>2, OneThing DEF Serial, Running, Writing, Fetching, Queues
  <2> QED
    BY <2>3 DEF Asking
<1>3. Queues(d, One(k), <<>>, <<>>, <<>>)
  <2>1. One(j)[k] = IF k = j THEN 1 ELSE 0
    BY DEF One
  <2> QED
    BY <1>1, <1>2, <2>1 DEF Queues
<1>4. PICK f \in FirstOf(server) : Post(d, [kind |-> "queried", for |-> k, found |-> f])
  <2>1. Overlay(server, pending[d]) = server
    BY <1>3, SeesServer DEF Queues, TypeOK
  <2> QED
    BY <2>1 DEF QueryAnswered
<1>5. UNCHANGED <<server, used, wanted, basket, allItems, screen, taps, pending, fetches,
                  disturbed>>
  BY DEF QueryAnswered
<1>6. mainQ' = [mainQ EXCEPT ![d] = <<[kind |-> "queried", for |-> k, found |-> f]>>]
  BY <1>3, <1>4 DEF Post, Queues
<1>7. asked' = [asked EXCEPT ![d] = Zero]
  <2>1. [One(k) EXCEPT ![k] = One(k)[k] - 1] = Zero
    <3>1. One(k) = [l \in Items \cup {Reload} |-> IF l = k THEN 1 ELSE 0]
           /\ One(k)[k] - 1 = 0
      BY DEF One
    <3>2. [One(k) EXCEPT ![k] = 0] = Zero
      BY <3>1 DEF Zero
    <3> QED
      BY <3>1, <3>2
  <2>2. asked' = [asked EXCEPT ![d] = [asked[d] EXCEPT ![k] = asked[d][k] - 1]]
    BY DEF QueryAnswered
  <2> QED
    BY <1>3, <2>1, <2>2 DEF Queues
<1>8. Local(d)
  BY <1>5, <1>6, <1>7 DEF Local, TypeOK
<1>9. Queues(d, Zero, <<[kind |-> "queried", for |-> k, found |-> f]>>, <<>>, <<>>)'
  <2>1. /\ asked'[d] = Zero
        /\ mainQ'[d] = <<[kind |-> "queried", for |-> k, found |-> f]>>
        /\ pending'[d] = <<>> /\ fetches'[d] = <<>>
    BY <1>3, <1>5, <1>6, <1>7 DEF Queues, TypeOK
  <2> QED
    BY <2>1 DEF Queues, Zero
<1> QED
  BY <1>3, <1>5, <1>8, <1>9

(* The one pending write is applied, or an update finds no document. *)
LEMMA CommitEffect ==
    ASSUME TypeOK, Serial, NEW d \in Phones, ~disturbed', Commit(d)
    PROVE  /\ Local(d)
           /\ UNCHANGED <<used, wanted, basket, allItems, screen, taps, disturbed>>
           /\ \E w \in Write :
                 /\ Queues(d, Zero, <<>>, <<w>>, <<>>)
                 /\ IF w.row THEN Queues(d, Zero, <<[kind |-> "deleted"]>>, <<>>, <<>>)'
                    ELSE Queues(d, Zero, <<>>, <<>>, <<>>)'
                 /\ server' = IF w.op = "set" \/ server[w.id] # NoBasket
                              THEN [server EXCEPT ![w.id] = w.items] ELSE server
<1>1. PICK w \in Write : Queues(d, Zero, <<>>, <<w>>, <<>>)
  <2>1. pending[d] # <<>>
    BY DEF Commit
  <2>2. Writing(d)
    BY <2>1, OneThing DEF Serial, Asking, Running, Fetching, Queues
  <2> QED
    BY <2>2, OneThing
<1>2. Head(pending[d]) = w /\ Tail(pending[d]) = <<>>
  BY <1>1, OnlyEntry DEF Queues
<1>3. /\ pending' = [pending EXCEPT ![d] = <<>>]
      /\ IF w.row THEN Post(d, [kind |-> "deleted"]) ELSE UNCHANGED mainQ
      /\ server' = IF w.op = "set" \/ server[w.id] # NoBasket
                   THEN [server EXCEPT ![w.id] = w.items] ELSE server
      /\ UNCHANGED <<used, asked, fetches, wanted, basket, allItems, screen, taps, disturbed>>
  <2>1. w.op \in {"set", "update"}
    BY DEF Write
  <2> QED
    BY <1>2, <2>1 DEF Commit
<1>4. mainQ' = IF w.row THEN [mainQ EXCEPT ![d] = <<[kind |-> "deleted"]>>] ELSE mainQ
  BY <1>1, <1>3 DEF Post, Queues
<1>5. /\ asked'[d] = Zero /\ pending'[d] = <<>> /\ fetches'[d] = <<>>
      /\ mainQ'[d] = IF w.row THEN <<[kind |-> "deleted"]>> ELSE <<>>
  BY <1>1, <1>3, <1>4 DEF Queues, TypeOK
<1>6. IF w.row THEN Queues(d, Zero, <<[kind |-> "deleted"]>>, <<>>, <<>>)'
      ELSE Queues(d, Zero, <<>>, <<>>, <<>>)'
  BY <1>5 DEF Queues, Zero
<1>7. Local(d)
  BY <1>3, <1>4 DEF Local, TypeOK
<1> QED
  BY <1>1, <1>3, <1>6, <1>7

(* The one list of items comes. *)
LEMMA FetchedEffect ==
    ASSUME TypeOK, Serial, NEW d \in Phones, NEW i \in DOMAIN fetches[d], ~disturbed',
           ItemsFetched(d, i) \/ ItemsMissing(d, i)
    PROVE  /\ Local(d)
           /\ UNCHANGED <<server, used, wanted, basket, screen, taps, disturbed>>
           /\ Queues(d, Zero, <<>>, <<>>, <<>>)'
           /\ \E b \in Bag : Queues(d, Zero, <<>>, <<>>, <<b>>) /\ allItems'[d] = b
<1>1. PICK b \in Bag : Queues(d, Zero, <<>>, <<>>, <<b>>)
  <2>1. fetches[d] # <<>>
    OBVIOUS
  <2>2. Fetching(d)
    BY <2>1, OneThing DEF Serial, Asking, Running, Writing, Queues
  <2> QED
    BY <2>2, OneThing
<1>2. i = 1 /\ fetches[d][i] = b
  BY <1>1, OnlyEntry DEF Queues
<1>3. Fetched(d, i, b) /\ UNCHANGED disturbed
  BY <1>2 DEF ItemsFetched, ItemsMissing
<1>4. /\ UNCHANGED <<server, used, wanted, basket, screen, taps, asked, mainQ, pending>>
      /\ allItems' = [allItems EXCEPT ![d] = b]
      /\ fetches' = [fetches EXCEPT ![d] = SubSeq(fetches[d], 1, i - 1)
                                           \o SubSeq(fetches[d], i + 1, Len(fetches[d]))]
  BY <1>3 DEF Fetched
<1>5. SubSeq(fetches[d], 1, i - 1) \o SubSeq(fetches[d], i + 1, Len(fetches[d])) = <<>>
  <2>1. fetches[d] \in Seq(Bag) /\ Len(fetches[d]) = 1
    BY <1>1 DEF TypeOK, Queues
  <2> DEFINE r == SubSeq(fetches[d], 1, i - 1) \o SubSeq(fetches[d], i + 1, Len(fetches[d]))
  <2>2. r \in Seq(Bag) /\ Len(r) = Len(fetches[d]) - 1
    BY <2>1, WithoutEntry
  <2> HIDE DEF r
  <2>3. r = <<>>
    BY <2>1, <2>2, OnlyEntry
  <2> QED
    BY <2>3 DEF r
<1>6. fetches' = [fetches EXCEPT ![d] = <<>>]
  BY <1>4, <1>5
<1>7. Local(d) /\ allItems'[d] = b
  BY <1>4, <1>6 DEF Local, TypeOK
<1>8. Queues(d, Zero, <<>>, <<>>, <<>>)'
  BY <1>1, <1>4, <1>6 DEF Queues, TypeOK, Zero
<1> QED
  BY <1>1, <1>3, <1>4, <1>7, <1>8

(* The one callback runs.  It adds an item; or it has an object whose items *)
(* are shown.                                                               *)
LEMMA CallbackEffect ==
    ASSUME TypeOK, Serial, NEW d \in Phones, ~disturbed', RunCallback(d)
    PROVE  /\ Local(d)
           /\ UNCHANGED <<server, screen, taps, disturbed>>
           /\ \E c \in Callback :
                 /\ Queues(d, Zero, <<c>>, <<>>, <<>>)
                 /\ \/ /\ c.kind = "queried" /\ c.for \in Items
                       /\ wanted' = With(wanted, c.for)
                       /\ UNCHANGED <<basket, allItems>>
                       /\ \E w \in Write :
                             /\ Queues(d, Zero, <<>>, <<w>>, <<>>)' /\ w.row = FALSE
                             /\ IF c.found = NoBasket
                                THEN /\ w.op = "set" /\ w.id \notin used
                                     /\ used' = used \cup {w.id}
                                     /\ w.items = With(Empty, c.for)
                                ELSE /\ w.op = "update" /\ w.id = c.found.id
                                     /\ UNCHANGED used
                                     /\ w.items = With(c.found.items, c.for)
                    \/ /\ \/ c.kind = "queried" /\ c.for = Reload /\ basket'[d] = c.found
                          \/ c.kind = "deleted" /\ UNCHANGED basket
                       /\ UNCHANGED <<used, wanted>>
                       /\ \/ /\ basket'[d] = NoBasket /\ UNCHANGED allItems
                             /\ Queues(d, Zero, <<>>, <<>>, <<>>)'
                          \/ /\ basket'[d] # NoBasket /\ basket'[d].items = Empty
                             /\ allItems'[d] = Empty
                             /\ Queues(d, Zero, <<>>, <<>>, <<>>)'
                          \/ /\ basket'[d] # NoBasket /\ basket'[d].items \in Bag
                             /\ UNCHANGED allItems
                             /\ Queues(d, Zero, <<>>, <<>>, <<basket[d].items>>)'
<1>1. PICK c \in Callback : Queues(d, Zero, <<c>>, <<>>, <<>>)
  <2>1. mainQ[d] # <<>>
    BY DEF RunCallback
  <2>2. Running(d)
    BY <2>1, OneThing DEF Serial, Asking, Writing, Fetching, Queues
  <2> QED
    BY <2>2, OneThing
<1>2. Head(mainQ[d]) = c /\ Tail(mainQ[d]) = <<>>
  BY <1>1, OnlyEntry DEF Queues
<1>3. /\ mainQ' = [mainQ EXCEPT ![d] = <<>>]
      /\ RunAdd(d, c) \/ RunReload(d, c) \/ RunDeleted(d, c)
      /\ UNCHANGED <<server, asked, taps, disturbed>>
  BY <1>2 DEF RunCallback
<1>4. UNCHANGED screen
  BY <1>3 DEF RunAdd, RunReload, RunDeleted
<1>5. CASE RunAdd(d, c)
  <2>1. PICK w \in Write :
          /\ Send(d, w) /\ w.row = FALSE
          /\ IF c.found = NoBasket
             THEN /\ w.op = "set" /\ w.id \notin used
                  /\ used' = used \cup {w.id}
                  /\ w.items = With(Empty, c.for)
             ELSE /\ w.op = "update" /\ w.id = c.found.id
                  /\ UNCHANGED used
                  /\ w.items = With(c.found.items, c.for)
    <3>1. PICK b \in Ids, m \in Bag :
             LET v == [op |-> IF c.found = NoBasket THEN "set" ELSE "update",
                       id |-> b, items |-> With(m, c.for), row |-> FALSE]
             IN  /\ v \in Write /\ Send(d, v)
                 /\ IF c.found = NoBasket
                    THEN m = Empty /\ b \notin used /\ used' = used \cup {b}
                    ELSE m = c.found.items /\ b = c.found.id /\ UNCHANGED used
      BY <1>5, AddEffect
    <3> DEFINE v == [op |-> IF c.found = NoBasket THEN "set" ELSE "update",
                     id |-> b, items |-> With(m, c.for), row |-> FALSE]
    <3>2. v \in Write /\ Send(d, v)
      BY <3>1
    <3>3. /\ v.id = b /\ v.items = With(m, c.for) /\ v.row = FALSE
          /\ v.op = IF c.found = NoBasket THEN "set" ELSE "update"
      OBVIOUS
    <3> HIDE DEF v
    <3> QED
      BY <3>1, <3>2, <3>3
  <2>2. /\ c.kind = "queried" /\ c.for \in Items /\ wanted' = With(wanted, c.for)
        /\ UNCHANGED <<basket, allItems, fetches>>
    BY <1>5 DEF RunAdd
  <2>3. pending' = [pending EXCEPT ![d] = <<w>>]
    BY <1>1, <2>1, OnlyEntry DEF Queues, Send
  <2>4. asked'[d] = Zero /\ mainQ'[d] = <<>> /\ pending'[d] = <<w>> /\ fetches'[d] = <<>>
    BY <1>1, <1>3, <2>2, <2>3 DEF Queues, TypeOK
  <2>5. Queues(d, Zero, <<>>, <<w>>, <<>>)'
    BY <2>4 DEF Queues, Zero
  <2>6. Local(d)
    BY <1>3, <1>4, <2>2, <2>3 DEF Local, TypeOK
  <2> QED
    BY <1>1, <1>3, <1>4, <2>1, <2>2, <2>5, <2>6
<1>6. CASE RunReload(d, c) \/ RunDeleted(d, c)
  <2>1. PICK o \in Object \cup {NoBasket} :
          /\ GetBasketItems(d, o)
          /\ \/ /\ c.kind = "queried" /\ c.for = Reload /\ o = c.found
                /\ basket' = [basket EXCEPT ![d] = o]
             \/ c.kind = "deleted" /\ o = basket[d] /\ UNCHANGED basket
    BY <1>6, CallbackObject DEF RunReload, RunDeleted, TypeOK
  <2>2. basket'[d] = o /\ UNCHANGED <<used, pending, wanted>>
    BY <1>6, <2>1 DEF RunReload, RunDeleted, TypeOK
  <2>3. \/ o = NoBasket /\ UNCHANGED <<fetches, allItems>>
        \/ /\ o # NoBasket /\ o.items = Empty /\ UNCHANGED fetches
           /\ allItems' = [allItems EXCEPT ![d] = Empty]
        \/ /\ o # NoBasket /\ o.items \in Bag /\ UNCHANGED allItems
           /\ fetches' = [fetches EXCEPT ![d] = <<o.items>>]
    BY <1>1, <2>1, OnlyEntry, ObjectFields DEF GetBasketItems, Queues
  <2>4. asked'[d] = Zero /\ mainQ'[d] = <<>> /\ pending'[d] = <<>>
    BY <1>1, <1>3, <2>2 DEF Queues, TypeOK
  <2>5. \/ o = NoBasket /\ UNCHANGED allItems /\ fetches'[d] = <<>>
        \/ o # NoBasket /\ o.items = Empty /\ allItems'[d] = Empty /\ fetches'[d] = <<>>
        \/ o # NoBasket /\ o.items \in Bag /\ UNCHANGED allItems /\ fetches'[d] = <<o.items>>
    BY <1>1, <2>3 DEF Queues, TypeOK
  <2>6. Local(d)
    <3>1. \A e \in Phones \ {d} : /\ fetches'[e] = fetches[e] /\ allItems'[e] = allItems[e]
                                  /\ basket'[e] = basket[e] /\ mainQ'[e] = mainQ[e]
      BY <1>3, <2>1, <2>3 DEF TypeOK
    <3> QED
      BY <1>3, <1>4, <2>2, <3>1 DEF Local
  <2>7. \/ basket'[d] = NoBasket /\ UNCHANGED allItems /\ Queues(d, Zero, <<>>, <<>>, <<>>)'
        \/ /\ basket'[d] # NoBasket /\ basket'[d].items = Empty /\ allItems'[d] = Empty
           /\ Queues(d, Zero, <<>>, <<>>, <<>>)'
        \/ /\ basket'[d] # NoBasket /\ basket'[d].items \in Bag /\ UNCHANGED allItems
           /\ Queues(d, Zero, <<>>, <<>>, <<basket[d].items>>)'
    BY <2>2, <2>4, <2>5 DEF Queues, Zero
  <2>8. \/ c.kind = "queried" /\ c.for = Reload /\ basket'[d] = c.found
        \/ c.kind = "deleted" /\ UNCHANGED basket
    BY <2>1, <2>2
  <2> QED
    BY <1>1, <1>3, <1>4, <2>2, <2>6, <2>7, <2>8
<1> QED
  BY <1>3, <1>5, <1>6

(* The other phones of a busy phone wait for nothing; baskets are settled    *)
(* while no new one is on its way.                                           *)
LEMMA BusyAlone ==
    ASSUME TypeOK, Undisturbed, ~disturbed, NEW d \in Phones, \A e \in Phones \ {d} : Idle(e)
    PROVE  /\ \A e \in Phones \ {d} : /\ asked[e] = Zero /\ mainQ[e] = <<>>
                                      /\ pending[e] = <<>> /\ fetches[e] = <<>>
           /\ pending[d] = <<>> \/ pending[d][1].op # "set" => Settled
  BY DEF Undisturbed, Creating, Idle, Zero

(* Of phones that do one thing at a time, the others do nothing. *)
LEMMA OthersIdle ==
    ASSUME TypeOK, Serial, NEW d \in Phones, ~ Queues(d, Zero, <<>>, <<>>, <<>>)
    PROVE  \A e \in Phones \ {d} : Idle(e)
  BY OneThing DEF Serial

(* A phone that is alone at work, and then waits for one thing or nothing.  *)
LEMMA SerialNext ==
    ASSUME TypeOK, TypeOK', NEW d \in Phones, Local(d), \A e \in Phones \ {d} : Idle(e),
           \/ Queues(d, Zero, <<>>, <<>>, <<>>)'
           \/ \E k \in Items \cup {Reload} : Queues(d, One(k), <<>>, <<>>, <<>>)'
           \/ \E c \in Callback : Queues(d, Zero, <<c>>, <<>>, <<>>)'
           \/ \E w \in Write : Queues(d, Zero, <<>>, <<w>>, <<>>)'
           \/ \E b \in Bag : Queues(d, Zero, <<>>, <<>>, <<b>>)'
    PROVE  Serial' /\ \A e \in Phones \ {d} : pending'[e] = <<>> /\ mainQ'[e] = <<>>
<1>1. \A e \in Phones \ {d} : Idle(e)'
  BY DEF Local, Idle
<1>2. (Idle(d) \/ Asking(d) \/ Running(d) \/ Writing(d) \/ Fetching(d))'
  <2>1. \A c \in Callback : <<c>> \in Seq(Callback) /\ Len(<<c>>) = 1
    OBVIOUS
  <2>2. \A c \in Write : <<c>> \in Seq(Write) /\ Len(<<c>>) = 1
    OBVIOUS
  <2>3. \A c \in Bag : <<c>> \in Seq(Bag) /\ Len(<<c>>) = 1
    OBVIOUS
  <2> QED
    BY <2>1, <2>2, <2>3 DEF Queues, Idle, Asking, Running, Writing, Fetching, Zero, One
<1> QED
  BY <1>1, <1>2 DEF Serial, Idle

(* A step that leaves the queues and the baskets as they are. *)
LEMMA SameUndisturbed ==
    ASSUME TypeOK, Undisturbed, ~disturbed, UNCHANGED <<server, used>>,
           \A e \in Phones : /\ asked'[e] = asked[e] /\ mainQ'[e] = mainQ[e]
                             /\ pending'[e] = pending[e] /\ fetches'[e] = fetches[e]
    PROVE  Undisturbed'
<1>1. \A e \in Phones : /\ Idle(e)' <=> Idle(e)
                        /\ Asking(e)' <=> Asking(e)
                        /\ Running(e)' <=> Running(e)
                        /\ Writing(e)' <=> Writing(e)
                        /\ Fetching(e)' <=> Fetching(e)
  BY DEF Idle, Asking, Running, Writing, Fetching, Queues, Zero, One
<1>2. \A e \in Phones : Creating(e)' <=> Creating(e)
  BY DEF Creating
<1>3. \A e \in Phones : CreatesFirst(e) => CreatesFirst(e)'
  BY <1>2 DEF CreatesFirst
<1>4. \A e \in Phones : FindsNothing(e) => FindsNothing(e)'
  BY DEF FindsNothing
<1>5. Serial'
  BY <1>1 DEF Undisturbed, Serial
<1>6. Settled \/ \E e \in Phones : Creating(e)
  BY DEF Undisturbed
<1>7. Settled' \/ \E e \in Phones : Creating(e)'
  BY <1>2, <1>6 DEF Settled
<1> QED
  BY <1>3, <1>4, <1>5, <1>7 DEF Undisturbed

(* A step of a phone after which nobody has a callback, and nobody a new    *)
(* basket under way.                                                        *)
LEMMA QuietUndisturbed ==
    ASSUME TypeOK, TypeOK', Undisturbed, ~disturbed, NEW d \in Phones, Local(d),
           \A e \in Phones \ {d} : Idle(e), Settled', UNCHANGED used,
           \/ Queues(d, Zero, <<>>, <<>>, <<>>)'
           \/ \E k \in Items \cup {Reload} : Queues(d, One(k), <<>>, <<>>, <<>>)'
           \/ \E w \in Write : Queues(d, Zero, <<>>, <<w>>, <<>>)' /\ w.op # "set"
           \/ \E b \in Bag : Queues(d, Zero, <<>>, <<>>, <<b>>)'
           \/ Queues(d, Zero, <<[kind |-> "deleted"]>>, <<>>, <<>>)'
           \/ \E k \in Items \cup {Reload}, f \in Object \cup {NoBasket} :
                 /\ Queues(d, Zero, <<[kind |-> "queried", for |-> k, found |-> f]>>, <<>>, <<>>)'
                 /\ f = NoBasket => used = {}
    PROVE  Undisturbed'
<1>1. Serial' /\ \A e \in Phones \ {d} : pending'[e] = <<>> /\ mainQ'[e] = <<>>
  <2>1. [kind |-> "deleted"] \in Callback
    BY DEF Callback
  <2> QED
    BY <2>1, QueriedType, SerialNext
<1>2. pending'[d] # <<>> => pending'[d][1].op # "set"
  <2>1. pending'[d] = <<>> \/ \E w \in Write : pending'[d] = <<w>> /\ w.op # "set"
    BY DEF Queues
  <2> QED
    BY <2>1, OnlyEntry
<1>3. FindsNothing(d)'
  <2>1. \/ mainQ'[d] = <<>>
        \/ \E c \in {[kind |-> "deleted"]} : mainQ'[d] = <<c>> /\ c.kind # "queried"
        \/ \E k \in Items \cup {Reload}, f \in Object \cup {NoBasket} :
              /\ mainQ'[d] = <<[kind |-> "queried", for |-> k, found |-> f]>>
              /\ f = NoBasket => used = {}
    BY DEF Queues
  <2>2. CASE mainQ'[d] = <<>>
    BY <2>2 DEF FindsNothing
  <2>3. CASE \E c \in {[kind |-> "deleted"]} : mainQ'[d] = <<c>> /\ c.kind # "queried"
    BY <2>3 DEF FindsNothing
  <2>4. CASE \E k \in Items \cup {Reload}, f \in Object \cup {NoBasket} :
               /\ mainQ'[d] = <<[kind |-> "queried", for |-> k, found |-> f]>>
               /\ f = NoBasket => used = {}
    <3>1. mainQ'[d][1].found = NoBasket => used' = {}
      BY <2>4
    <3> QED
      BY <3>1 DEF FindsNothing
  <2> QED
    BY <2>1, <2>2, <2>3, <2>4
<1>4. \A e \in Phones : CreatesFirst(e)' /\ FindsNothing(e)'
  BY <1>1, <1>2, <1>3 DEF CreatesFirst, FindsNothing
<1>5. \A i, j \in used' : i = j
  BY DEF Undisturbed
<1> QED
  BY <1>1, <1>4, <1>5 DEF Undisturbed

(* Every step, taken undisturbed, keeps the phones taking turns. *)
LEMMA UndisturbedStep ==
    ASSUME TypeOK, TypeOK', Undisturbed, Next
    PROVE  Undisturbed'
<1> SUFFICES ASSUME ~disturbed' PROVE Undisturbed'
  BY DEF Undisturbed
<1>1. ASSUME NEW d \in Phones, (\E x \in Items : AddToBasket(d, x)) \/ BasketAppears(d)
      PROVE  Undisturbed'
  <2>1. /\ ~disturbed /\ \A e \in Phones : Idle(e)
        /\ Local(d) /\ UNCHANGED <<server, used>>
        /\ \E k \in Items \cup {Reload} : Queues(d, One(k), <<>>, <<>>, <<>>)'
    BY <1>1, AskEffect
  <2>2. Settled'
    BY <2>1, BusyAlone DEF Idle, Settled
  <2> QED
    BY <2>1, <2>2, QuietUndisturbed
<1>2. ASSUME NEW d \in Phones, ItemAppears(d)
      PROVE  Undisturbed'
  <2>1. UNCHANGED <<server, used, disturbed, asked, mainQ, pending, fetches>>
    BY <1>2, LeaveEffect
  <2> QED
    BY <2>1, SameUndisturbed
<1>3. ASSUME NEW d \in Phones, Restarted(d)
      PROVE  Undisturbed'
  <2>1. ~disturbed /\ UNCHANGED <<server, used>>
    BY <1>3, RestartEffect
  <2>2. \A e \in Phones : /\ asked'[e] = asked[e] /\ mainQ'[e] = mainQ[e]
                          /\ pending'[e] = pending[e] /\ fetches'[e] = fetches[e]
    BY <1>3, RestartEffect DEF Idle
  <2> QED
    BY <2>1, <2>2, SameUndisturbed
<1>4. ASSUME NEW d \in Phones, NEW x \in Items, DeleteRow(d, x), basket[d] # NoBasket
      PROVE  Undisturbed'
  <2>1. /\ ~disturbed /\ \A e \in Phones : Idle(e)
        /\ Local(d) /\ UNCHANGED <<server, used>>
    BY <1>4, DeleteEffect
  <2>2. PICK w \in Write : Queues(d, Zero, <<>>, <<w>>, <<>>)' /\ w.op = "update"
    BY <1>4, DeleteEffect
  <2>3. Settled'
    BY <2>1, BusyAlone DEF Idle, Settled
  <2> QED
    BY <2>1, <2>2, <2>3, QuietUndisturbed
<1>5. ASSUME NEW d \in Phones, NEW k \in Items \cup {Reload}, QueryAnswered(d, k), ~disturbed
      PROVE  Undisturbed'
  <2>1. Serial
    BY <1>5 DEF Undisturbed
  <2>2. /\ Queues(d, One(k), <<>>, <<>>, <<>>) /\ Local(d)
        /\ UNCHANGED <<server, used>>
    BY <1>5, <2>1, QueryEffect
  <2>3. PICK f \in FirstOf(server) :
          Queues(d, Zero, <<[kind |-> "queried", for |-> k, found |-> f]>>, <<>>, <<>>)'
    BY <1>5, <2>1, QueryEffect
  <2>4. \A e \in Phones \ {d} : Idle(e)
    <3>1. One(k) # Zero
      BY DEF One, Zero
    <3> QED
      BY <2>1, <2>2, <3>1, OthersIdle DEF Queues
  <2>5. Settled /\ Settled'
    BY <1>5, <2>2, <2>4, BusyAlone DEF Queues, Settled
  <2>6. f \in Object \cup {NoBasket} /\ (f = NoBasket => \A b \in Ids : server[b] = NoBasket)
    BY <2>3, FirstOfShows DEF TypeOK
  <2>7. f = NoBasket => used = {}
    BY <2>5, <2>6 DEF Settled, TypeOK
  <2> QED
    BY <1>5, <2>2, <2>3, <2>4, <2>5, <2>6, <2>7, QuietUndisturbed
<1>6. ASSUME NEW d \in Phones, Commit(d), ~disturbed
      PROVE  Undisturbed'
  <2>1. Serial
    BY <1>6 DEF Undisturbed
  <2>2. Local(d) /\ UNCHANGED used
    BY <1>6, <2>1, CommitEffect
  <2>3. PICK w \in Write :
          /\ Queues(d, Zero, <<>>, <<w>>, <<>>)
          /\ \/ Queues(d, Zero, <<[kind |-> "deleted"]>>, <<>>, <<>>)'
             \/ Queues(d, Zero, <<>>, <<>>, <<>>)'
          /\ server' = IF w.op = "set" \/ server[w.id] # NoBasket
                       THEN [server EXCEPT ![w.id] = w.items] ELSE server
    BY <1>6, <2>1, CommitEffect
  <2>4. pending[d] # <<>> /\ pending[d][1] = w
    BY <2>3, OnlyEntry DEF Queues
  <2>5. \A e \in Phones \ {d} : Idle(e)
    BY <2>1, <2>3, <2>4, OthersIdle DEF Queues
  <2>6. w.id \in Ids /\ w.items \in Bag /\ w.items # NoBasket
    BY NoBasketAssumption DEF Write
  <2>7. CASE w.op = "set"
    <3>1. Creating(d)
      BY <1>6, <2>4, <2>7 DEF Undisturbed, CreatesFirst
    <3>2. used = {w.id} /\ \A i \in Ids : server[i] = NoBasket
      BY <2>4, <3>1 DEF Creating
    <3>3. server' = [server EXCEPT ![w.id] = w.items]
      BY <2>3, <2>7
    <3>4. Settled'
      BY <2>2, <2>6, <3>2, <3>3 DEF Settled, TypeOK, Docs
    <3> QED
      BY <1>6, <2>2, <2>3, <2>5, <3>4, QuietUndisturbed
  <2>8. CASE w.op # "set"
    <3>1. Settled
      BY <1>6, <2>4, <2>5, <2>8, BusyAlone
    <3>2. server' = server \/ (server[w.id] # NoBasket /\ server' = [server EXCEPT ![w.id] = w.items])
      BY <2>3, <2>8
    <3>3. Settled'
      BY <2>2, <2>6, <3>1, <3>2 DEF Settled, TypeOK, Docs
    <3> QED
      BY <1>6, <2>2, <2>3, <2>5, <3>3, QuietUndisturbed
  <2> QED
    BY <2>7, <2>8
<1>7. ASSUME NEW d \in Phones, NEW i \in DOMAIN fetches[d], ~disturbed,
             ItemsFetched(d, i) \/ ItemsMissing(d, i)
      PROVE  Undisturbed'
  <2>1. Serial
    BY <1>7 DEF Undisturbed
  <2>2. /\ Local(d) /\ UNCHANGED <<server, used>> /\ Queues(d, Zero, <<>>, <<>>, <<>>)'
        /\ \E b \in Bag : Queues(d, Zero, <<>>, <<>>, <<b>>)
    BY <1>7, <2>1, FetchedEffect
  <2>3. \A e \in Phones \ {d} : Idle(e)
    BY <2>1, <2>2, OthersIdle, OnlyEntry DEF Queues
  <2>4. Settled'
    BY <1>7, <2>2, <2>3, BusyAlone DEF Queues, Settled
  <2> QED
    BY <1>7, <2>2, <2>3, <2>4, QuietUndisturbed
<1>8. ASSUME NEW d \in Phones, RunCallback(d), ~disturbed
      PROVE  Undisturbed'
  <2>1. Serial
    BY <1>8 DEF Undisturbed
  <2>2. Local(d) /\ UNCHANGED server
    BY <1>8, <2>1, CallbackEffect
  <2>3. PICK c \in Callback :
          /\ Queues(d, Zero, <<c>>, <<>>, <<>>)
          /\ \/ /\ c.kind = "queried"
                /\ \E w \in Write :
                      /\ Queues(d, Zero, <<>>, <<w>>, <<>>)'
                      /\ IF c.found = NoBasket
                         THEN w.op = "set" /\ used' = used \cup {w.id}
                         ELSE w.op = "update" /\ UNCHANGED used
             \/ /\ UNCHANGED used
                /\ \/ Queues(d, Zero, <<>>, <<>>, <<>>)'
                   \/ \E b \in Bag : Queues(d, Zero, <<>>, <<>>, <<b>>)'
    <3>1. PICK c \in Callback :
            /\ Queues(d, Zero, <<c>>, <<>>, <<>>)
            /\ \/ /\ c.kind = "queried"
                  /\ \E w \in Write :
                        /\ Queues(d, Zero, <<>>, <<w>>, <<>>)'
                        /\ IF c.found = NoBasket
                           THEN w.op = "set" /\ used' = used \cup {w.id}
                           ELSE w.op = "update" /\ UNCHANGED used
               \/ /\ UNCHANGED used
                  /\ \/ Queues(d, Zero, <<>>, <<>>, <<>>)'
                     \/ basket'[d].items \in Bag
                        /\ Queues(d, Zero, <<>>, <<>>, <<basket[d].items>>)'
      BY <1>8, <2>1, CallbackEffect
    <3>2. ASSUME basket'[d].items \in Bag, Queues(d, Zero, <<>>, <<>>, <<basket[d].items>>)'
          PROVE  \E b \in Bag : Queues(d, Zero, <<>>, <<>>, <<b>>)'
      BY <3>2 DEF Queues
    <3> QED
      BY <3>1, <3>2
  <2>4. mainQ[d] # <<>> /\ mainQ[d][1] = c /\ pending[d] = <<>>
    BY <2>3, OnlyEntry DEF Queues
  <2>5. \A e \in Phones \ {d} : Idle(e)
    BY <2>1, <2>3, <2>4, OthersIdle DEF Queues
  <2>6. Settled
    BY <1>8, <2>4, <2>5, BusyAlone
  <2>7. CASE UNCHANGED used
    <3>1. Settled'
      BY <2>2, <2>6, <2>7 DEF Settled
    <3>2. \/ \E w \in Write : Queues(d, Zero, <<>>, <<w>>, <<>>)' /\ w.op # "set"
          \/ c.kind = "queried" /\ c.found = NoBasket
             /\ \E w \in Write : Queues(d, Zero, <<>>, <<w>>, <<>>)' /\ used' = used \cup {w.id}
          \/ Queues(d, Zero, <<>>, <<>>, <<>>)'
          \/ \E b \in Bag : Queues(d, Zero, <<>>, <<>>, <<b>>)'
      BY <2>3
    <3>3. ~ (c.kind = "queried" /\ c.found = NoBasket
             /\ \E w \in Write : Queues(d, Zero, <<>>, <<w>>, <<>>)' /\ used' = used \cup {w.id})
      BY <1>8, <2>4, <2>7 DEF Undisturbed, FindsNothing
    <3> QED
      BY <1>8, <2>2, <2>5, <2>7, <3>1, <3>2, <3>3, QuietUndisturbed
  <2>8. ASSUME NEW w \in Write, c.kind = "queried", c.found = NoBasket,
               Queues(d, Zero, <<>>, <<w>>, <<>>)', w.op = "set", used' = used \cup {w.id}
        PROVE  Undisturbed'
    <3>1. used = {} /\ used' = {w.id}
      BY <1>8, <2>4, <2>8 DEF Undisturbed, FindsNothing
    <3>2. \A i \in Ids : server'[i] = NoBasket
      BY <2>2, <2>6, <3>1 DEF Settled
    <3>3. Serial' /\ \A e \in Phones \ {d} : pending'[e] = <<>> /\ mainQ'[e] = <<>>
      BY <2>2, <2>5, <2>8, SerialNext
    <3>4. pending'[d] = <<w>> /\ pending'[d] # <<>> /\ pending'[d][1] = w /\ mainQ'[d] = <<>>
      BY <2>8, OnlyEntry DEF Queues
    <3>5. Creating(d)'
      BY <2>8, <3>1, <3>2, <3>4 DEF Creating
    <3>6. \A e \in Phones : CreatesFirst(e)' /\ FindsNothing(e)'
      BY <3>3, <3>4, <3>5 DEF CreatesFirst, FindsNothing
    <3> QED
      BY <3>1, <3>3, <3>5, <3>6 DEF Undisturbed
  <2> QED
    BY <2>3, <2>7, <2>8
<1>9. ~disturbed \/ \E d \in Phones : \/ \E x \in Items : AddToBasket(d, x) \/ DeleteRow(d, x)
                                      \/ BasketAppears(d) \/ Crash(d)
  BY DEF Next, ItemAppears, QueryAnswered, Commit, ItemsFetched, ItemsMissing, RunCallback
<1> QED
  BY <1>1, <1>2, <1>3, <1>4, <1>5, <1>6, <1>7, <1>8, <1>9 DEF Next, DeleteRow, Crash

(* So it is in every behaviour. *)
LEMMA NeverDisturbed == Spec => []Undisturbed
<1>1. Init => Undisturbed
  <2> SUFFICES ASSUME Init PROVE Undisturbed
    OBVIOUS
  <2>1. \A d \in Phones : Idle(d) /\ pending[d] = <<>> /\ mainQ[d] = <<>>
    BY DEF Init, Idle
  <2>2. Settled /\ \A i, j \in used : i = j
    <3>1. NoBasket \notin [Items -> {0, 1}]
      BY NoBasketAssumption DEF Bag
    <3> QED
      BY <3>1 DEF Init, Settled
  <2> QED
    BY <2>1, <2>2 DEF Undisturbed, Serial, CreatesFirst, FindsNothing
<1>2. TypeOK /\ TypeOK' /\ Undisturbed /\ [Next]_vars => Undisturbed'
  <2> SUFFICES ASSUME TypeOK, TypeOK', Undisturbed, [Next]_vars PROVE Undisturbed'
    OBVIOUS
  <2>1. CASE UNCHANGED vars
    BY <2>1, SameUndisturbed DEF vars, Undisturbed
  <2> QED
    BY <2>1, UndisturbedStep
<1> QED
  BY <1>1, <1>2, TypeCorrect, PTL DEF Spec

(* A user to whom nothing goes wrong has one basket. *)
THEOREM SingleBasket == Spec => []OneBasket
<1>1. Undisturbed => OneBasket
  BY DEF Undisturbed, OneBasket
<1> QED
  BY <1>1, NeverDisturbed, PTL

(* A step of an undisturbed phone, by its effect: the queues, the screen and *)
(* the taps of that phone before and after.                                  *)
LEMMA TapsGrow ==
    ASSUME TypeOK, Next
    PROVE  \A e \in Phones : taps[e] \in Nat /\ taps'[e] \in Nat /\ taps[e] <= taps'[e]
<1>1. taps' = taps \/ \E d \in Phones : taps' = [taps EXCEPT ![d] = @ + 1]
  <2>1. ASSUME NEW d \in Phones, NEW x \in Items, AddToBasket(d, x) \/ DeleteRow(d, x)
        PROVE  taps' = taps \/ taps' = [taps EXCEPT ![d] = @ + 1]
    BY <2>1 DEF AddToBasket, DeleteRow, Tap
  <2>2. ASSUME NEW d \in Phones, BasketAppears(d) \/ ItemAppears(d)
        PROVE  taps' = taps \/ taps' = [taps EXCEPT ![d] = @ + 1]
    BY <2>2 DEF BasketAppears, ItemAppears, Tap
  <2>3. ASSUME NEW d \in Phones, NEW k \in Items \cup {Reload}, QueryAnswered(d, k)
        PROVE  taps' = taps
    BY <2>3 DEF QueryAnswered
  <2>4. ASSUME NEW d \in Phones, Commit(d)
        PROVE  taps' = taps
    BY <2>4 DEF Commit
  <2>5. ASSUME NEW d \in Phones, NEW i \in DOMAIN fetches[d],
               ItemsFetched(d, i) \/ ItemsMissing(d, i)
        PROVE  taps' = taps
    BY <2>5 DEF ItemsFetched, ItemsMissing, Fetched
  <2>6. ASSUME NEW d \in Phones, RunCallback(d) \/ Crash(d)
        PROVE  taps' = taps
    BY <2>6 DEF RunCallback, Crash
  <2> QED
    BY <2>1, <2>2, <2>3, <2>4, <2>5, <2>6 DEF Next
<1>2. taps \in [Phones -> Nat]
  BY DEF TypeOK
<1>3. CASE taps' = taps
  BY <1>2, <1>3
<1>4. ASSUME NEW d \in Phones, taps' = [taps EXCEPT ![d] = @ + 1]
      PROVE  \A e \in Phones : taps[e] \in Nat /\ taps'[e] \in Nat /\ taps[e] <= taps'[e]
  BY <1>2, <1>4
<1> QED
  BY <1>1, <1>3, <1>4

(* What has been disturbed stays so. *)
LEMMA StaysUndisturbed ==
    ASSUME Next, ~disturbed'
    PROVE  ~disturbed
<1>1. PICK d \in Phones :
        \/ \E x \in Items : AddToBasket(d, x) \/ DeleteRow(d, x)
        \/ BasketAppears(d) \/ ItemAppears(d)
        \/ \E k \in Items \cup {Reload} : QueryAnswered(d, k)
        \/ Commit(d)
        \/ \E i \in DOMAIN fetches[d] : ItemsFetched(d, i) \/ ItemsMissing(d, i)
        \/ RunCallback(d)
        \/ Crash(d)
  BY DEF Next
<1>2. CASE (\E x \in Items : AddToBasket(d, x) \/ DeleteRow(d, x)) \/ BasketAppears(d)
  BY <1>2 DEF AddToBasket, DeleteRow, BasketAppears, Restarted
<1>3. CASE ItemAppears(d) \/ RunCallback(d) \/ Crash(d)
  BY <1>3 DEF ItemAppears, RunCallback, Crash, Restarted
<1>4. CASE Commit(d) \/ \E k \in Items \cup {Reload} : QueryAnswered(d, k)
  BY <1>4 DEF Commit, QueryAnswered
<1>5. CASE \E i \in DOMAIN fetches[d] : ItemsFetched(d, i) \/ ItemsMissing(d, i)
  BY <1>5 DEF ItemsFetched, ItemsMissing
<1> QED
  BY <1>1, <1>2, <1>3, <1>4, <1>5

(* One phone still, before such a step. *)
LEMMA BeforeToo ==
    ASSUME TypeOK, Next, ~disturbed', OnePhone'
    PROVE  ~disturbed /\ OnePhone
<1>1. OnePhone
  BY TapsGrow DEF OnePhone
<1> QED
  BY <1>1, StaysUndisturbed

(* A phone without a tap does nothing but appear and crash. *)
LEMMA UntouchedStep ==
    ASSUME TypeOK, Undisturbed, Untouched, Next
    PROVE  Untouched'
<1> SUFFICES ASSUME ~disturbed', ~disturbed PROVE Untouched'
  BY StaysUndisturbed DEF Untouched
<1>1. Serial
  BY DEF Undisturbed
<1>2. ASSUME NEW d \in Phones, Local(d), taps'[d] > 0
      PROVE  Untouched'
  BY <1>2 DEF Untouched, Local, Idle
<1>3. ASSUME NEW d \in Phones, (\E x \in Items : AddToBasket(d, x)) \/ BasketAppears(d)
      PROVE  Untouched'
  <2>1. Local(d) /\ taps' = [taps EXCEPT ![d] = taps[d] + 1]
    BY <1>3, AskEffect
  <2>2. taps'[d] > 0
    BY <2>1 DEF TypeOK
  <2> QED
    BY <1>2, <2>1, <2>2
<1>4. ASSUME NEW d \in Phones, ItemAppears(d)
      PROVE  Untouched'
  <2>1. UNCHANGED <<taps, asked, mainQ, pending, fetches>>
    BY <1>4, LeaveEffect
  <2>2. \A e \in Phones : screen'[e] = screen[e] \/ screen'[e] = "item"
    BY <1>4 DEF ItemAppears, TypeOK
  <2> QED
    BY <2>1, <2>2 DEF Untouched, Idle
<1>5. ASSUME NEW d \in Phones, Restarted(d), \A e \in Phones : taps'[e] = 0 => taps[e] = 0
      PROVE  Untouched'
  BY <1>5, RestartEffect DEF Untouched, Idle
<1>6. ASSUME NEW d \in Phones, NEW x \in Items, DeleteRow(d, x), basket[d] # NoBasket
      PROVE  Untouched'
  <2>1. Local(d) /\ taps' = [taps EXCEPT ![d] = taps[d] + 1]
    BY <1>6, DeleteEffect
  <2>2. taps'[d] > 0
    BY <2>1 DEF TypeOK
  <2> QED
    BY <1>2, <2>1, <2>2
<1>7. ASSUME NEW d \in Phones, ~Idle(d), Local(d), UNCHANGED taps
      PROVE  Untouched'
  <2>1. taps[d] # 0 /\ taps[d] \in Nat
    BY <1>7 DEF Untouched, TypeOK
  <2> QED
    BY <1>2, <1>7, <2>1
<1>8. ASSUME NEW d \in Phones, NEW k \in Items \cup {Reload}, QueryAnswered(d, k)
      PROVE  Untouched'
  <2>1. ~Idle(d)
    BY <1>8 DEF QueryAnswered, Idle
  <2> QED
    BY <1>1, <1>7, <1>8, <2>1, QueryEffect
<1>9. ASSUME NEW d \in Phones, Commit(d)
      PROVE  Untouched'
  BY <1>1, <1>7, <1>9, CommitEffect DEF Commit, Idle
<1>10. ASSUME NEW d \in Phones, NEW i \in DOMAIN fetches[d],
              ItemsFetched(d, i) \/ ItemsMissing(d, i)
       PROVE  Untouched'
  <2>1. ~Idle(d)
    BY DEF Idle
  <2> QED
    BY <1>1, <1>7, <1>10, <2>1, FetchedEffect
<1>11. ASSUME NEW d \in Phones, RunCallback(d)
       PROVE  Untouched'
  BY <1>1, <1>7, <1>11, CallbackEffect DEF RunCallback, Idle
<1>12. \A e \in Phones : taps'[e] = 0 => taps[e] = 0
  BY TapsGrow
<1> QED
  BY <1>3, <1>4, <1>5, <1>6, <1>8, <1>9, <1>10, <1>11, <1>12 DEF Next, DeleteRow, Crash

(* The phone in use does nothing wrong. *)
Wanted(d) == WritesWanted(d) /\ RunsWanted(d) /\ FetchesWanted(d) /\ ShowsWanted(d)

(* It is enough to look at the phone in use. *)
LEMMA OnlyThisPhone ==
    ASSUME TypeOK', Untouched', ~disturbed', OnePhone', NEW d \in Phones, taps'[d] > 0,
           StoredWanted', Wanted(d)'
    PROVE  Followed'
<1>1. \A e \in Phones \ {d} : Idle(e)' /\ screen'[e] = "item"
  <2>1. \A e \in Phones \ {d} : taps'[e] \in Nat /\ ~ (taps'[e] > 0)
    BY DEF OnePhone, TypeOK
  <2>2. \A e \in Phones \ {d} : taps'[e] = 0
    BY <2>1
  <2> QED
    BY <2>2 DEF Untouched
<1>2. \A e \in Phones \ {d} : Wanted(e)'
  BY <1>1 DEF Idle, Wanted, WritesWanted, RunsWanted, FetchesWanted, ShowsWanted
<1> QED
  BY <1>2 DEF Followed, Wanted

(* When nothing is under way the phone shows what it will show. *)
LEMMA AtRest ==
    ASSUME TypeOK, NEW d \in Phones, ShowsWanted(d), screen[d] = "basket",
           asked[d] = Zero, mainQ[d] = <<>>
    PROVE  Fresh(basket[d]) /\ (used # {} => fetches[d] # <<>> \/ allItems[d] = wanted)
  BY DEF ShowsWanted, Reloading, Zero

(* The phones whose state is as before. *)
LEMMA SameWanted ==
    ASSUME UNCHANGED <<used, wanted>>, NEW e \in Phones, Wanted(e),
           asked'[e] = asked[e], mainQ'[e] = mainQ[e], pending'[e] = pending[e],
           fetches'[e] = fetches[e], basket'[e] = basket[e], allItems'[e] = allItems[e],
           screen'[e] = screen[e] \/ screen'[e] = "item"
    PROVE  Wanted(e)'
<1>1. \A o : Fresh(o)' <=> Fresh(o)
  BY DEF Fresh
<1>2. WritesWanted(e)' /\ RunsWanted(e)' /\ FetchesWanted(e)'
  BY DEF Wanted, WritesWanted, RunsWanted, FetchesWanted, Fresh
<1>3. ShowsWanted(e)'
  BY DEF Wanted, ShowsWanted, Adding, Reloading, Fresh
<1> QED
  BY <1>2, <1>3 DEF Wanted

(* A question is asked. *)
LEMMA AskFollowed ==
    ASSUME TypeOK, TypeOK', Untouched', Followed, ~disturbed, OnePhone, ~disturbed', OnePhone',
           NEW d \in Phones, (\E x \in Items : AddToBasket(d, x)) \/ BasketAppears(d)
    PROVE  Followed'
<1>1. /\ \A e \in Phones : Idle(e)
      /\ Local(d) /\ taps' = [taps EXCEPT ![d] = taps[d] + 1]
      /\ UNCHANGED <<server, used, wanted, basket, allItems>>
  BY AskEffect
<1>2. PICK k \in Items \cup {Reload} :
        /\ Queues(d, One(k), <<>>, <<>>, <<>>)'
        /\ IF k = Reload THEN screen'[d] = "basket" ELSE screen'[d] = "item"
  BY AskEffect
<1>3. taps'[d] > 0
  BY <1>1 DEF TypeOK
<1>4. StoredWanted'
  <2>1. (used = {} => wanted = Empty) /\ \A i \in used : server[i] = wanted
    BY <1>1 DEF Followed, StoredWanted, Idle
  <2> QED
    BY <1>1, <2>1 DEF StoredWanted
<1>5. WritesWanted(d)' /\ RunsWanted(d)' /\ FetchesWanted(d)'
  BY <1>2 DEF Queues, WritesWanted, RunsWanted, FetchesWanted
<1>6. ShowsWanted(d)'
  <2>1. CASE k = Reload
    <3>1. asked'[d] = One(Reload) /\ mainQ'[d] = <<>>
      BY <1>2, <2>1 DEF Queues, One
    <3>2. One(Reload)[Reload] = 1 /\ \A x \in Items : One(Reload)[x] = 0
      BY ReloadAssumption DEF One
    <3> QED
      BY <3>1, <3>2 DEF ShowsWanted, Adding, Reloading
  <2>2. CASE k # Reload
    BY <1>2, <2>2 DEF ShowsWanted
  <2> QED
    BY <2>1, <2>2
<1> QED
  BY <1>3, <1>4, <1>5, <1>6, OnlyThisPhone DEF Wanted

(* The list is left; or a phone at rest restarts. *)
LEMMA LeaveFollowed ==
    ASSUME TypeOK, Followed, ~disturbed, OnePhone, ~disturbed',
           NEW d \in Phones, ItemAppears(d) \/ Restarted(d)
    PROVE  Followed'
<1>1. UNCHANGED <<server, used, wanted>>
  BY LeaveEffect, RestartEffect
<1>2. \A e \in Phones : /\ asked'[e] = asked[e] /\ mainQ'[e] = mainQ[e]
                        /\ pending'[e] = pending[e] /\ fetches'[e] = fetches[e]
  BY LeaveEffect, RestartEffect DEF Idle
<1>3. StoredWanted'
  <2>1. StoredWanted
    BY DEF Followed
  <2>2. CASE \E e \in Phones : pending[e] # <<>>
    BY <1>1, <1>2, <2>1, <2>2 DEF StoredWanted
  <2>3. CASE \A i \in used : server[i] = wanted
    BY <1>1, <2>1, <2>3 DEF StoredWanted
  <2> QED
    BY <2>1, <2>2, <2>3 DEF StoredWanted
<1>4. ASSUME NEW e \in Phones
      PROVE  Wanted(e)'
  <2>1. Wanted(e)
    BY DEF Followed, Wanted
  <2>2. CASE ItemAppears(d)
    <3>1. UNCHANGED <<basket, allItems>> /\ (screen'[e] = screen[e] \/ screen'[e] = "item")
      BY <2>2 DEF ItemAppears, TypeOK
    <3> QED
      BY <1>1, <1>2, <2>1, <3>1, SameWanted
  <2>3. CASE Restarted(d) /\ e # d
    <3>1. basket'[e] = basket[e] /\ allItems'[e] = allItems[e] /\ screen'[e] = screen[e]
      BY <2>3, RestartEffect
    <3> QED
      BY <1>1, <1>2, <2>1, <3>1, SameWanted
  <2>4. CASE Restarted(d) /\ e = d
    <3>1. Idle(e)' /\ screen'[e] = "item"
      BY <2>4, RestartEffect
    <3> QED
      BY <3>1 DEF Idle, Wanted, WritesWanted, RunsWanted, FetchesWanted, ShowsWanted
  <2> QED
    BY <2>2, <2>3, <2>4
<1> QED
  BY <1>3, <1>4 DEF Followed, Wanted

(* A row is deleted: the list, the object and the write agree. *)
LEMMA DeleteFollowed ==
    ASSUME TypeOK, TypeOK', Untouched', Followed, ~disturbed, OnePhone, ~disturbed', OnePhone',
           NEW d \in Phones, NEW x \in Items, DeleteRow(d, x), basket[d] # NoBasket
    PROVE  Followed'
<1>1. /\ \A e \in Phones : Idle(e)
      /\ taps' = [taps EXCEPT ![d] = taps[d] + 1]
      /\ UNCHANGED <<used, screen>> /\ screen[d] = "basket"
      /\ wanted' = Without(wanted, x) /\ allItems'[d] = Without(allItems[d], x)
      /\ basket'[d] = [basket[d] EXCEPT !.items = Without(basket[d].items, x)]
  BY DeleteEffect
<1>2. PICK w \in Write :
        /\ Queues(d, Zero, <<>>, <<w>>, <<>>)'
        /\ w.op = "update" /\ w.id = basket[d].id /\ w.row = TRUE
        /\ w.items = Without(basket[d].items, x)
  BY DeleteEffect
<1>3. taps'[d] > 0
  BY <1>1 DEF TypeOK
<1>4. /\ Fresh(basket[d]) /\ basket[d] \in Object
      /\ used # {} => fetches[d] # <<>> \/ allItems[d] = wanted
  <2>1. ShowsWanted(d) /\ asked[d] = Zero /\ mainQ[d] = <<>>
    BY <1>1 DEF Followed, Idle, Zero
  <2>2. basket[d] \in Object
    BY DEF TypeOK
  <2> QED
    BY <1>1, <2>1, <2>2, AtRest
<1>5. /\ used # {} /\ basket[d].id \in used /\ basket[d].items = wanted
      /\ allItems[d] = wanted
  BY <1>1, <1>4 DEF Fresh, Idle
<1>6. basket'[d].id = basket[d].id /\ basket'[d].items = wanted' /\ basket'[d] # NoBasket
  <2>1. /\ basket'[d].id = basket[d].id /\ basket'[d].items = Without(basket[d].items, x)
        /\ basket'[d] \in [id : Ids, items : Bag]
    <3>1. Without(basket[d].items, x) \in Bag
      BY <1>4, BagType DEF Object
    <3> QED
      BY <1>1, <1>4, <3>1 DEF Object
  <2> QED
    BY <1>1, <1>5, <2>1, NoBasketAssumption
<1>7. Fresh(basket[d])'
  BY <1>1, <1>5, <1>6 DEF Fresh
<1>8. pending'[d] # <<>> /\ pending'[d][1] = w /\ asked'[d] = Zero
      /\ mainQ'[d] = <<>> /\ fetches'[d] = <<>>
  BY <1>2, OnlyEntry DEF Queues, Zero
<1>9. StoredWanted'
  BY <1>1, <1>5, <1>8 DEF StoredWanted
<1>10. WritesWanted(d)' /\ RunsWanted(d)' /\ FetchesWanted(d)'
  BY <1>1, <1>2, <1>5, <1>7, <1>8 DEF WritesWanted, RunsWanted, FetchesWanted
<1>11. ShowsWanted(d)'
  <2>1. ~Adding(d)'
    BY <1>8 DEF Adding, Zero
  <2>2. allItems'[d] = wanted'
    BY <1>1, <1>5
  <2> QED
    BY <1>7, <2>1, <2>2 DEF ShowsWanted
<1> QED
  BY <1>3, <1>9, <1>10, <1>11, OnlyThisPhone DEF Wanted

(* A phone that waits for something has been used. *)
LEMMA BusyUsed ==
    ASSUME TypeOK, Untouched, ~disturbed, Undisturbed, NEW d \in Phones,
           ~ Queues(d, Zero, <<>>, <<>>, <<>>), UNCHANGED taps
    PROVE  /\ taps'[d] > 0
           /\ \A e \in Phones \ {d} : pending[e] = <<>>
           /\ pending[d] = <<>> \/ pending[d][1].op # "set" => Settled
<1>1. ~Idle(d) /\ \A e \in Phones \ {d} : Idle(e)
  BY OneThing, OthersIdle DEF Undisturbed
<1>2. taps[d] # 0 /\ taps[d] \in Nat
  BY <1>1 DEF Untouched, TypeOK
<1> QED
  BY <1>1, <1>2, BusyAlone

(* An answer is what the user has. *)
LEMMA QueryFollowed ==
    ASSUME TypeOK, TypeOK', Undisturbed, Untouched, Untouched', Followed,
           ~disturbed, OnePhone, ~disturbed', OnePhone',
           NEW d \in Phones, NEW k \in Items \cup {Reload}, QueryAnswered(d, k)
    PROVE  Followed'
<1>1. Serial
  BY DEF Undisturbed
<1>2. /\ Queues(d, One(k), <<>>, <<>>, <<>>)
      /\ UNCHANGED <<server, used, wanted, basket, allItems, screen, taps>>
  BY <1>1, QueryEffect
<1>3. PICK f \in FirstOf(server) :
        Queues(d, Zero, <<[kind |-> "queried", for |-> k, found |-> f]>>, <<>>, <<>>)'
  BY <1>1, QueryEffect
<1>4. One(k)[k] = 1 /\ One(k) # Zero /\ (screen[d] = "basket" => k = Reload)
  <2>1. One(k)[k] = 1 /\ Zero[k] = 0
    BY DEF One, Zero
  <2>2. ShowsWanted(d)
    BY DEF Followed
  <2> QED
    BY <1>2, <2>1, <2>2 DEF ShowsWanted, Adding, Queues
<1>5. taps'[d] > 0 /\ Settled /\ \A e \in Phones : pending[e] = <<>>
  BY <1>2, <1>4, BusyUsed DEF Queues
<1>6. (used = {} => wanted = Empty) /\ \A i \in used : server[i] = wanted
  BY <1>5 DEF Followed, StoredWanted
<1>7. Fresh(f)
  <2>1. \/ f = NoBasket /\ \A b \in Ids : server[b] = NoBasket
        \/ \E b \in Ids : server[b] # NoBasket /\ f = [id |-> b, items |-> server[b]] /\ f # NoBasket
    BY FirstOfShows DEF TypeOK
  <2>2. CASE f = NoBasket
    BY <1>5, <2>1, <2>2 DEF Fresh, Settled, TypeOK
  <2>3. ASSUME NEW b \in Ids, server[b] # NoBasket, f = [id |-> b, items |-> server[b]],
               f # NoBasket
        PROVE  Fresh(f)
    <3>1. b \in used /\ server[b] = wanted
      BY <1>5, <1>6, <2>3 DEF Settled
    <3> QED
      BY <2>3, <3>1 DEF Fresh
  <2> QED
    BY <2>1, <2>2, <2>3
<1>8. StoredWanted'
  BY <1>2, <1>6 DEF StoredWanted
<1> DEFINE c == [kind |-> "queried", for |-> k, found |-> f]
<1>9. /\ asked'[d] = Zero /\ mainQ'[d] = <<c>> /\ mainQ'[d][1] = c /\ mainQ'[d] # <<>>
      /\ pending'[d] = <<>> /\ fetches'[d] = <<>>
  BY <1>3 DEF Queues, Zero
<1>10. c.kind = "queried" /\ c.for = k /\ c.found = f
  OBVIOUS
<1> HIDE DEF c
<1>11. WritesWanted(d)' /\ RunsWanted(d)' /\ FetchesWanted(d)'
  BY <1>2, <1>7, <1>9, <1>10 DEF WritesWanted, RunsWanted, FetchesWanted, Fresh
<1>12. ShowsWanted(d)'
  BY <1>2, <1>4, <1>9, <1>10 DEF ShowsWanted, Adding, Reloading, Zero
<1> QED
  BY <1>5, <1>8, <1>11, <1>12, OnlyThisPhone DEF Wanted

(* A committed write stores what the user wants. *)
LEMMA CommitFollowed ==
    ASSUME TypeOK, TypeOK', Undisturbed, Untouched, Untouched', Followed,
           ~disturbed, OnePhone, ~disturbed', OnePhone', NEW d \in Phones, Commit(d)
    PROVE  Followed'
<1>1. Serial
  BY DEF Undisturbed
<1>2. UNCHANGED <<used, wanted, basket, allItems, screen, taps>>
  BY <1>1, CommitEffect
<1>3. PICK w \in Write :
        /\ Queues(d, Zero, <<>>, <<w>>, <<>>)
        /\ IF w.row THEN Queues(d, Zero, <<[kind |-> "deleted"]>>, <<>>, <<>>)'
           ELSE Queues(d, Zero, <<>>, <<>>, <<>>)'
        /\ server' = IF w.op = "set" \/ server[w.id] # NoBasket
                     THEN [server EXCEPT ![w.id] = w.items] ELSE server
  BY <1>1, CommitEffect
<1>4. /\ pending[d] # <<>> /\ pending[d][1] = w
      /\ asked[d] = Zero /\ mainQ[d] = <<>> /\ fetches[d] = <<>>
  BY <1>3, OnlyEntry DEF Queues
<1>5. taps'[d] > 0 /\ (w.op # "set" => Settled)
  BY <1>2, <1>4, BusyUsed DEF Queues
<1>6. w.id \in used /\ w.items = wanted /\ (w.row => Fresh(basket[d]))
  BY <1>4 DEF Followed, WritesWanted
<1>7. server' = [server EXCEPT ![w.id] = wanted]
  BY <1>3, <1>5, <1>6 DEF Settled, TypeOK
<1>8. \A i \in used : server'[i] = wanted
  <2>1. \A i \in used : i = w.id /\ i \in Ids
    BY <1>6 DEF Undisturbed, TypeOK
  <2> QED
    BY <1>7, <2>1 DEF TypeOK, Docs
<1>9. StoredWanted'
  BY <1>2, <1>6, <1>8 DEF StoredWanted
<1>10. /\ asked'[d] = Zero /\ pending'[d] = <<>> /\ fetches'[d] = <<>>
       /\ mainQ'[d] = IF w.row THEN <<[kind |-> "deleted"]>> ELSE <<>>
  BY <1>3 DEF Queues, Zero
<1>11. mainQ'[d] # <<>> => w.row /\ mainQ'[d][1].kind # "queried"
  BY <1>10
<1>12. WritesWanted(d)' /\ RunsWanted(d)' /\ FetchesWanted(d)'
  BY <1>2, <1>6, <1>10, <1>11 DEF WritesWanted, RunsWanted, FetchesWanted, Fresh
<1>13. ShowsWanted(d)'
  <2>1. ~Adding(d)'
    BY <1>10, <1>11 DEF Adding, Zero
  <2>2. screen[d] = "basket" =>
           Fresh(basket[d]) /\ (used # {} => fetches[d] # <<>> \/ allItems[d] = wanted)
    BY <1>4, AtRest DEF Followed
  <2> QED
    BY <1>2, <1>4, <2>1, <2>2 DEF ShowsWanted, Fresh
<1> QED
  BY <1>5, <1>9, <1>12, <1>13, OnlyThisPhone DEF Wanted

(* The items that come are the ones the user wants. *)
LEMMA FetchedFollowed ==
    ASSUME TypeOK, TypeOK', Undisturbed, Untouched, Untouched', Followed,
           ~disturbed, OnePhone, ~disturbed', OnePhone', NEW d \in Phones,
           NEW i \in DOMAIN fetches[d], ItemsFetched(d, i) \/ ItemsMissing(d, i)
    PROVE  Followed'
<1>1. Serial
  BY DEF Undisturbed
<1>2. /\ UNCHANGED <<server, used, wanted, basket, screen, taps>>
      /\ Queues(d, Zero, <<>>, <<>>, <<>>)'
  BY <1>1, FetchedEffect
<1>3. PICK b \in Bag : Queues(d, Zero, <<>>, <<>>, <<b>>) /\ allItems'[d] = b
  BY <1>1, FetchedEffect
<1>4. fetches[d] # <<>> /\ fetches[d][1] = b /\ pending[d] = <<>>
  BY <1>3, OnlyEntry DEF Queues
<1>5. taps'[d] > 0 /\ \A e \in Phones : pending[e] = <<>>
  BY <1>2, <1>4, BusyUsed DEF Queues
<1>6. b = wanted /\ Fresh(basket[d])
  BY <1>4 DEF Followed, FetchesWanted
<1>7. StoredWanted'
  BY <1>2, <1>5 DEF Followed, StoredWanted
<1>8. asked'[d] = Zero /\ mainQ'[d] = <<>> /\ pending'[d] = <<>> /\ fetches'[d] = <<>>
  BY <1>2 DEF Queues, Zero
<1>9. WritesWanted(d)' /\ RunsWanted(d)' /\ FetchesWanted(d)'
  BY <1>8 DEF WritesWanted, RunsWanted, FetchesWanted
<1>10. ShowsWanted(d)'
  BY <1>2, <1>3, <1>6, <1>8 DEF ShowsWanted, Adding, Fresh, Zero
<1> QED
  BY <1>5, <1>7, <1>9, <1>10, OnlyThisPhone DEF Wanted

(* A callback adds one item to what the user has; or the phone fetches, or  *)
(* shows, what the user has.                                                *)
LEMMA CallbackFollowed ==
    ASSUME TypeOK, TypeOK', Undisturbed, Untouched, Untouched', Followed,
           ~disturbed, OnePhone, ~disturbed', OnePhone', NEW d \in Phones, RunCallback(d)
    PROVE  Followed'
<1>1. Serial
  BY DEF Undisturbed
<1>2. UNCHANGED <<server, screen, taps>>
  BY <1>1, CallbackEffect
<1>3. PICK c \in Callback :
        /\ Queues(d, Zero, <<c>>, <<>>, <<>>)
        /\ \/ /\ c.kind = "queried" /\ c.for \in Items
              /\ wanted' = With(wanted, c.for)
              /\ UNCHANGED <<basket, allItems>>
              /\ \E w \in Write :
                    /\ Queues(d, Zero, <<>>, <<w>>, <<>>)' /\ w.row = FALSE
                    /\ IF c.found = NoBasket
                       THEN /\ w.op = "set" /\ w.id \notin used
                            /\ used' = used \cup {w.id}
                            /\ w.items = With(Empty, c.for)
                       ELSE /\ w.op = "update" /\ w.id = c.found.id
                            /\ UNCHANGED used
                            /\ w.items = With(c.found.items, c.for)
           \/ /\ \/ c.kind = "queried" /\ c.for = Reload /\ basket'[d] = c.found
                 \/ c.kind = "deleted" /\ UNCHANGED basket
              /\ UNCHANGED <<used, wanted>>
              /\ \/ /\ basket'[d] = NoBasket /\ UNCHANGED allItems
                    /\ Queues(d, Zero, <<>>, <<>>, <<>>)'
                 \/ /\ basket'[d] # NoBasket /\ basket'[d].items = Empty
                    /\ allItems'[d] = Empty
                    /\ Queues(d, Zero, <<>>, <<>>, <<>>)'
                 \/ /\ basket'[d] # NoBasket /\ basket'[d].items \in Bag
                    /\ UNCHANGED allItems
                    /\ Queues(d, Zero, <<>>, <<>>, <<basket[d].items>>)'
  BY <1>1, CallbackEffect
<1>4. /\ mainQ[d] # <<>> /\ mainQ[d][1] = c /\ pending[d] = <<>> /\ fetches[d] = <<>>
      /\ asked[d] = Zero
  BY <1>3, OnlyEntry DEF Queues
<1>5. taps'[d] > 0 /\ \A e \in Phones : pending[e] = <<>>
  BY <1>2, <1>4, BusyUsed DEF Queues
<1>6. (used = {} => wanted = Empty) /\ \A i \in used : server[i] = wanted
  BY <1>5 DEF Followed, StoredWanted
<1>7. IF c.kind = "queried" THEN Fresh(c.found) ELSE used # {} /\ Fresh(basket[d])
  BY <1>4 DEF Followed, RunsWanted
<1>8. ShowsWanted(d)
  BY DEF Followed
<1>9. ASSUME NEW w \in Write,
             c.kind = "queried", c.for \in Items, wanted' = With(wanted, c.for),
             Queues(d, Zero, <<>>, <<w>>, <<>>)', w.row = FALSE,
             IF c.found = NoBasket
             THEN used' = used \cup {w.id} /\ w.items = With(Empty, c.for)
             ELSE /\ w.id = c.found.id /\ UNCHANGED used
                  /\ w.items = With(c.found.items, c.for)
      PROVE  Followed'
  <2>1. screen'[d] # "basket"
    <3>1. Adding(d)
      BY <1>4, <1>9, ReloadAssumption DEF Adding
    <3> QED
      BY <1>2, <1>8, <3>1 DEF ShowsWanted
  <2>2. w.id \in used' /\ w.items = wanted'
    <3>1. CASE c.found = NoBasket
      BY <1>6, <1>7, <1>9, <3>1 DEF Fresh
    <3>2. CASE c.found # NoBasket
      BY <1>7, <1>9, <3>2 DEF Fresh
    <3> QED
      BY <3>1, <3>2
  <2>3. /\ pending'[d] # <<>> /\ pending'[d][1] = w
        /\ mainQ'[d] = <<>> /\ fetches'[d] = <<>>
    BY <1>9, OnlyEntry DEF Queues
  <2>4. StoredWanted'
    BY <2>2, <2>3 DEF StoredWanted
  <2>5. Wanted(d)'
    BY <1>9, <2>1, <2>2, <2>3
       DEF Wanted, WritesWanted, RunsWanted, FetchesWanted, ShowsWanted
  <2> QED
    BY <1>5, <2>4, <2>5, OnlyThisPhone
<1>10. ASSUME \/ c.kind = "queried" /\ c.for = Reload /\ basket'[d] = c.found
              \/ c.kind = "deleted" /\ UNCHANGED basket,
              UNCHANGED <<used, wanted>>,
              \/ /\ basket'[d] = NoBasket /\ UNCHANGED allItems
                 /\ Queues(d, Zero, <<>>, <<>>, <<>>)'
              \/ /\ basket'[d] # NoBasket /\ basket'[d].items = Empty
                 /\ allItems'[d] = Empty
                 /\ Queues(d, Zero, <<>>, <<>>, <<>>)'
              \/ /\ basket'[d] # NoBasket /\ basket'[d].items \in Bag
                 /\ UNCHANGED allItems
                 /\ Queues(d, Zero, <<>>, <<>>, <<basket[d].items>>)'
       PROVE  Followed'
  <2>1. StoredWanted'
    BY <1>2, <1>6, <1>10 DEF StoredWanted
  <2>2. Fresh(basket[d])'
    BY <1>7, <1>10 DEF Fresh
  <2>3. asked'[d] = Zero /\ mainQ'[d] = <<>> /\ pending'[d] = <<>>
    BY <1>10 DEF Queues, Zero
  <2>4. ~Adding(d)'
    BY <2>3 DEF Adding, Zero
  <2>5. WritesWanted(d)' /\ RunsWanted(d)'
    BY <2>3 DEF WritesWanted, RunsWanted
  <2>6. CASE basket'[d] = NoBasket /\ Queues(d, Zero, <<>>, <<>>, <<>>)'
    <3>1. used' = {} /\ fetches'[d] = <<>>
      BY <2>2, <2>6 DEF Fresh, Queues
    <3> QED
      BY <1>5, <2>1, <2>2, <2>4, <2>5, <3>1, OnlyThisPhone
         DEF Wanted, FetchesWanted, ShowsWanted
  <2>7. CASE /\ basket'[d] # NoBasket /\ basket'[d].items = Empty /\ allItems'[d] = Empty
             /\ Queues(d, Zero, <<>>, <<>>, <<>>)'
    <3>1. allItems'[d] = wanted' /\ fetches'[d] = <<>>
      BY <2>2, <2>7 DEF Fresh, Queues
    <3> QED
      BY <1>5, <2>1, <2>2, <2>4, <2>5, <3>1, OnlyThisPhone
         DEF Wanted, FetchesWanted, ShowsWanted
  <2>8. CASE basket'[d] # NoBasket /\ Queues(d, Zero, <<>>, <<>>, <<basket[d].items>>)'
    <3>1. used' # {} /\ basket'[d].items = wanted'
      BY <2>2, <2>8 DEF Fresh
    <3>2. fetches'[d] = <<wanted'>> /\ fetches'[d] # <<>> /\ fetches'[d][1] = wanted'
      BY <2>8, <3>1 DEF Queues
    <3> QED
      BY <1>5, <2>1, <2>2, <2>4, <2>5, <3>1, <3>2, OnlyThisPhone
         DEF Wanted, FetchesWanted, ShowsWanted
  <2> QED
    BY <1>10, <2>6, <2>7, <2>8
<1> QED
  BY <1>3, <1>9, <1>10

(* Every step keeps what the user wants followed through. *)
LEMMA FollowedStep ==
    ASSUME TypeOK, TypeOK', Undisturbed, Untouched, Untouched', Followed, Next
    PROVE  Followed'
<1> SUFFICES ASSUME ~disturbed', OnePhone' PROVE Followed'
  BY DEF Followed
<1>1. ~disturbed /\ OnePhone
  BY BeforeToo
<1>2. ASSUME NEW d \in Phones, NEW x \in Items, DeleteRow(d, x)
      PROVE  Followed'
  BY <1>1, <1>2, DeleteFollowed, LeaveFollowed DEF DeleteRow
<1>3. ASSUME NEW d \in Phones, Crash(d)
      PROVE  Followed'
  BY <1>1, <1>3, LeaveFollowed DEF Crash
<1> QED
  BY <1>1, <1>2, <1>3, AskFollowed, LeaveFollowed, QueryFollowed, CommitFollowed,
     FetchedFollowed, CallbackFollowed DEF Next

(* The inductive invariant of a user to whom nothing goes wrong. *)
IInv == TypeOK /\ Undisturbed /\ Untouched /\ Followed

(* It is inductive. *)
LEMMA Inductive == Spec => []IInv
<1>1. Init => Untouched /\ Followed
  <2> SUFFICES ASSUME Init PROVE Untouched /\ Followed
    OBVIOUS
  <2>1. \A d \in Phones : /\ Idle(d) /\ screen[d] = "item"
                          /\ pending[d] = <<>> /\ mainQ[d] = <<>> /\ fetches[d] = <<>>
    BY DEF Init, Idle
  <2>2. (used = {} => wanted = Empty) /\ \A i \in used : server[i] = wanted
    BY DEF Init
  <2> QED
    BY <2>1, <2>2 DEF Untouched, Followed, StoredWanted, WritesWanted, RunsWanted,
                      FetchesWanted, ShowsWanted
<1>2. TypeOK /\ TypeOK' /\ Undisturbed /\ Untouched /\ Followed /\ [Next]_vars
        => Untouched' /\ Followed'
  <2> SUFFICES ASSUME TypeOK, TypeOK', Undisturbed, Untouched, Followed, [Next]_vars
               PROVE  Untouched' /\ Followed'
    OBVIOUS
  <2>1. CASE UNCHANGED vars
    <3>1. \A e \in Phones : /\ Idle(e)' <=> Idle(e)
                            /\ Wanted(e) => Wanted(e)'
      BY <2>1, SameWanted DEF vars, Idle
    <3>2. (StoredWanted' <=> StoredWanted) /\ (OnePhone' <=> OnePhone)
      BY <2>1 DEF vars, StoredWanted, OnePhone
    <3> QED
      BY <2>1, <3>1, <3>2 DEF vars, Untouched, Followed, Wanted
  <2>2. CASE Next
    BY <2>2, UntouchedStep, FollowedStep
  <2> QED
    BY <2>1, <2>2
<1> QED
  BY <1>1, <1>2, TypeCorrect, NeverDisturbed, PTL DEF Spec, IInv

(* On one phone the basket of such a user holds what was added and not      *)
(* deleted: nothing is lost, whatever the order of the answers.             *)
THEOREM Kept == Spec => []NothingLost
<1>1. IInv => NothingLost
  <2> SUFFICES ASSUME IInv, Quiet, ~disturbed, OnePhone, NEW i \in Ids
               PROVE  server[i] = IF i \in used THEN wanted ELSE NoBasket
    BY DEF NothingLost
  <2>1. \A d \in Phones : pending[d] = <<>>
    BY DEF Quiet, Idle
  <2>2. Settled
    BY <2>1 DEF IInv, Undisturbed, Creating
  <2>3. \A j \in used : server[j] = wanted
    BY <2>1 DEF IInv, Followed, StoredWanted
  <2> QED
    BY <2>2, <2>3 DEF Settled
<1> QED
  BY <1>1, Inductive, PTL

(* And the list shows it, with the object that the next deletion writes.    *)
THEOREM ListIsBasket == Spec => []ListShowsBasket
<1>1. IInv => ListShowsBasket
  <2> SUFFICES ASSUME IInv, Quiet, ~disturbed, OnePhone,
                      NEW d \in Phones, screen[d] = "basket", used # {}
               PROVE  allItems[d] = wanted /\ basket[d] # NoBasket /\ basket[d].items = wanted
    BY DEF ListShowsBasket
  <2>1. asked[d] = Zero /\ mainQ[d] = <<>> /\ fetches[d] = <<>>
    BY DEF Quiet, Idle, Zero
  <2>2. Fresh(basket[d]) /\ (used # {} => fetches[d] # <<>> \/ allItems[d] = wanted)
    BY <2>1, AtRest DEF IInv, Followed
  <2> QED
    BY <2>1, <2>2 DEF Fresh
<1> QED
  BY <1>1, Inductive, PTL

=============================================================================
