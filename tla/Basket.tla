------------------------------- MODULE Basket -------------------------------
(***************************************************************************)
(* The basket of one user, who may be signed in on several phones.         *)
(*                                                                         *)
(* ItemViewController adds an item by downloading the user's basket,       *)
(* appending to it and writing the whole array back; BasketViewController  *)
(* deletes a row by writing back the array it downloaded when it last      *)
(* appeared.  Nothing orders these read-modify-writes.  A phone's writes   *)
(* wait in Firestore's queue (pending) and show through its reads.         *)
(*                                                                         *)
(* An array of item ids is abstracted to how often it holds each item: the *)
(* order of the rows is not modelled.  Document ids are numbers because a  *)
(* query returns documents in the order of their ids.                      *)
(***************************************************************************)
EXTENDS Naturals, Sequences, Functions

CONSTANTS
    Phones,      \* phones the user is signed in on
    Items,       \* item ids
    NoBasket,    \* no such document, and the app's nil Basket
    MaxBaskets,  \* bound: basket documents
    MaxTaps,     \* bound: what the user does, on all phones together
    MaxFaults    \* bound: failures and restarts of all phones together

Ids == 1..MaxBaskets
Bag == [Items -> Nat]

ASSUME NoBasketAssumption == NoBasket \notin Bag /\ NoBasket \notin [id : Ids, items : Bag]
ASSUME BoundAssumption == MaxBaskets \in Nat /\ MaxTaps \in Nat /\ MaxFaults \in Nat

VARIABLES
    server,      \* collection Basket
    used,        \* the ids UUID() has produced so far
    cache,       \* Firestore's cache of the collection, on each phone
    pending,     \* Firestore's pending writes, on each phone
    asked,       \* queries without an answer: adds, by item, and reloads
    mainQ,       \* callbacks waiting for the main thread
    fetches,     \* downloadItems calls without an answer
    basket,      \* BasketViewController.basket
    allItems,    \* BasketViewController.allItems, the rows of the list
    screen,      \* the screen the user looks at
    taps, faults,
    added,       \* history: how often an item was added to a basket
    wanted,      \* history: what the user added and did not delete
    disturbed    \* history: something failed, or was started before what came
                 \* before was finished

firestore == <<server, used, cache, pending, asked>>
view == <<basket, allItems, screen>>
bounds == <<taps, faults>>
history == <<added, wanted, disturbed>>
vars == <<firestore, mainQ, fetches, view, bounds, history>>

Reload == "reload"
ASSUME ReloadAssumption == Reload \notin Items

Object == [id : Ids, items : Bag]
Docs == [Ids -> Bag \cup {NoBasket}]
Write == [op : {"set", "update"}, id : Ids, items : Bag, row : BOOLEAN]
Callback == [kind : {"queried"}, for : Items \cup {Reload}, found : Object \cup {NoBasket}]
            \cup [kind : {"deleted"}]

TypeOK ==
    /\ server \in Docs
    /\ used \in SUBSET Ids
    /\ cache \in [Phones -> Docs]
    /\ pending \in [Phones -> Seq(Write)]
    /\ asked \in [Phones -> [Items \cup {Reload} -> Nat]]
    /\ mainQ \in [Phones -> Seq(Callback)]
    /\ fetches \in [Phones -> Seq(Bag)]
    /\ basket \in [Phones -> Object \cup {NoBasket}]
    /\ allItems \in [Phones -> Bag]
    /\ screen \in [Phones -> {"basket", "item"}]
    /\ taps \in [Phones -> Nat] /\ faults \in [Phones -> Nat]
    /\ added \in [Ids -> Bag]
    /\ wanted \in Bag
    /\ disturbed \in BOOLEAN

-----------------------------------------------------------------------------
Empty == [x \in Items |-> 0]
With(b, x) == [b EXCEPT ![x] = @ + 1]

\* Mutant: the occurrence is taken for granted.
WithoutLooking(b, x) == [b EXCEPT ![x] = @ - 1]

\* removeItemFromBasket: the first occurrence, if there is one.
Without(b, x) == IF b[x] = 0 THEN b ELSE [b EXCEPT ![x] = @ - 1]

\* A document as a phone sees it: its last pending write, where there is a
\* document to update.
Seen(docs, q, b) ==
    IF \E i \in DOMAIN q : q[i].id = b /\ (docs[b] # NoBasket \/ q[i].op = "set")
    THEN LET last == CHOOSE i \in DOMAIN q :
                        /\ q[i].id = b
                        /\ \A j \in DOMAIN q : q[j].id = b => j <= i
         IN  q[last].items
    ELSE docs[b]
Overlay(docs, q) == [b \in Ids |-> Seen(docs, q, b)]

\* documents.first of the snapshot, or nil; a set of one element.
FirstOf(docs) ==
    LET there == {b \in Ids : docs[b] # NoBasket}
    IN  IF there = {} THEN {NoBasket}
        ELSE {[id |-> b, items |-> docs[b]] : b \in {c \in there : \A e \in there : c <= e}}

\* What can have come of array b when one of its items cannot be fetched.
Parts(b) ==
    {c \in [Items -> UNION {0..b[x] : x \in Items}] :
        c # b /\ \A x \in Items : c[x] <= b[x]}

\* The phone has nothing under way.
Idle(d) ==
    /\ asked[d] = [k \in Items \cup {Reload} |-> 0]
    /\ mainQ[d] = <<>> /\ pending[d] = <<>> /\ fetches[d] = <<>>
Quiet == \A d \in Phones : Idle(d)

Total(f) == FoldFunction(+, 0, f)
Tap(d) == Total(taps) < MaxTaps /\ taps' = [taps EXCEPT ![d] = @ + 1]
Fault(d) == Total(faults) < MaxFaults /\ faults' = [faults EXCEPT ![d] = @ + 1]
Post(d, c) == mainQ' = [mainQ EXCEPT ![d] = Append(@, c)]
Ask(d, k) == asked' = [asked EXCEPT ![d][k] = @ + 1]
Send(d, w) == pending' = [pending EXCEPT ![d] = Append(@, w)]

\* getBasketItems with basket object o: nothing without a basket; an empty
\* one is answered at once; otherwise the items are fetched.
GetBasketItems(d, o) ==
    IF o = NoBasket THEN UNCHANGED <<fetches, allItems>>
    ELSE IF o.items = Empty
    THEN allItems' = [allItems EXCEPT ![d] = Empty] /\ UNCHANGED fetches
    ELSE fetches' = [fetches EXCEPT ![d] = Append(@, o.items)] /\ UNCHANGED allItems

\* The user starts without a basket, or with one from earlier days.
Init ==
    /\ \E u \in SUBSET ({1} \cap Ids), b \in [Items -> {0, 1}] :
         /\ u = {} => b = Empty
         /\ used = u
         /\ server = [i \in Ids |-> IF i \in u THEN b ELSE NoBasket]
         /\ added = [i \in Ids |-> IF i \in u THEN b ELSE Empty]
         /\ wanted = b
    /\ cache = [d \in Phones |-> [i \in Ids |-> NoBasket]]
    /\ pending = [d \in Phones |-> <<>>]
    /\ asked = [d \in Phones |-> [k \in Items \cup {Reload} |-> 0]]
    /\ mainQ = [d \in Phones |-> <<>>]
    /\ fetches = [d \in Phones |-> <<>>]
    /\ basket = [d \in Phones |-> NoBasket]
    /\ allItems = [d \in Phones |-> Empty]
    /\ screen = [d \in Phones |-> "item"]
    /\ taps = [d \in Phones |-> 0] /\ faults = [d \in Phones |-> 0]
    /\ disturbed = FALSE

-----------------------------------------------------------------------------
(* What the user does.                                                      *)

\* addtoBasketButtonPressed, for a user who is signed in.
AddToBasket(d, x) ==
    /\ screen[d] = "item"
    /\ Tap(d)
    /\ Ask(d, x)
    /\ disturbed' = (disturbed \/ ~Quiet)
    /\ UNCHANGED <<server, used, cache, pending, mainQ, fetches, view, faults, added, wanted>>

\* The basket's screen appears: viewDidAppear, loadBasketFromFirestore.
BasketAppears(d) ==
    /\ screen[d] = "item"
    /\ Tap(d)
    /\ screen' = [screen EXCEPT ![d] = "basket"]
    /\ Ask(d, Reload)
    /\ disturbed' = (disturbed \/ ~Quiet)
    /\ UNCHANGED <<server, used, cache, pending, mainQ, fetches, basket, allItems, faults,
                   added, wanted>>

ItemAppears(d) ==
    /\ screen[d] = "basket"
    /\ screen' = [screen EXCEPT ![d] = "item"]
    /\ UNCHANGED <<firestore, mainQ, fetches, basket, allItems, bounds, history>>

\* What a restart leaves: the cache and the pending writes, without their
\* completions.
Restarted(d) ==
    /\ pending' = [pending EXCEPT ![d] =
                     [i \in DOMAIN @ |-> [@[i] EXCEPT !.row = FALSE]]]
    /\ asked' = [asked EXCEPT ![d] = [k \in Items \cup {Reload} |-> 0]]
    /\ mainQ' = [mainQ EXCEPT ![d] = <<>>]
    /\ fetches' = [fetches EXCEPT ![d] = <<>>]
    /\ basket' = [basket EXCEPT ![d] = NoBasket]
    /\ allItems' = [allItems EXCEPT ![d] = Empty]
    /\ screen' = [screen EXCEPT ![d] = "item"]
    /\ disturbed' = (disturbed \/ ~Idle(d))
    /\ UNCHANGED <<server, used, cache, added, wanted>>

Crash(d) == Fault(d) /\ Restarted(d) /\ UNCHANGED taps

\* A row is swiped away: it leaves the list, the item leaves the basket object
\* that was downloaded last, and the whole array of that object is written.
\* Without a basket object the forced unwrapping ends the app.
DeleteRow(d, x) ==
    /\ screen[d] = "basket"
    /\ allItems[d][x] > 0
    /\ Tap(d)
    /\ IF basket[d] = NoBasket
       THEN Restarted(d) /\ UNCHANGED faults
       ELSE LET left == Without(basket[d].items, x)
            IN  /\ allItems' = [allItems EXCEPT ![d] = Without(@, x)]
                /\ basket' = [basket EXCEPT ![d].items = left]
                /\ Send(d, [op |-> "update", id |-> basket[d].id, items |-> left, row |-> TRUE])
                /\ wanted' = Without(wanted, x)
                /\ disturbed' = (disturbed \/ ~Quiet)
                /\ UNCHANGED <<server, used, cache, asked, mainQ, fetches, screen, faults, added>>

-----------------------------------------------------------------------------
(* What Firestore answers.                                                  *)

\* The query of downloadBasketFromFirestore is answered by the server; or,
\* offline, from the cache, which may be empty; or it fails.  The last two
\* cannot be told from a user without a basket.
QueryAnswered(d, k) ==
    /\ asked[d][k] > 0
    /\ asked' = [asked EXCEPT ![d][k] = @ - 1]
    /\ \/ /\ \E f \in FirstOf(Overlay(server, pending[d])) :
               Post(d, [kind |-> "queried", for |-> k, found |-> f])
          /\ cache' = [cache EXCEPT ![d] = server]
          /\ UNCHANGED <<faults, disturbed>>
       \/ /\ Fault(d)
          /\ \E f \in FirstOf(Overlay(cache[d], pending[d])) \cup {NoBasket} :
               Post(d, [kind |-> "queried", for |-> k, found |-> f])
          /\ disturbed' = TRUE
          /\ UNCHANGED cache
    /\ UNCHANGED <<server, used, pending, fetches, view, taps, added, wanted>>

\* The first pending write is applied, or refused: an update without a
\* document always is.
Commit(d) ==
    LET w == Head(pending[d])
    IN  /\ pending[d] # <<>>
        /\ pending' = [pending EXCEPT ![d] = Tail(@)]
        /\ IF w.row THEN Post(d, [kind |-> "deleted"]) ELSE UNCHANGED mainQ
        /\ \/ /\ w.op = "set" \/ server[w.id] # NoBasket
              /\ server' = [server EXCEPT ![w.id] = w.items]
              /\ cache' = [cache EXCEPT ![d][w.id] = w.items]
              /\ UNCHANGED <<faults, disturbed>>
           \/ /\ w.op = "update" /\ server[w.id] = NoBasket
              /\ UNCHANGED <<server, cache, faults, disturbed>>
           \/ /\ Fault(d)
              /\ disturbed' = TRUE
              /\ UNCHANGED <<server, cache>>
        /\ UNCHANGED <<used, asked, fetches, view, taps, added, wanted>>

\* downloadItems has every item of one of its calls; the calls may be
\* answered in any order.
Fetched(d, i, rows) ==
    /\ i \in DOMAIN fetches[d]
    /\ allItems' = [allItems EXCEPT ![d] = rows]
    /\ fetches' = [fetches EXCEPT ![d] =
                     SubSeq(@, 1, i - 1) \o SubSeq(@, i + 1, Len(@))]
    /\ UNCHANGED <<firestore, mainQ, basket, screen, taps, added, wanted>>

ItemsFetched(d, i) ==
    Fetched(d, i, fetches[d][i]) /\ UNCHANGED <<faults, disturbed>>

\* One of the items cannot be fetched: the call completes with what has come
\* so far, and never with all of them.
ItemsMissing(d, i) ==
    /\ Fault(d)
    /\ \E rows \in Parts(fetches[d][i]) : Fetched(d, i, rows)
    /\ disturbed' = TRUE

-----------------------------------------------------------------------------
(* The callbacks, in the order they were posted.                            *)

\* No basket: createNewBasket with a new id, written as a whole.
CreateNewBasket(d, x) ==
    \E b \in Ids \ used :
        /\ used' = used \cup {b}
        /\ Send(d, [op |-> "set", id |-> b, items |-> With(Empty, x), row |-> FALSE])
        /\ added' = [added EXCEPT ![b] = With(@, x)]

\* Mutants: the item is appended twice; it replaces the array.
AppendTwice(d, x, f) ==
    /\ Send(d, [op |-> "update", id |-> f.id, items |-> With(With(f.items, x), x), row |-> FALSE])
    /\ added' = [added EXCEPT ![f.id] = With(@, x)]
    /\ UNCHANGED used
ReplaceBasket(d, x, f) ==
    /\ Send(d, [op |-> "update", id |-> f.id, items |-> With(Empty, x), row |-> FALSE])
    /\ added' = [added EXCEPT ![f.id] = With(@, x)]
    /\ UNCHANGED used

\* The item is appended to the downloaded array, which is written back.
AppendToBasket(d, x, f) ==
    /\ Send(d, [op |-> "update", id |-> f.id, items |-> With(f.items, x), row |-> FALSE])
    /\ added' = [added EXCEPT ![f.id] = With(@, x)]
    /\ UNCHANGED used

\* Mutant: every added item makes a basket of its own.
RunAddNew(d, c) ==
    /\ c.kind = "queried" /\ c.for \in Items
    /\ CreateNewBasket(d, c.for)
    /\ wanted' = With(wanted, c.for)
    /\ UNCHANGED <<fetches, view>>

RunAdd(d, c) ==
    /\ c.kind = "queried" /\ c.for \in Items
    /\ IF c.found = NoBasket THEN CreateNewBasket(d, c.for)
       ELSE AppendToBasket(d, c.for, c.found)
    /\ wanted' = With(wanted, c.for)
    /\ UNCHANGED <<fetches, view>>

\* Mutant: the items are fetched, the basket is not kept.
RunReloadItems(d, c) ==
    /\ c.kind = "queried" /\ c.for = Reload
    /\ GetBasketItems(d, c.found)
    /\ UNCHANGED <<used, pending, basket, screen, added, wanted>>

RunReload(d, c) ==
    /\ c.kind = "queried" /\ c.for = Reload
    /\ basket' = [basket EXCEPT ![d] = c.found]
    /\ GetBasketItems(d, c.found)
    /\ UNCHANGED <<used, pending, screen, added, wanted>>

RunDeleted(d, c) ==
    /\ c.kind = "deleted"
    /\ GetBasketItems(d, basket[d])
    /\ UNCHANGED <<used, pending, basket, screen, added, wanted>>

RunCallback(d) ==
    /\ mainQ[d] # <<>>
    /\ mainQ' = [mainQ EXCEPT ![d] = Tail(@)]
    /\ LET c == Head(mainQ[d])
       IN  RunAdd(d, c) \/ RunReload(d, c) \/ RunDeleted(d, c)
    /\ UNCHANGED <<server, cache, asked, bounds, disturbed>>

Next ==
    \E d \in Phones :
        \/ \E x \in Items : AddToBasket(d, x) \/ DeleteRow(d, x)
        \/ BasketAppears(d) \/ ItemAppears(d)
        \/ \E k \in Items \cup {Reload} : QueryAnswered(d, k)
        \/ Commit(d)
        \/ \E i \in DOMAIN fetches[d] : ItemsFetched(d, i) \/ ItemsMissing(d, i)
        \/ RunCallback(d)
        \/ Crash(d)

Spec == Init /\ [][Next]_vars

-----------------------------------------------------------------------------
(* Properties.                                                              *)

\* No version of a basket, on the server, in a cache, in a pending write, in a
\* callback or on a screen, holds an item more often than it was added to that
\* basket: however the read-modify-writes interleave and whatever is lost,
\* nobody is ever asked to pay for something twice that was added once.
Bounded(b, i) == b # NoBasket => \A x \in Items : b[x] <= added[i][x]
NoPhantomItems ==
    /\ \A i \in Ids : Bounded(server[i], i)
    /\ \A d \in Phones :
         /\ \A i \in Ids : Bounded(cache[d][i], i)
         /\ \A k \in DOMAIN pending[d] : Bounded(pending[d][k].items, pending[d][k].id)
         /\ \A k \in DOMAIN mainQ[d] :
              mainQ[d][k].kind = "queried" /\ mainQ[d][k].found # NoBasket
              => Bounded(mainQ[d][k].found.items, mainQ[d][k].found.id)
         /\ basket[d] # NoBasket => Bounded(basket[d].items, basket[d].id)

\* A user who never starts anything before everything else is finished, and to
\* whom nothing goes wrong, has one basket, on however many phones.
OneBasket ==
    ~disturbed => \A i, j \in used : i = j

\* Nothing was done on more than one phone.
OnePhone == \A d, e \in Phones : taps[d] > 0 /\ taps[e] > 0 => d = e

\* On one phone such a user's basket holds what was added and not deleted.
NothingLost ==
    Quiet /\ ~disturbed /\ OnePhone =>
        \A i \in Ids : server[i] = IF i \in used THEN wanted ELSE NoBasket

\* And the list shows it: the rows, the object they were made from and the
\* server agree whenever the list is on the screen and at rest.
ListShowsBasket ==
    Quiet /\ ~disturbed /\ OnePhone =>
        \A d \in Phones : screen[d] = "basket" /\ used # {} =>
            /\ allItems[d] = wanted
            /\ basket[d] # NoBasket /\ basket[d].items = wanted

=============================================================================
