------------------------------- MODULE Market -------------------------------
(***************************************************************************)
(* One phone that several users use in turn.                               *)
(*                                                                         *)
(* The session (module Accounts), the basket, the checkout and the profile *)
(* with the purchase history behind it are put together to see what one    *)
(* user's work does to another's data.  Every screen asks currentUser() or *)
(* currentId() when it starts something, keeps what it shows through       *)
(* logouts and logins, and goes on when the answer comes, for whoever is   *)
(* signed in by then.                                                      *)
(*                                                                         *)
(* An item is abstracted to the user who added it, the baskets of a user   *)
(* to the users who added anything in them, and the requests of one kind   *)
(* under way to the users they were made for: an answer may or may not be  *)
(* the last of its kind.  Queries and writes are answered in one step, at  *)
(* any later time; how they overlap for one user, when the Check out       *)
(* button is enabled and what is written to the purchase history is the    *)
(* subject of modules Basket and Checkout.                                 *)
(***************************************************************************)
EXTENDS Naturals, FiniteSets

CONSTANTS
    Users,
    Nobody,      \* nobody is signed in, no record, no basket object, no rows
    MaxSignIns,  \* bound: sign-ins
    MaxRequests  \* bound: requests under way when the user starts another

ASSUME NobodyAssumption == Nobody \notin Users
ASSUME BoundAssumption == MaxSignIns \in Nat /\ MaxRequests \in Nat

VARIABLES
    auth, record, residue, crossed,   \* of Accounts
    baskets,          \* collection Basket: whose items each user's baskets hold
    front,            \* the tab in front: an item's screen, the basket or the profile
    pushed,           \* the screen on the profile in its tab's own stack
    adding,           \* who pressed Add to basket: queries without an answer
    loading,          \* whose basket, or the items of it, is being loaded
    updating,         \* updates of a basket by its screen without an answer
    basket,           \* BasketViewController.basket: whose it is
    allItems,         \* BasketViewController.allItems: whose basket they came from
    purchasedItemIds, \* who pressed Check out for them
    customer,         \* who pressed Check out for the open PayPal sheet
    itemArray,        \* whose purchases the purchase history shows and loads
    signIns,          \* the counter of the bound
    caught,           \* history: <<w, u>> if u signed in while an add of w was under way
    inherited         \* history: the last sign-in found another user's list

A == INSTANCE Accounts

session == <<auth, record, residue, crossed>>
requests == <<adding, loading, updating>>
list == <<basket, allItems>>
payment == <<purchasedItemIds, customer>>
screen == <<front, pushed, itemArray>>
ghosts == <<caught, inherited>>
vars == <<session, baskets, requests, list, payment, screen, signIns, ghosts>>

\* The buttons of the profile to the purchase history and to the edit screen are
\* there on "active" only, which is looked at whenever the profile appears.
Profile == {"profile", "active"}

TypeOK ==
    /\ auth \in Users \cup {Nobody} /\ record \in Users \cup {Nobody}
    /\ residue \in SUBSET Users /\ crossed \in BOOLEAN
    /\ baskets \in [Users -> SUBSET Users]
    /\ front \in {"item", "basket"} \cup Profile
    /\ pushed \in {"nothing", "edit", "history"}
    /\ adding \in SUBSET Users /\ loading \in SUBSET Users /\ updating \in BOOLEAN
    /\ basket \in Users \cup {Nobody} /\ allItems \in Users \cup {Nobody}
    /\ purchasedItemIds \in SUBSET Users /\ customer \in Users \cup {Nobody}
    /\ itemArray \in SUBSET Users /\ signIns \in 0..MaxSignIns
    /\ caught \in SUBSET (Users \X Users) /\ inherited \in BOOLEAN

-----------------------------------------------------------------------------
\* MUser.currentUser() is not nil.
SomeUser == auth # Nobody /\ record # Nobody

\* No sheet covers the app.
Free == customer = Nobody

\* The bound of the requests that the user starts.
MayAsk == Cardinality(adding) + Cardinality(loading) + (IF updating THEN 1 ELSE 0) < MaxRequests

\* One answer has come: it may or may not have been the last of its kind.
Answered(S, u) == {S, S \ {u}}

\* A write of the array S to a basket of user u: it is made or refused.
WriteBasket(u, S) ==
    \/ baskets' = [baskets EXCEPT ![u] = S]
    \/ UNCHANGED baskets

\* getBasketItems for a basket of user u, which may be empty.
GetBasketItems(u) ==
    IF u = Nobody THEN UNCHANGED <<loading, allItems>>
    ELSE \/ allItems' = Nobody /\ UNCHANGED loading
         \/ loading' = loading \cup {u} /\ UNCHANGED allItems

\* Nothing of another user than u is on the basket's screen, nor under way to
\* it, nor on the screen of the purchase history.
ListIsOf(u) ==
    /\ loading \cup purchasedItemIds \subseteq {u}
    /\ {basket, allItems, customer} \subseteq {Nobody, u}
HistoryIsOf(u) == itemArray \subseteq {u}

\* The app has just been started, after somebody used it or not; users may
\* have a basket.
Init ==
    /\ auth \in Users \cup {Nobody}
    /\ record = auth /\ residue = {auth} \ {Nobody}
    /\ crossed = FALSE
    /\ baskets \in {b \in [Users -> SUBSET Users] : \A u \in Users : b[u] \subseteq {u}}
    /\ adding = {} /\ loading = {} /\ updating = FALSE
    /\ basket = Nobody /\ allItems = Nobody
    /\ purchasedItemIds = {} /\ customer = Nobody
    /\ front = "item" /\ pushed = "nothing" /\ itemArray = {}
    /\ signIns = 0
    /\ caught = {} /\ inherited = FALSE

-----------------------------------------------------------------------------
(* The session.                                                             *)

\* Auth signs a user in, when it answers a request of the login view.
SignIn(u) ==
    /\ signIns < MaxSignIns /\ signIns' = signIns + 1
    /\ A!SignIn(u)
    /\ caught' = caught \cup (adding \X {u})
    /\ inherited' = ~(ListIsOf(u) /\ HistoryIsOf(u))
    /\ UNCHANGED <<baskets, requests, list, payment, screen>>

GiveUp ==
    /\ A!GiveUp
    /\ UNCHANGED <<baskets, requests, list, payment, screen, signIns, ghosts>>

\* A record arrives.
Store(u) ==
    /\ A!Store(u)
    /\ UNCHANGED <<baskets, requests, list, payment, screen, signIns, ghosts>>

Settle ==
    /\ A!Settle
    /\ UNCHANGED <<baskets, requests, list, payment, screen, signIns, ghosts>>

\* Mutant: the profile does not look at the user again after a logout.
LogOutOnly ==
    /\ Free /\ front = "profile" /\ pushed = "edit"
    /\ A!LogOut
    /\ front' = "active" /\ pushed' = "nothing"
    /\ UNCHANGED <<baskets, requests, list, payment, itemArray, signIns, ghosts>>

\* logOutUser on the edit screen, which pops back to the profile.
LogOut ==
    /\ Free /\ front = "profile" /\ pushed = "edit"
    /\ A!LogOut
    /\ pushed' = "nothing"
    /\ UNCHANGED <<baskets, requests, list, payment, front, itemArray, signIns, ghosts>>

\* The app ends and starts again: Auth's user, the record and what is on its
\* way to the server are all that is left.
Crash ==
    /\ adding' = {} /\ loading' = {} /\ updating' = FALSE
    /\ basket' = Nobody /\ allItems' = Nobody
    /\ purchasedItemIds' = {} /\ customer' = Nobody
    /\ front' = "item" /\ pushed' = "nothing" /\ itemArray' = {}
    /\ inherited' = FALSE
    /\ UNCHANGED <<session, baskets, signIns, caught>>

-----------------------------------------------------------------------------
(* Adding to the basket.                                                    *)

ItemAppears ==
    /\ Free /\ front # "item"
    /\ front' = "item"
    /\ UNCHANGED <<session, baskets, requests, list, payment, pushed, itemArray, signIns, ghosts>>

\* Mutant: the button does not look whether there is a user.
AddToBasketUnasked ==
    /\ MayAsk /\ Free /\ front = "item"
    /\ adding' = adding \cup {auth}
    /\ UNCHANGED <<session, baskets, screen, loading, updating, list, payment, signIns, ghosts>>

\* addtoBasketButtonPressed
AddToBasket ==
    /\ MayAsk /\ Free /\ front = "item" /\ SomeUser
    /\ adding' = adding \cup {auth}
    /\ UNCHANGED <<session, baskets, screen, loading, updating, list, payment,
                   signIns, ghosts>>

\* Mutant: a new basket is made for the owner of the stored record.
CreateNewBasketForRecord(u) ==
    IF record = Nobody THEN Crash
    ELSE /\ WriteBasket(record, baskets[record] \cup {u})
         /\ adding' \in Answered(adding, u)
         /\ UNCHANGED <<session, screen, loading, updating, list, payment, signIns, ghosts>>

\* The query made for user u has found nothing: a new basket with the item is
\* made for the user who is signed in now; currentId() traps without one.
CreateNewBasket(u) ==
    IF auth = Nobody THEN Crash
    ELSE /\ WriteBasket(auth, baskets[auth] \cup {u})
         /\ adding' \in Answered(adding, u)
         /\ UNCHANGED <<session, screen, loading, updating, list, payment, signIns, ghosts>>

\* The query made for user u has found u's basket, and the item is added.
UpdateBasket(u) ==
    /\ WriteBasket(u, baskets[u] \cup {u})
    /\ adding' \in Answered(adding, u)
    /\ UNCHANGED <<session, screen, loading, updating, list, payment, signIns, ghosts>>

AddAnswered(u) ==
    /\ u \in adding
    /\ UpdateBasket(u) \/ CreateNewBasket(u)

-----------------------------------------------------------------------------
(* The basket's screen.                                                     *)

\* Mutant: the basket of the stored record is loaded.
BasketAppearsForRecord ==
    /\ MayAsk /\ Free /\ front # "basket"
    /\ front' = "basket"
    /\ IF SomeUser THEN loading' = loading \cup {record} ELSE UNCHANGED loading
    /\ UNCHANGED <<session, baskets, adding, updating, list, payment, pushed, itemArray,
                   signIns, ghosts>>

\* viewDidAppear: without a user the rows stay.
BasketAppears ==
    /\ MayAsk /\ Free /\ front # "basket"
    /\ front' = "basket"
    /\ IF SomeUser THEN loading' = loading \cup {auth} ELSE UNCHANGED loading
    /\ UNCHANGED <<session, baskets, adding, updating, list, payment, pushed, itemArray,
                   signIns, ghosts>>

\* loadBasketFromFirestore is answered, with a basket or without.
Reloaded(u) ==
    /\ u \in loading
    /\ \/ /\ basket' = Nobody
          /\ loading' \in Answered(loading, u)
          /\ UNCHANGED allItems
       \/ /\ basket' = u
          /\ GetBasketItems(u)
    /\ UNCHANGED <<session, baskets, screen, adding, updating, payment, signIns, ghosts>>

\* downloadItems is answered, with items or without.
Fetched(u) ==
    /\ u \in loading
    /\ loading' \in Answered(loading, u)
    /\ allItems' \in {u, Nobody}
    /\ UNCHANGED <<session, baskets, screen, adding, updating, basket, payment, signIns, ghosts>>

\* A row is swiped away: the object loses the item, if it has it, and is
\* written; without an object the app ends.
DeleteRow ==
    /\ MayAsk /\ Free /\ front = "basket" /\ allItems # Nobody
    /\ IF basket = Nobody THEN Crash
       ELSE /\ allItems' \in {allItems, Nobody}
            /\ \E S \in SUBSET baskets[basket] : WriteBasket(basket, S)
            /\ updating' = TRUE
            /\ UNCHANGED <<session, screen, adding, loading, basket, payment, signIns, ghosts>>

\* The completion of updateBasketinFirestore.
BasketUpdated ==
    /\ updating
    /\ updating' \in BOOLEAN
    /\ GetBasketItems(basket)
    /\ UNCHANGED <<session, baskets, screen, adding, basket, payment, signIns, ghosts>>

\* checkoutButtonPressed; currentUser()! traps without a user.  One who has
\* not finished the registration is told so, and a payment that cannot be
\* processed leaves the rows in purchasedItemIds.
CheckoutButtonPressed ==
    /\ Free /\ front = "basket"
    /\ IF ~SomeUser THEN Crash
       ELSE /\ purchasedItemIds' =
                 IF allItems = Nobody THEN purchasedItemIds ELSE purchasedItemIds \cup {auth}
            /\ customer' \in {auth, Nobody}
            /\ UNCHANGED <<session, baskets, screen, requests, list, signIns, ghosts>>

PaymentDidCancel ==
    /\ ~Free
    /\ customer' = Nobody
    /\ UNCHANGED <<session, baskets, screen, requests, list, purchasedItemIds, signIns, ghosts>>

\* Mutant: a basket is looked for among all baskets after a payment.
EmptyAnyBasket ==
    IF basket = Nobody THEN Crash
    ELSE /\ \E u \in Users : WriteBasket(u, {})
         /\ purchasedItemIds' = {} /\ customer' = Nobody
         /\ allItems' = Nobody /\ updating' = TRUE
         /\ UNCHANGED <<session, screen, adding, loading, basket, signIns, ghosts>>

\* emptyTheBasket empties the basket object there is by now.
EmptyTheBasket ==
    IF basket = Nobody THEN Crash
    ELSE /\ WriteBasket(basket, {})
         /\ purchasedItemIds' = {} /\ customer' = Nobody
         /\ allItems' = Nobody /\ updating' = TRUE
         /\ UNCHANGED <<session, screen, adding, loading, basket, signIns, ghosts>>

\* PayPal completes the payment and the sheet is gone.
PaymentDidComplete == ~Free /\ EmptyTheBasket

-----------------------------------------------------------------------------
(* The profile and the purchase history.                                    *)

\* viewDidAppear of the profile: its tab is selected with nothing on it, or
\* what was on it is popped.
ProfileAppears ==
    /\ Free /\ (front \in Profile) # (pushed = "nothing")
    /\ front' = IF SomeUser THEN "active" ELSE "profile"
    /\ pushed' = "nothing" /\ itemArray' = {}
    /\ UNCHANGED <<session, baskets, requests, list, payment, signIns, ghosts>>

\* The screen s is opened from the profile, or its tab is selected with s on it.
Selects(s) == Free /\ (front = "active" \/ (front \notin Profile /\ pushed = s))

\* viewDidLoad of the edit screen, the first time.
EditAppears ==
    /\ Selects("edit")
    /\ front' = "profile" /\ pushed' = "edit"
    /\ UNCHANGED <<session, baskets, requests, list, payment, itemArray, signIns, ghosts>>

\* viewDidAppear of the purchase history: loadItems unwraps the user and asks
\* for the items of the record; what was shown stays until they come.
HistoryAppears ==
    /\ Selects("history")
    /\ IF ~SomeUser THEN Crash
       ELSE /\ front' = "profile" /\ pushed' = "history"
            /\ itemArray' = itemArray \cup {record}
            /\ UNCHANGED <<session, baskets, requests, list, payment, signIns, ghosts>>

\* downloadItems is answered, and no other answer is to come.
HistoryLoaded ==
    /\ \E u \in itemArray : itemArray' = {u}
    /\ UNCHANGED <<session, baskets, requests, list, payment, front, pushed, signIns, ghosts>>

Next ==
    \/ \E u \in Users : SignIn(u) \/ Store(u) \/ AddAnswered(u) \/ Reloaded(u) \/ Fetched(u)
    \/ GiveUp \/ Settle \/ LogOut \/ Crash
    \/ ItemAppears \/ AddToBasket
    \/ BasketAppears \/ DeleteRow \/ BasketUpdated
    \/ CheckoutButtonPressed \/ PaymentDidCancel \/ PaymentDidComplete
    \/ ProfileAppears \/ EditAppears \/ HistoryAppears \/ HistoryLoaded

Spec == Init /\ [][Next]_vars

-----------------------------------------------------------------------------
(* Properties.                                                              *)

\* A user's basket holds nothing another user added, whatever record is
\* stored and whatever list is shown: unless it was created for an Add to
\* basket that the other one had pressed before this user signed in.
OnlyOwnItems ==
    \A u \in Users : \A w \in baskets[u] : w = u \/ <<w, u>> \in caught

\* What the basket's screen shows, loads, charges for and has ready for
\* purchasedItemIds is the signed-in user's, if it was blank when that user
\* signed in; so is the purchase history, if the record is not another one's.
ScreensAreOfUser ==
    auth # Nobody /\ ~inherited =>
        /\ ListIsOf(auth)
        /\ ~crossed => HistoryIsOf(auth)

\* No basket is changed while another user is signed in: unless that one was
\* left with the list, or its owner had pressed Add to basket before.
BasketChangedByOwner ==
    [][\A u \in Users :
         baskets'[u] # baskets[u] /\ auth \notin {Nobody, u} => inherited \/ u \in adding]_vars

\* The purchase history can be opened, or is on its tab's stack, in front or not.
HistoryOffered == front = "active" \/ pushed = "history"

\* loadItems asserts with currentUser()! that a user looks at the purchase
\* history, when it is opened and whenever its tab is selected again.  While it
\* is offered the user is lost in one way only, when Auth gives the user up on
\* its own, and until somebody signs in: one who logs out leaves neither the
\* button nor the history behind, and whoever signs in finds a record.
HistoryHasUser ==
    [][HistoryOffered' /\ ~SomeUser' =>
         GiveUp \/ (HistoryOffered /\ auth = Nobody /\ auth' = Nobody)]_vars

=============================================================================
