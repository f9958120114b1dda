---------------------------- MODULE MarketProofs ----------------------------
(* What Market guarantees for any number of users and sign-ins.             *)
EXTENDS Market, TLAPS

(* Every group of variables that an action leaves alone is seen through.   *)
USE DEF session, requests, list, payment, screen, ghosts, Profile

(* The next-state relation by actions, to split proofs on. *)
LEMMA Steps ==
    ASSUME [Next]_vars
    PROVE  \/ \E u \in Users : \/ SignIn(u) \/ Store(u) \/ AddAnswered(u) \/ Reloaded(u)
                               \/ Fetched(u)
           \/ GiveUp \/ Settle \/ LogOut \/ Crash
           \/ ItemAppears \/ AddToBasket \/ BasketAppears \/ DeleteRow \/ BasketUpdated
           \/ CheckoutButtonPressed \/ PaymentDidCancel \/ PaymentDidComplete
           \/ ProfileAppears \/ EditAppears \/ HistoryAppears \/ HistoryLoaded
           \/ UNCHANGED vars
  BY DEF Next

(* A written array, or a refused one, keeps the type of the baskets. *)
LEMMA WriteType ==
    ASSUME TypeOK, NEW u \in Users, NEW S \in SUBSET Users, WriteBasket(u, S)
    PROVE  baskets' \in [Users -> SUBSET Users]
  BY DEF WriteBasket, TypeOK

(* The session keeps its types. *)
LEMMA SessionType ==
    ASSUME TypeOK,
           \/ \E u \in Users : A!SignIn(u) \/ A!Store(u)
           \/ A!GiveUp \/ A!LogOut \/ A!Settle
           \/ UNCHANGED session
    PROVE  /\ auth' \in Users \cup {Nobody} /\ record' \in Users \cup {Nobody}
           /\ residue' \in SUBSET Users /\ crossed' \in BOOLEAN
  BY DEF TypeOK, A!SignIn, A!Store, A!GiveUp, A!LogOut, A!Settle, A!Within

(* A restart keeps the types. *)
LEMMA CrashType == TypeOK /\ Crash => TypeOK'
  BY DEF TypeOK, Crash

(* An answered request keeps the type of the requests. *)
LEMMA AnsweredType ==
    ASSUME NEW S \in SUBSET Users, NEW u, NEW R \in Answered(S, u)
    PROVE  R \in SUBSET Users
  BY DEF Answered

(* TypeOK holds initially. *)
LEMMA InitType == Init => TypeOK
<1> SUFFICES ASSUME Init PROVE TypeOK
  OBVIOUS
<1>1. /\ auth \in Users \cup {Nobody} /\ record \in Users \cup {Nobody}
      /\ residue \in SUBSET Users
  BY DEF Init
<1>2. baskets \in [Users -> SUBSET Users]
  BY DEF Init
<1>3. signIns \in 0..MaxSignIns
  BY BoundAssumption DEF Init
<1>4. /\ adding \in SUBSET Users /\ loading \in SUBSET Users
      /\ purchasedItemIds \in SUBSET Users /\ caught \in SUBSET (Users \X Users)
  BY DEF Init
<1>5. front \in {"item", "basket"} \cup Profile /\ pushed \in {"nothing", "edit", "history"}
  BY DEF Init
<1>6. crossed \in BOOLEAN /\ updating \in BOOLEAN /\ inherited \in BOOLEAN
  BY DEF Init
<1>7. basket = Nobody /\ allItems = Nobody /\ customer = Nobody /\ itemArray = {}
  BY DEF Init
<1> QED
  BY <1>1, <1>2, <1>3, <1>4, <1>5, <1>6, <1>7 DEF TypeOK

(* TypeOK is inductive. *)
LEMMA NextType == TypeOK /\ [Next]_vars => TypeOK'
<1> SUFFICES ASSUME TypeOK, [Next]_vars PROVE TypeOK'
  OBVIOUS
<1>1. ASSUME NEW u \in Users, SignIn(u) PROVE TypeOK'
  <2>1. /\ auth' \in Users \cup {Nobody} /\ record' \in Users \cup {Nobody}
        /\ residue' \in SUBSET Users /\ crossed' \in BOOLEAN
    BY <1>1, SessionType DEF SignIn
  <2>2. caught' \in SUBSET (Users \X Users)
    BY <1>1 DEF SignIn, TypeOK
  <2>3. signIns' \in 0..MaxSignIns
    BY <1>1, BoundAssumption DEF SignIn, TypeOK
  <2>4. inherited' \in BOOLEAN
    BY <1>1 DEF SignIn
  <2> QED
    BY <1>1, <2>1, <2>2, <2>3, <2>4 DEF SignIn, TypeOK
<1>2. CASE (\E u \in Users : Store(u)) \/ GiveUp \/ LogOut \/ Settle
  <2>1. /\ auth' \in Users \cup {Nobody} /\ record' \in Users \cup {Nobody}
        /\ residue' \in SUBSET Users /\ crossed' \in BOOLEAN
    BY <1>2, SessionType DEF Store, GiveUp, LogOut, Settle
  <2>2. /\ UNCHANGED <<baskets, requests, list, payment, front, itemArray, signIns, ghosts>>
        /\ pushed' \in {pushed, "nothing"}
    BY <1>2 DEF Store, GiveUp, LogOut, Settle
  <2>3. front' \in {"item", "basket"} \cup Profile /\ pushed' \in {"nothing", "edit", "history"}
    BY <2>2 DEF TypeOK
  <2>4. /\ baskets' \in [Users -> SUBSET Users]
        /\ adding' \in SUBSET Users /\ loading' \in SUBSET Users /\ updating' \in BOOLEAN
        /\ caught' \in SUBSET (Users \X Users) /\ inherited' \in BOOLEAN
    BY <2>2 DEF TypeOK
  <2>5. /\ basket' \in Users \cup {Nobody} /\ allItems' \in Users \cup {Nobody}
        /\ purchasedItemIds' \in SUBSET Users /\ customer' \in Users \cup {Nobody}
        /\ itemArray' \in SUBSET Users /\ signIns' \in 0..MaxSignIns
    BY <2>2 DEF TypeOK
  <2> QED
    BY <2>1, <2>3, <2>4, <2>5 DEF TypeOK
<1>3. ASSUME NEW u \in Users, AddAnswered(u) PROVE TypeOK'
  <2>1. CASE UpdateBasket(u)
    <3>1. baskets[u] \cup {u} \in SUBSET Users
      BY DEF TypeOK
    <3>2. baskets' \in [Users -> SUBSET Users]
      BY <2>1, <3>1, WriteType DEF UpdateBasket
    <3>3. adding' \in SUBSET Users
      BY <2>1, AnsweredType DEF UpdateBasket, TypeOK
    <3> QED
      BY <2>1, <3>2, <3>3 DEF UpdateBasket, TypeOK
  <2>2. CASE CreateNewBasket(u) /\ auth # Nobody
    <3>1. auth \in Users /\ baskets[auth] \cup {u} \in SUBSET Users
      BY <2>2 DEF TypeOK
    <3>2. baskets' \in [Users -> SUBSET Users]
      BY <2>2, <3>1, WriteType DEF CreateNewBasket
    <3>3. adding' \in SUBSET Users
      BY <2>2, AnsweredType DEF CreateNewBasket, TypeOK
    <3> QED
      BY <2>2, <3>2, <3>3 DEF CreateNewBasket, TypeOK
  <2> QED
    BY <1>3, <2>1, <2>2, CrashType DEF AddAnswered, CreateNewBasket
<1>4. ASSUME NEW u \in Users, Reloaded(u) \/ Fetched(u) PROVE TypeOK'
  <2>1. loading' \in SUBSET Users
    BY <1>4, AnsweredType DEF Reloaded, Fetched, GetBasketItems, TypeOK
  <2>2. basket' \in Users \cup {Nobody} /\ allItems' \in Users \cup {Nobody}
    BY <1>4 DEF Reloaded, Fetched, GetBasketItems, TypeOK
  <2> QED
    BY <1>4, <2>1, <2>2 DEF Reloaded, Fetched, TypeOK
<1>5. CASE DeleteRow /\ basket # Nobody
  <2>1. PICK S \in SUBSET baskets[basket] : WriteBasket(basket, S)
    BY <1>5 DEF DeleteRow
  <2>2. basket \in Users /\ S \in SUBSET Users
    BY <1>5 DEF TypeOK
  <2>3. baskets' \in [Users -> SUBSET Users]
    BY <2>1, <2>2, WriteType
  <2> QED
    BY <1>5, <2>3 DEF DeleteRow, TypeOK
<1>6. CASE PaymentDidComplete /\ basket # Nobody
  <2>1. basket \in Users /\ WriteBasket(basket, {})
    BY <1>6 DEF PaymentDidComplete, EmptyTheBasket, TypeOK
  <2>2. baskets' \in [Users -> SUBSET Users]
    BY <2>1, WriteType
  <2> QED
    BY <1>6, <2>2 DEF PaymentDidComplete, EmptyTheBasket, TypeOK
<1>7. CASE BasketUpdated
  BY <1>7 DEF BasketUpdated, GetBasketItems, TypeOK
<1>8. CASE AddToBasket \/ BasketAppears
  BY <1>8 DEF AddToBasket, BasketAppears, SomeUser, TypeOK
<1>9. CASE CheckoutButtonPressed /\ SomeUser
  BY <1>9 DEF CheckoutButtonPressed, SomeUser, TypeOK
<1>10. CASE ItemAppears \/ PaymentDidCancel
  BY <1>10 DEF ItemAppears, PaymentDidCancel, TypeOK
<1>11. CASE \/ ProfileAppears \/ EditAppears \/ HistoryLoaded
            \/ (HistoryAppears /\ SomeUser)
  <2>1. UNCHANGED <<session, baskets, requests, list, payment, signIns, ghosts>>
    BY <1>11 DEF ProfileAppears, EditAppears, HistoryLoaded, HistoryAppears
  <2>2. itemArray' \in SUBSET Users
    BY <1>11 DEF ProfileAppears, EditAppears, HistoryLoaded, HistoryAppears, SomeUser, TypeOK
  <2>3. front' \in {"item", "basket"} \cup Profile /\ pushed' \in {"nothing", "edit", "history"}
    BY <1>11 DEF ProfileAppears, EditAppears, HistoryLoaded, HistoryAppears, TypeOK
  <2> QED
    BY <2>1, <2>2, <2>3 DEF TypeOK
<1>12. CASE Crash
  BY <1>12, CrashType
<1>13. CASE UNCHANGED vars
  BY <1>13 DEF vars, TypeOK
<1> QED
  BY <1>1, <1>2, <1>3, <1>4, <1>5, <1>6, <1>7, <1>8, <1>9, <1>10, <1>11, <1>12, <1>13, Steps
     DEF DeleteRow, PaymentDidComplete, EmptyTheBasket, CheckoutButtonPressed, HistoryAppears

(* Every reachable state of Market has the types the code's data has. *)
THEOREM TypeCorrect == Spec => []TypeOK
  BY InitType, NextType, PTL DEF Spec

-----------------------------------------------------------------------------
(* Whose items get into whose basket.                                       *)

\* The strengthening of OnlyOwnItems: an Add to basket without an answer is of
\* the signed-in user, or was under way at the last sign-in.
AddingCaught ==
    \A w \in adding : auth \in {Nobody, w} \/ <<w, auth>> \in caught

(* The steps that neither write a basket nor touch what it is written from. *)
LEMMA AddingElsewhere ==
    ASSUME OnlyOwnItems, AddingCaught,
           UNCHANGED <<baskets, adding, caught>>, auth' \in {auth, Nobody}
    PROVE  OnlyOwnItems' /\ AddingCaught'
  BY DEF OnlyOwnItems, AddingCaught

(* A restart forgets the queries. *)
LEMMA AddingCrash ==
    OnlyOwnItems /\ Crash => OnlyOwnItems' /\ AddingCaught'
  BY DEF OnlyOwnItems, AddingCaught, Crash

(* A written array that holds no more than the basket did, and its owner's   *)
(* items, keeps OnlyOwnItems.                                                *)
LEMMA OwnWrite ==
    ASSUME TypeOK, OnlyOwnItems, NEW u \in Users, NEW S \in SUBSET Users,
           WriteBasket(u, S), UNCHANGED caught,
           \A w \in S : w \in baskets[u] \/ w = u \/ <<w, u>> \in caught
    PROVE  OnlyOwnItems'
  BY DEF TypeOK, OnlyOwnItems, WriteBasket

(* OnlyOwnItems with AddingCaught is inductive. *)
LEMMA OwnItemsStep ==
    TypeOK /\ OnlyOwnItems /\ AddingCaught /\ [Next]_vars => OnlyOwnItems' /\ AddingCaught'
<1> SUFFICES ASSUME TypeOK, OnlyOwnItems, AddingCaught, [Next]_vars
             PROVE  OnlyOwnItems' /\ AddingCaught'
  OBVIOUS
<1>1. ASSUME NEW u \in Users, SignIn(u) PROVE OnlyOwnItems' /\ AddingCaught'
  <2>1. auth' = u /\ caught' = caught \cup (adding \X {u}) /\ UNCHANGED <<baskets, adding>>
    BY <1>1 DEF SignIn, A!SignIn
  <2> QED
    BY <2>1 DEF OnlyOwnItems, AddingCaught
<1>2. CASE (\E u \in Users : Store(u)) \/ GiveUp \/ LogOut \/ Settle
  <2>1. auth' \in {auth, Nobody} /\ UNCHANGED <<baskets, adding, caught>>
    BY <1>2 DEF Store, GiveUp, LogOut, Settle, A!Store, A!GiveUp, A!LogOut, A!Settle
  <2> QED
    BY <2>1, AddingElsewhere
<1>3. ASSUME NEW u \in Users, AddAnswered(u) PROVE OnlyOwnItems' /\ AddingCaught'
  <2>1. u \in adding
    BY <1>3 DEF AddAnswered
  <2>2. ASSUME adding' \in Answered(adding, u), UNCHANGED <<auth, caught>>
        PROVE  AddingCaught'
    BY <2>2 DEF AddingCaught, Answered
  <2>3. CASE UpdateBasket(u)
    <3>1. baskets[u] \cup {u} \in SUBSET Users
      BY DEF TypeOK
    <3>2. OnlyOwnItems'
      BY <2>3, <3>1, OwnWrite DEF UpdateBasket
    <3> QED
      BY <2>2, <2>3, <3>2 DEF UpdateBasket
  <2>4. CASE CreateNewBasket(u) /\ auth # Nobody
    <3>1. auth \in Users /\ baskets[auth] \cup {u} \in SUBSET Users
      BY <2>4 DEF TypeOK
    <3>2. u = auth \/ <<u, auth>> \in caught
      BY <2>1, <2>4 DEF AddingCaught
    <3>3. OnlyOwnItems'
      BY <2>4, <3>1, <3>2, OwnWrite DEF CreateNewBasket
    <3> QED
      BY <2>2, <2>4, <3>3 DEF CreateNewBasket
  <2>5. CASE Crash
    BY <2>5, AddingCrash
  <2> QED
    BY <1>3, <2>3, <2>4, <2>5 DEF AddAnswered, CreateNewBasket
<1>4. CASE DeleteRow /\ basket # Nobody
  <2>1. PICK S \in SUBSET baskets[basket] : WriteBasket(basket, S)
    BY <1>4 DEF DeleteRow
  <2>2. basket \in Users /\ S \in SUBSET Users
    BY <1>4 DEF TypeOK
  <2>3. OnlyOwnItems'
    BY <1>4, <2>1, <2>2, OwnWrite DEF DeleteRow
  <2> QED
    BY <1>4, <2>3 DEF DeleteRow, AddingCaught
<1>5. CASE PaymentDidComplete /\ basket # Nobody
  <2>1. basket \in Users /\ WriteBasket(basket, {}) /\ UNCHANGED <<auth, adding, caught>>
    BY <1>5 DEF PaymentDidComplete, EmptyTheBasket, TypeOK
  <2>2. OnlyOwnItems'
    BY <2>1, OwnWrite
  <2> QED
    BY <2>1, <2>2 DEF AddingCaught
<1>6. CASE AddToBasket
  <2>1. adding' = adding \cup {auth} /\ UNCHANGED <<auth, baskets, caught>>
    BY <1>6 DEF AddToBasket
  <2> QED
    BY <2>1 DEF OnlyOwnItems, AddingCaught
<1>7. CASE \/ ItemAppears \/ BasketAppears \/ BasketUpdated \/ PaymentDidCancel
           \/ ProfileAppears \/ EditAppears \/ HistoryLoaded \/ UNCHANGED vars
           \/ \E u \in Users : Reloaded(u) \/ Fetched(u)
           \/ (CheckoutButtonPressed \/ HistoryAppears) /\ SomeUser
  <2>1. UNCHANGED <<auth, baskets, adding, caught>>
    BY <1>7 DEF ItemAppears, BasketAppears, BasketUpdated, PaymentDidCancel, ProfileAppears,
       EditAppears, HistoryLoaded, Reloaded, Fetched, CheckoutButtonPressed, HistoryAppears, vars
  <2> QED
    BY <2>1, AddingElsewhere
<1>8. CASE Crash
  BY <1>8, AddingCrash
<1> QED
  BY <1>1, <1>2, <1>3, <1>4, <1>5, <1>6, <1>7, <1>8, Steps
     DEF DeleteRow, PaymentDidComplete, EmptyTheBasket, CheckoutButtonPressed, HistoryAppears

(* Another user's item gets into a basket only if it was being added when    *)
(* the owner of the basket signed in.                                        *)
THEOREM OwnItems == Spec => []OnlyOwnItems
<1>1. Init => OnlyOwnItems /\ AddingCaught
  BY DEF Init, OnlyOwnItems, AddingCaught
<1> QED
  BY <1>1, OwnItemsStep, TypeCorrect, PTL DEF Spec

-----------------------------------------------------------------------------
(* What the screens show.                                                   *)

\* The strengthening of ScreensAreOfUser: unless users were crossed, the
\* record is the signed-in user's.
RecordOwn ==
    /\ record \in residue \cup {Nobody}
    /\ auth # Nobody /\ ~crossed => residue \subseteq {auth}

(* RecordOwn is inductive: it needs nothing but what Accounts says. *)
LEMMA RecordOwnStep ==
    RecordOwn /\ [Next]_vars => RecordOwn'
<1> SUFFICES ASSUME RecordOwn, [Next]_vars PROVE RecordOwn'
  OBVIOUS
<1>1. CASE UNCHANGED session
  BY <1>1 DEF RecordOwn
<1>2. CASE \/ \E u \in Users : A!SignIn(u) \/ A!Store(u)
           \/ A!GiveUp \/ A!LogOut \/ A!Settle
  BY <1>2 DEF RecordOwn, A!SignIn, A!Store, A!GiveUp, A!LogOut, A!Settle, A!Within
<1> QED
  BY <1>1, <1>2, Steps DEF SignIn, Store, GiveUp, LogOut, Settle, Crash, AddAnswered,
     UpdateBasket, CreateNewBasket, Reloaded, Fetched, ItemAppears, AddToBasket, BasketAppears,
     DeleteRow, BasketUpdated, CheckoutButtonPressed, PaymentDidCancel, PaymentDidComplete,
     EmptyTheBasket, ProfileAppears, EditAppears, HistoryAppears, HistoryLoaded, vars

(* A restart leaves blank screens. *)
LEMMA BlankScreens == Crash => ScreensAreOfUser'
  BY DEF Crash, ScreensAreOfUser, ListIsOf, HistoryIsOf

(* ScreensAreOfUser is inductive with RecordOwn. *)
LEMMA ScreensStep ==
    TypeOK /\ RecordOwn /\ ScreensAreOfUser /\ [Next]_vars => ScreensAreOfUser'
<1> SUFFICES ASSUME TypeOK, RecordOwn, ScreensAreOfUser, [Next]_vars,
                    auth' # Nobody, ~inherited'
             PROVE  ListIsOf(auth)' /\ (~crossed' => HistoryIsOf(auth)')
  BY DEF ScreensAreOfUser
<1> USE DEF ListIsOf, HistoryIsOf
<1>1. ASSUME NEW u \in Users, SignIn(u)
      PROVE  ListIsOf(auth)' /\ HistoryIsOf(auth)'
  <2>1. auth' = u /\ ListIsOf(u) /\ HistoryIsOf(u)
    BY <1>1 DEF SignIn, A!SignIn
  <2> QED
    BY <1>1, <2>1 DEF SignIn
<1>2. CASE Crash
  BY <1>2, BlankScreens DEF ScreensAreOfUser
<1>3. ASSUME ~(\E u \in Users : SignIn(u)), ~Crash
      PROVE  auth' = auth /\ crossed' = crossed /\ inherited' = inherited
  BY <1>3, Steps DEF Store, GiveUp, LogOut, Settle, AddAnswered, A!Store, A!GiveUp, A!LogOut,
     A!Settle, UpdateBasket, CreateNewBasket, Reloaded, Fetched, ItemAppears, AddToBasket,
     BasketAppears, DeleteRow, BasketUpdated, CheckoutButtonPressed, PaymentDidCancel,
     PaymentDidComplete, EmptyTheBasket, ProfileAppears, EditAppears, HistoryAppears,
     HistoryLoaded, vars
<1>4. CASE ~(\E u \in Users : SignIn(u)) /\ ~Crash
  <2>1. ListIsOf(auth) /\ (~crossed => HistoryIsOf(auth)) /\ auth # Nobody
    BY <1>3, <1>4 DEF ScreensAreOfUser
  <2>2. CASE \/ \E u \in Users : Store(u) \/ AddAnswered(u)
             \/ GiveUp \/ Settle \/ LogOut \/ AddToBasket
             \/ UNCHANGED vars
    <3>1. UNCHANGED <<loading, list, payment, itemArray>>
      BY <1>4, <2>2 DEF Store, AddAnswered, UpdateBasket, CreateNewBasket, GiveUp, Settle,
         LogOut, AddToBasket, vars
    <3> QED
      BY <1>3, <1>4, <2>1, <3>1
  <2>3. CASE \/ ItemAppears \/ BasketAppears
             \/ ProfileAppears \/ EditAppears \/ HistoryLoaded
    <3>1. UNCHANGED <<list, payment>> /\ loading' \subseteq loading \cup {auth}
      BY <2>3 DEF ItemAppears, BasketAppears, ProfileAppears, EditAppears, HistoryLoaded
    <3>2. itemArray' \subseteq itemArray
      BY <2>3 DEF ItemAppears, BasketAppears, ProfileAppears, EditAppears, HistoryLoaded
    <3> QED
      BY <1>3, <1>4, <2>1, <3>1, <3>2
  <2>4. ASSUME NEW u \in Users, Reloaded(u) \/ Fetched(u)
        PROVE  ListIsOf(auth)' /\ (~crossed' => HistoryIsOf(auth)')
    <3>1. u = auth
      BY <2>1, <2>4 DEF Reloaded, Fetched
    <3>2. /\ loading' \subseteq {u} /\ {basket', allItems'} \subseteq {Nobody, u}
          /\ UNCHANGED <<payment, itemArray>>
      BY <2>1, <2>4, <3>1 DEF Reloaded, Fetched, GetBasketItems, Answered
    <3> QED
      BY <1>3, <1>4, <2>1, <3>1, <3>2
  <2>5. CASE BasketUpdated
    BY <1>3, <1>4, <2>1, <2>5 DEF BasketUpdated, GetBasketItems
  <2>6. CASE DeleteRow
    BY <1>3, <1>4, <2>1, <2>6 DEF DeleteRow
  <2>7. CASE CheckoutButtonPressed
    BY <1>3, <1>4, <2>1, <2>7 DEF CheckoutButtonPressed
  <2>8. CASE PaymentDidCancel \/ PaymentDidComplete
    BY <1>3, <1>4, <2>1, <2>8 DEF PaymentDidCancel, PaymentDidComplete, EmptyTheBasket
  <2>9. CASE HistoryAppears
    <3>1. UNCHANGED <<loading, list, payment>> /\ itemArray' = itemArray \cup {record}
      BY <1>4, <2>9 DEF HistoryAppears
    <3>2. ~crossed => record = auth
      BY <1>4, <2>1, <2>9 DEF RecordOwn, HistoryAppears, SomeUser
    <3> QED
      BY <1>3, <1>4, <2>1, <3>1, <3>2
  <2> QED
    BY <1>4, <2>2, <2>3, <2>4, <2>5, <2>6, <2>7, <2>8, <2>9, Steps
<1> QED
  BY <1>1, <1>2, <1>4

(* A user who finds blank screens sees, loads and pays for nothing of        *)
(* another user.                                                             *)
THEOREM OwnScreens == Spec => []ScreensAreOfUser
<1>1. Init => RecordOwn /\ ScreensAreOfUser
  BY DEF Init, RecordOwn, ScreensAreOfUser, ListIsOf, HistoryIsOf
<1> QED
  BY <1>1, RecordOwnStep, ScreensStep, TypeCorrect, PTL DEF Spec

(* Only who was left with another user's list changes that one's baskets.    *)
THEOREM OwnerChanges == Spec => BasketChangedByOwner
<1> DEFINE Kept ==
      \A u \in Users :
         baskets'[u] # baskets[u] /\ auth \notin {Nobody, u} => inherited \/ u \in adding
<1>1. TypeOK /\ ScreensAreOfUser /\ [Next]_vars => Kept
  <2> SUFFICES ASSUME TypeOK, ScreensAreOfUser, [Next]_vars, NEW u \in Users,
                      baskets'[u] # baskets[u], auth \notin {Nobody, u}
               PROVE  inherited \/ u \in adding
    OBVIOUS
  <2>1. ~inherited => basket \in {Nobody, auth}
    BY DEF ScreensAreOfUser, ListIsOf
  <2>2. ASSUME NEW v \in Users, NEW S, WriteBasket(v, S) PROVE v = u
    BY <2>2 DEF WriteBasket, TypeOK
  <2>3. ASSUME NEW v \in Users, AddAnswered(v) PROVE u \in adding
    <3>1. CASE UpdateBasket(v)
      BY <2>2, <2>3, <3>1 DEF UpdateBasket, AddAnswered
    <3>2. CASE CreateNewBasket(v)
      BY <2>2, <3>2 DEF CreateNewBasket, TypeOK
    <3> QED
      BY <2>3, <3>1, <3>2 DEF AddAnswered
  <2>4. CASE (DeleteRow \/ PaymentDidComplete) /\ basket # Nobody
    <3>1. basket = u
      <4>1. basket \in Users
        BY <2>4 DEF TypeOK
      <4>2. \E S : WriteBasket(basket, S)
        BY <2>4 DEF DeleteRow, PaymentDidComplete, EmptyTheBasket
      <4> QED
        BY <2>2, <4>1, <4>2
    <3>2. basket \notin {Nobody, auth}
      BY <2>4, <3>1
    <3> QED
      BY <2>1, <3>2
  <2>5. ~Crash
    BY DEF Crash
  <2> QED
    BY <2>3, <2>4, <2>5, Steps DEF SignIn, Store, GiveUp, LogOut, Settle, Reloaded, Fetched,
       ItemAppears, AddToBasket, BasketAppears, BasketUpdated, CheckoutButtonPressed,
       DeleteRow, PaymentDidCancel, PaymentDidComplete, EmptyTheBasket, ProfileAppears,
       EditAppears, HistoryAppears, HistoryLoaded, vars
<1>2. TypeOK /\ ScreensAreOfUser /\ [Next]_vars => [Kept]_vars
  BY <1>1
<1> QED
  BY <1>2, OwnScreens, TypeCorrect, PTL DEF Spec, BasketChangedByOwner

-----------------------------------------------------------------------------
(* The forced unwrapping in the purchase history.                           *)

\* The strengthening of HistoryHasUser: a record that is stored stays while the
\* purchase history is offered.
OfferedHasRecord == HistoryOffered => record # Nobody

(* OfferedHasRecord is inductive, and while the history is offered only Auth *)
(* takes a user away.                                                        *)
LEMMA OfferedStep ==
    ASSUME OfferedHasRecord, [Next]_vars, HistoryOffered'
    PROVE  /\ record' # Nobody
           /\ auth' = Nobody => GiveUp \/ (HistoryOffered /\ auth = Nobody)
<1> USE DEF HistoryOffered
<1>1. \A u \in Users : u # Nobody
  BY NobodyAssumption
<1>2. ASSUME NEW u \in Users, SignIn(u) \/ Store(u)
      PROVE  /\ record' # Nobody
             /\ auth' = Nobody => HistoryOffered /\ auth = Nobody
  BY <1>1, <1>2 DEF SignIn, Store, A!SignIn, A!Store, OfferedHasRecord
<1>3. CASE GiveUp \/ Settle
  BY <1>3 DEF GiveUp, A!GiveUp, Settle, A!Settle, OfferedHasRecord
<1>4. CASE ProfileAppears \/ (HistoryAppears /\ SomeUser)
  BY <1>4 DEF ProfileAppears, HistoryAppears, SomeUser
<1>5. ~Crash /\ ~LogOut /\ ~EditAppears
  BY DEF Crash, LogOut, EditAppears
<1>6. CASE \/ \E u \in Users : AddAnswered(u) \/ Reloaded(u) \/ Fetched(u)
           \/ AddToBasket \/ DeleteRow \/ BasketUpdated
           \/ CheckoutButtonPressed \/ PaymentDidCancel \/ PaymentDidComplete
           \/ ItemAppears \/ BasketAppears \/ HistoryLoaded \/ UNCHANGED vars
  <2>1. UNCHANGED <<auth, record, pushed>> /\ front' \in {front, "item", "basket"}
    BY <1>5, <1>6 DEF AddAnswered, UpdateBasket, CreateNewBasket, Reloaded, Fetched,
       AddToBasket, DeleteRow, BasketUpdated, CheckoutButtonPressed, PaymentDidCancel,
       PaymentDidComplete, EmptyTheBasket, ItemAppears, BasketAppears, HistoryLoaded, vars
  <2> QED
    BY <2>1 DEF OfferedHasRecord
<1> QED
  BY <1>2, <1>3, <1>4, <1>5, <1>6, Steps DEF HistoryAppears

(* While the purchase history can be opened or is on its stack, the user is  *)
(* only lost by Auth, and only until the next sign-in: nothing else makes    *)
(* loadItems trap on currentUser()!.                                         *)
THEOREM HistoryOpened == Spec => HistoryHasUser
<1> DEFINE Kept ==
      HistoryOffered' /\ ~SomeUser' =>
          GiveUp \/ (HistoryOffered /\ auth = Nobody /\ auth' = Nobody)
<1>1. Init => OfferedHasRecord
  BY DEF Init, OfferedHasRecord, HistoryOffered
<1>2. OfferedHasRecord /\ [Next]_vars => OfferedHasRecord'
  BY OfferedStep DEF OfferedHasRecord
<1>3. OfferedHasRecord /\ [Next]_vars => [Kept]_vars
  BY OfferedStep DEF SomeUser
<1> QED
  BY <1>1, <1>2, <1>3, PTL DEF Spec, HistoryHasUser

=============================================================================
