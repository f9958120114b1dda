------------------------------ MODULE Checkout ------------------------------
(***************************************************************************)
(* Paying for the basket, on one phone of one user.                        *)
(*                                                                         *)
(* BasketViewController keeps four copies of what the user wants to buy:   *)
(* the basket object it downloaded, the rows of the list (allItems), the   *)
(* items of the PayPal sheet, and purchasedItemIds, which every press of   *)
(* Check out appends to and only a completed payment clears.  A completed  *)
(* payment is then written to two documents, the user's purchase history   *)
(* and the basket, by two updates that can fail or be cut off separately.  *)
(*                                                                         *)
(* The update of the history is one of three of the user's document: Save  *)
(* on the profile and Done at the end of registration make the others, and *)
(* each of them stores, when it is through, the whole record as it was     *)
(* when the update was made, its old purchase history included.            *)
(*                                                                         *)
(* How several phones and screens change the basket is the subject of      *)
(* module Basket, how users come and go that of module Session: here       *)
(* another screen or phone just adds an item to the basket on the server,  *)
(* and signing in is one step.                                             *)
(***************************************************************************)
EXTENDS Naturals, Sequences

CONSTANTS
    Items,       \* item ids
    Unpayable,   \* items whose price PayPal does not process
    Nothing,     \* nil: no basket object, no record, no sheet
    MaxTaps,     \* bound: what the user does
    MaxFaults    \* bound: failures and restarts

Bag == [Items -> Nat]
Record == [onBoard : BOOLEAN, bought : Bag]

ASSUME UnpayableAssumption == Unpayable \subseteq Items
ASSUME NothingAssumption == Nothing \notin Bag /\ Nothing \notin Record
ASSUME BoundAssumption == MaxTaps \in Nat /\ MaxFaults \in Nat

VARIABLES
    doc,         \* the user's document on the server
    stored,      \* the array of the user's basket document on the server
    auth,        \* somebody is signed in
    local,       \* UserDefaults kCURRENTUSER
    pending,     \* Firestore's pending writes
    mainQ,       \* completions waiting for the main thread
    reloads,     \* basket downloads without an answer
    fetches,     \* item downloads without an answer
    basket,      \* BasketViewController.basket
    allItems,    \* BasketViewController.allItems
    enabled,     \* the Check out button is enabled
    purchasedItemIds,
    sheet,       \* the items of the PayPal sheet on the screen
    leaving,     \* the payment is complete, the sheet is being dismissed
    taps, faults,
    paid,        \* history: what PayPal was paid for
    abandoned,   \* history: what attempts without a payment left in purchasedItemIds
    unpaid,      \* history: what payments recorded of such attempts
    trapped,     \* history: which forced unwrapping ended the app
    troubled,    \* history: a purchase was recorded, or the profile updated,
                 \* before the record knew of the last purchase, or recording
                 \* one failed
    behind       \* history: since the user last saw all of the basket an item was
                 \* added elsewhere, could not be fetched, or a write failed

server == <<doc, stored>>
list == <<basket, allItems, enabled>>
payment == <<purchasedItemIds, sheet, leaving>>
waiting == <<reloads, fetches>>
bounds == <<taps, faults>>
accounts == <<paid, abandoned, unpaid>>
vars == <<server, auth, local, pending, mainQ, waiting, list, payment, bounds,
          accounts, trapped, troubled, behind>>

Updates == {"history", "edit", "finish", "basket"}
Write == [of : Updates, items : Bag, rec : Record \cup {Nothing}, live : BOOLEAN]
Completion == [of : Updates, rec : Record \cup {Nothing}, ok : BOOLEAN]

TypeOK ==
    /\ doc \in Record
    /\ stored \in Bag
    /\ auth \in BOOLEAN
    /\ local \in Record \cup {Nothing}
    /\ pending \in Seq(Write)
    /\ mainQ \in Seq(Completion)
    /\ reloads \in Nat
    /\ fetches \in Seq(Bag)
    /\ basket \in Bag \cup {Nothing}
    /\ allItems \in Bag
    /\ enabled \in BOOLEAN
    /\ purchasedItemIds \in Bag
    /\ sheet \in Bag \cup {Nothing}
    /\ leaving \in BOOLEAN
    /\ taps \in Nat /\ faults \in Nat
    /\ paid \in Bag /\ abandoned \in Bag /\ unpaid \in Bag
    /\ trapped \in {"no", "checkout", "emptying", "deleting", "saving"}
    /\ troubled \in BOOLEAN /\ behind \in BOOLEAN

-----------------------------------------------------------------------------
Empty == [x \in Items |-> 0]
Plus(b, c) == [x \in Items |-> b[x] + c[x]]
With(b, x) == [b EXCEPT ![x] = @ + 1]

\* Mutant: the occurrence is taken for granted.
WithoutLooking(b, x) == [b EXCEPT ![x] = @ - 1]

\* removeItemFromBasket: the first occurrence, if there is one.
Without(b, x) == IF b[x] = 0 THEN b ELSE [b EXCEPT ![x] = @ - 1]

\* MUser.currentUser()
CurrentUser == IF auth THEN local ELSE Nothing

\* A document as this phone sees it: the last pending write shows through.
Seen(of, base) ==
    LET W == {i \in DOMAIN pending : pending[i].of = of}
    IN  IF W = {} THEN base
        ELSE pending[CHOOSE i \in W : \A j \in W : j <= i].items

\* What can have come of array b when one of its items cannot be fetched.
Parts(b) ==
    {c \in [Items -> UNION {0..b[x] : x \in Items}] :
        c # b /\ \A x \in Items : c[x] <= b[x]}

\* A write of the purchase history waits for the server or the main thread.
Recording ==
    \/ \E i \in DOMAIN pending : pending[i].of = "history"
    \/ \E i \in DOMAIN mainQ : mainQ[i].of = "history"

Tap == taps < MaxTaps /\ taps' = taps + 1
Fault == faults < MaxFaults /\ faults' = faults + 1

\* The user can touch the list: no sheet covers it.
Free == sheet = Nothing

\* The user sees all of the basket, and no older list is on its way.
InStep == Free /\ fetches = <<>> /\ {allItems, basket} = {Seen("basket", stored)}

\* Mutant: no rows are enough.
ShowTotalsAlways(rows) == enabled' = TRUE

\* updateTotalLabels with checkoutButtonStatusUpdate.
ShowTotals(rows) == enabled' = (rows # Empty)

\* getBasketItems for basket object b.
GetBasketItems(b) ==
    \/ b = Nothing /\ UNCHANGED <<fetches, allItems, enabled>>
    \/ b = Empty /\ allItems' = Empty /\ ShowTotals(Empty) /\ UNCHANGED fetches
    \/ /\ b # Nothing /\ b # Empty
       /\ fetches' = Append(fetches, b)
       /\ UNCHANGED <<allItems, enabled>>

Init ==
    /\ \E o \in BOOLEAN : doc = [onBoard |-> o, bought |-> Empty]
    /\ stored \in [Items -> {0, 1}]
    /\ auth = TRUE /\ local = doc
    /\ pending = <<>> /\ mainQ = <<>>
    /\ reloads = 0 /\ fetches = <<>>
    /\ basket = Nothing /\ allItems = Empty /\ enabled = FALSE
    /\ purchasedItemIds = Empty /\ sheet = Nothing /\ leaving = FALSE
    /\ taps = 0 /\ faults = 0
    /\ paid = Empty /\ abandoned = Empty /\ unpaid = Empty
    /\ trapped = "no" /\ troubled = FALSE /\ behind = FALSE

-----------------------------------------------------------------------------
(* The end of the app, and of what it keeps in memory.                      *)

Restarted ==
    /\ pending' = [i \in DOMAIN pending |-> [pending[i] EXCEPT !.live = FALSE]]
    /\ mainQ' = <<>>
    /\ reloads' = 0 /\ fetches' = <<>>
    /\ basket' = Nothing /\ allItems' = Empty /\ enabled' = FALSE
    /\ purchasedItemIds' = Empty /\ sheet' = Nothing /\ leaving' = FALSE
    /\ abandoned' = Empty
    /\ UNCHANGED <<server, auth, local, paid, unpaid, behind>>

\* A restart loses the completion that would refresh the record, and a
\* payment that has not been recorded yet.
Crash ==
    /\ Fault /\ Restarted
    /\ troubled' = (troubled \/ Recording \/ leaving)
    /\ UNCHANGED <<taps, trapped>>

\* A forced unwrapping of nil.
Trap(where) ==
    /\ Restarted
    /\ trapped' = where
    /\ troubled' = (troubled \/ Recording)
    /\ UNCHANGED faults

(* What the user does.                                                      *)

\* viewDidAppear: without a user the old rows stay, and the button with them.
Appear ==
    /\ Free /\ Tap
    /\ IF CurrentUser # Nothing
       THEN reloads' = reloads + 1 /\ UNCHANGED enabled
       ELSE ShowTotals(allItems) /\ UNCHANGED reloads
    /\ UNCHANGED <<server, auth, local, pending, mainQ, fetches, basket, allItems, payment,
                   faults, accounts, trapped, troubled, behind>>

\* Mutant: the sheet is made of the basket object instead of the rows.
PayForBasket ==
    /\ purchasedItemIds' = Plus(purchasedItemIds, allItems)
    /\ sheet' = basket
    /\ UNCHANGED abandoned

\* payButtonPressed: the rows are appended to purchasedItemIds before it is
\* known whether there will be a payment.
PayButtonPressed ==
    LET processable == \A x \in Unpayable : allItems[x] = 0
    IN  /\ purchasedItemIds' = Plus(purchasedItemIds, allItems)
        /\ IF processable
           THEN sheet' = allItems /\ UNCHANGED abandoned
           ELSE abandoned' = Plus(abandoned, allItems) /\ UNCHANGED sheet

\* checkoutButtonPressed
CheckoutButtonPressed ==
    /\ Free /\ enabled /\ Tap
    /\ IF CurrentUser = Nothing THEN Trap("checkout")
       ELSE /\ IF local.onBoard THEN PayButtonPressed
               ELSE UNCHANGED <<purchasedItemIds, sheet, abandoned>>
            /\ UNCHANGED <<server, auth, local, pending, mainQ, waiting, list, leaving,
                           faults, paid, unpaid, trapped, troubled, behind>>

\* payPalPaymentDidCancel
PaymentDidCancel ==
    /\ sheet # Nothing /\ ~leaving
    /\ sheet' = Nothing
    /\ abandoned' = Plus(abandoned, sheet)
    /\ UNCHANGED <<server, auth, local, pending, mainQ, waiting, list, purchasedItemIds,
                   leaving, bounds, paid, unpaid, trapped, troubled, behind>>

\* PayPal completes the payment and didComplete starts to dismiss the sheet.
PaymentDidComplete ==
    /\ sheet # Nothing /\ ~leaving
    /\ leaving' = TRUE
    /\ paid' = Plus(paid, sheet)
    /\ UNCHANGED <<server, auth, local, pending, mainQ, waiting, list, purchasedItemIds,
                   sheet, bounds, abandoned, unpaid, trapped, troubled, behind>>

\* Mutant: the history is written back as it was.
HistoryRewritten ==
    [of |-> "history", items |-> local.bought, rec |-> local, live |-> TRUE]

\* addITemsToPurchaseHistory: the new history is the record's, which may be
\* old, with purchasedItemIds; nothing is written without a user.
HistoryWrite ==
    LET bought == Plus(local.bought, purchasedItemIds)
    IN  [of |-> "history", items |-> bought,
         rec |-> [local EXCEPT !.bought = bought], live |-> TRUE]
BasketWrite(b) == [of |-> "basket", items |-> b, rec |-> Nothing, live |-> TRUE]

\* The completion of the dismissal: the history is written, then
\* emptyTheBasket unwraps the basket object and empties it.
SheetDismissed ==
    LET recorded == IF CurrentUser = Nothing THEN <<>> ELSE <<HistoryWrite>>
    IN  /\ leaving
        /\ UNCHANGED <<server, auth, local, taps, paid, behind>>
        /\ IF recorded = <<>> THEN UNCHANGED unpaid ELSE unpaid' = Plus(unpaid, abandoned)
        /\ troubled' = (troubled \/ recorded = <<>> \/ Recording \/ basket = Nothing)
        /\ purchasedItemIds' = Empty /\ allItems' = Empty
        /\ sheet' = Nothing /\ leaving' = FALSE /\ abandoned' = Empty
        /\ UNCHANGED faults
        /\ IF basket = Nothing
           THEN /\ trapped' = "emptying"
                /\ pending' = [i \in DOMAIN (pending \o recorded) |->
                                 [(pending \o recorded)[i] EXCEPT !.live = FALSE]]
                /\ mainQ' = <<>> /\ reloads' = 0 /\ fetches' = <<>>
                /\ basket' = Nothing /\ enabled' = FALSE
           ELSE /\ pending' = pending \o recorded \o <<BasketWrite(Empty)>>
                /\ basket' = Empty
                /\ UNCHANGED <<mainQ, waiting, enabled, trapped>>

\* Mutant: the item stays in the basket object, and in the array written.
DeleteRowOnly(x) ==
    /\ Free /\ allItems[x] > 0 /\ Tap
    /\ IF basket = Nothing THEN Trap("deleting")
       ELSE /\ allItems' = Without(allItems, x)
            /\ pending' = Append(pending, BasketWrite(basket))
            /\ UNCHANGED <<server, auth, local, mainQ, waiting, basket, enabled, payment,
                           faults, accounts, trapped, troubled, behind>>

\* A row is swiped away.
DeleteRow(x) ==
    /\ Free /\ allItems[x] > 0 /\ Tap
    /\ IF basket = Nothing THEN Trap("deleting")
       ELSE /\ allItems' = Without(allItems, x)
            /\ basket' = Without(basket, x)
            /\ pending' = Append(pending, BasketWrite(Without(basket, x)))
            /\ UNCHANGED <<server, auth, local, mainQ, waiting, enabled, payment, faults,
                           accounts, trapped, troubled, behind>>

\* Another screen, or another phone, adds an item.
AddElsewhere(x) ==
    /\ Tap
    /\ stored' = With(stored, x)
    /\ behind' = TRUE
    /\ UNCHANGED <<doc, auth, local, pending, mainQ, waiting, list, payment, faults,
                   accounts, trapped, troubled>>

\* Mutant: the record is built from the form, with an empty history.
ProfileBlank(of) ==
    [of |-> of, items |-> Empty, live |-> TRUE,
     rec |-> [onBoard |-> local.onBoard \/ of = "finish", bought |-> Empty]]

\* updateCurrentUserInFirestore for the profile: the record is copied with the
\* new values; the history is not among them and is not written.
ProfileWrite(of) ==
    [of |-> of, items |-> Empty, live |-> TRUE,
     rec |-> [local EXCEPT !.onBoard = @ \/ of = "finish"]]

\* saveBarButtonPressed ("edit") and finishOnbarding ("finish", whose screen is
\* opened while the record is not on board): nothing without a record, and
\* currentId() unwraps the user.
UpdateProfile(of) ==
    /\ Free /\ Tap /\ local # Nothing
    /\ of = "finish" => ~local.onBoard
    /\ IF ~auth THEN Trap("saving")
       ELSE /\ pending' = Append(pending, ProfileWrite(of))
            /\ troubled' = (troubled \/ Recording)
            /\ UNCHANGED <<server, auth, local, mainQ, waiting, list, payment, faults, accounts,
                           trapped, behind>>

LogOut ==
    /\ Free /\ auth /\ Tap
    /\ auth' = FALSE /\ local' = Nothing
    /\ UNCHANGED <<server, pending, mainQ, waiting, list, payment, faults, accounts,
                   trapped, troubled, behind>>

\* The user signs in again and is downloaded.
LogIn ==
    /\ Free /\ ~auth /\ Tap
    /\ auth' = TRUE
    /\ local' = [onBoard |-> doc.onBoard \/ \E i \in DOMAIN pending : pending[i].of = "finish",
                 bought |-> Seen("history", doc.bought)]
    /\ UNCHANGED <<server, pending, mainQ, waiting, list, payment, faults, accounts,
                   trapped, troubled, behind>>

-----------------------------------------------------------------------------
(* What Auth and Firestore answer.                                          *)

\* Auth gives the account up: the token is no longer valid.
Revoked ==
    /\ auth /\ Fault
    /\ auth' = FALSE
    /\ UNCHANGED <<server, local, pending, mainQ, waiting, list, payment, taps, accounts,
                   trapped, troubled, behind>>

\* loadBasketFromFirestore is answered, or fails and leaves no basket object.
Reloaded ==
    /\ reloads > 0
    /\ reloads' = reloads - 1
    /\ \/ basket' = Seen("basket", stored) /\ UNCHANGED faults
       \/ basket' = Nothing /\ Fault
    /\ GetBasketItems(basket')
    /\ UNCHANGED <<server, auth, local, pending, mainQ, payment, taps, accounts, trapped,
                   troubled, behind>>

\* downloadItems answers one of its calls, with every item; or, when one
\* cannot be fetched, with what has come so far and never with all of them.
Fetched(i, rows) ==
    /\ i \in DOMAIN fetches
    /\ allItems' = rows
    /\ ShowTotals(rows)
    /\ fetches' = SubSeq(fetches, 1, i - 1) \o SubSeq(fetches, i + 1, Len(fetches))
    /\ UNCHANGED <<server, auth, local, pending, mainQ, reloads, basket, payment, taps,
                   accounts, trapped, troubled>>
ItemsFetched(i) ==
    /\ Fetched(i, fetches[i])
    /\ behind' = (behind /\ ~InStep')
    /\ UNCHANGED faults
ItemsMissing(i) ==
    /\ Fault
    /\ \E rows \in Parts(fetches[i]) : Fetched(i, rows)
    /\ behind' = TRUE

\* What a write changes on the server: an edit of the profile changes names only.
Applied(w) ==
    \/ w.of = "history" /\ doc' = [doc EXCEPT !.bought = w.items] /\ UNCHANGED stored
    \/ w.of = "finish" /\ doc' = [doc EXCEPT !.onBoard = TRUE] /\ UNCHANGED stored
    \/ w.of = "edit" /\ UNCHANGED server
    \/ w.of = "basket" /\ stored' = w.items /\ UNCHANGED doc

\* The first pending write of the signed-in account is applied or refused.
Commit ==
    LET w == Head(pending)
        Told(ok) == IF w.live THEN Append(mainQ, [of |-> w.of, rec |-> w.rec, ok |-> ok])
                    ELSE mainQ
    IN  /\ auth /\ pending # <<>>
        /\ pending' = Tail(pending)
        /\ \/ /\ mainQ' = Told(TRUE)
              /\ Applied(w)
              /\ UNCHANGED <<faults, troubled, behind>>
           \/ /\ Fault
              /\ mainQ' = Told(FALSE)
              /\ troubled' = (troubled \/ w.of = "history")
              /\ behind' = (behind \/ w.of = "basket")
              /\ UNCHANGED server
        /\ UNCHANGED <<auth, local, waiting, list, payment, taps, accounts, trapped>>

\* The completion of updateCurrentUserInFirestore saves the record that was
\* copied when the update was made; the one of updateBasketinFirestore loads
\* the items again.
UserUpdated(c) ==
    /\ c.of # "basket"
    /\ local' = IF c.ok THEN c.rec ELSE local
    /\ UNCHANGED <<fetches, allItems, enabled>>
BasketUpdated(c) ==
    /\ c.of = "basket"
    /\ GetBasketItems(basket)
    /\ UNCHANGED local
RunCompletion ==
    /\ mainQ # <<>>
    /\ mainQ' = Tail(mainQ)
    /\ UserUpdated(Head(mainQ)) \/ BasketUpdated(Head(mainQ))
    /\ UNCHANGED <<server, auth, pending, reloads, basket, payment, bounds, accounts,
                   trapped, troubled, behind>>

Next ==
    \/ Appear \/ CheckoutButtonPressed \/ PaymentDidCancel \/ PaymentDidComplete
    \/ SheetDismissed \/ LogOut \/ LogIn \/ Revoked \/ Reloaded \/ Commit
    \/ RunCompletion \/ Crash
    \/ \E of \in {"edit", "finish"} : UpdateProfile(of)
    \/ \E x \in Items : DeleteRow(x) \/ AddElsewhere(x)
    \/ \E i \in DOMAIN fetches : ItemsFetched(i) \/ ItemsMissing(i)

Spec == Init /\ [][Next]_vars

\* The main thread finishes a dismissal and runs completions, Firestore keeps
\* sending writes while somebody is signed in.
Fairness == WF_vars(SheetDismissed) /\ WF_vars(Commit) /\ WF_vars(RunCompletion)
FairSpec == Spec /\ Fairness

-----------------------------------------------------------------------------
(* Properties.                                                              *)

OnSheet(x) == IF sheet = Nothing THEN 0 ELSE sheet[x]

\* purchasedItemIds is what the open sheet will charge for and what earlier
\* attempts left behind, nothing else: whatever happens to the list while the
\* sheet is up, a payment records all it charged for.
AttemptsAccounted ==
    \A x \in Items : purchasedItemIds[x] = abandoned[x] + OnSheet(x)

\* "The user canceled without making a payment": the purchase history holds
\* nothing that was not paid for.
HistoryIsPaid == \A x \in Items : doc.bought[x] <= paid[x]

\* The history never holds more than what was paid for and what the attempts
\* before each payment left behind, whatever fails, overlaps or starts again;
\* and between purchases it holds all of that, unless a purchase was recorded
\* or the profile updated while the last one was still being recorded, or
\* recording one failed or was cut off.
HistoryAccounted ==
    /\ \A x \in Items : doc.bought[x] <= paid[x] + unpaid[x]
    /\ ~troubled /\ ~Recording /\ ~leaving =>
          \A x \in Items : doc.bought[x] = paid[x] + unpaid[x]

\* The Check out button can be pressed with no rows, to pay for shipping
\* alone, only while a change of the basket or its items is under way, or
\* after the basket object was lost.
EmptyListIsDisabled ==
    enabled /\ allItems = Empty =>
        \/ \E i \in DOMAIN pending : pending[i].of = "basket" /\ pending[i].live
        \/ \E i \in DOMAIN mainQ : mainQ[i].of = "basket"
        \/ fetches # <<>>
        \/ basket = Nothing

\* emptyTheBasket drops nothing that was not paid for: unless it was added on
\* another screen or phone, could not be fetched, or is back because a write
\* failed, since the user last saw the whole basket.
EmptiesWhatWasPaid ==
    leaving /\ basket # Nothing /\ ~behind =>
        \A x \in Items : Seen("basket", stored)[x] <= sheet[x]

\* The code asserts with basket! that there is a basket object when a payment
\* has been made.
PaymentHasBasket == trapped # "emptying"

\* A completed payment gets into the history on the server, as long as the
\* user stays signed in: unless a purchase was recorded or the profile updated
\* while another purchase was still being recorded, or recording one failed or
\* was cut off.
PaymentIsRecorded ==
    leaving ~> (troubled \/ ~auth \/ (\A x \in Items : doc.bought[x] >= paid[x]))

=============================================================================
