# A specification of Market

TLA+ models, TLC checks and TLAPS proofs for the Market iOS app
(`src/Market/Market`): an e-shop client written in Swift over Firebase Auth,
Cloud Firestore, Firebase Storage and the PayPal SDK. The app is single-user
and its code runs on the main thread, but almost every operation is a call to
a remote service whose answer arrives later as a callback, so what the app does
is decided by the order in which presses, answers, logouts and restarts come.

## 1. Inventory

| Component | State | Operations | Hard part |
|---|---|---|---|
| **Session and user record** (`Model/MUser.swift`, `ProfileTableViewController`, `EditProfileViewController`, `WelcomeViewController`, `FinishRegistrationViewController`) | Auth's current user; the record in UserDefaults (`kCURRENTUSER`); the document of collection `User`; the profile's buttons | login, register, resend the mail, logout, download or create the document, update it (edit, finish registration) | two copies of "who is signed in" changed by different callbacks |
| **Basket** (`Model/Basket.swift`, `ItemViewController`, `BasketViewController`) | collection `Basket`; `basket` and `allItems` of the list | add an item, reload, delete a row, fetch the items | read-modify-write of the whole array without a transaction |
| **Checkout and purchase history** (`BasketViewController`, `updateCurrentUserInFirestore`) | `purchasedItemIds`, the PayPal sheet, the Check out button, `purchasedItemIds` of the user document | Check out, cancel, complete, record, empty | four copies of what is bought; two separate updates after a payment; updates of the profile save the whole record, an old history included |
| **Item download** (`Model/Item.swift` `downloadItems`) | a count and an array per call | one read per item | partial and repeated completions |
| **Image upload, new items** (`Helpers/Downloader.swift`, `AddItemViewController`) | a count and an array per call | one upload and one link per image | completion only when all succeed; Done pressed twice, or before the pictures are there |
| **Image download, cells** (`Helpers/Downloader.swift`, `ItemTableViewCell`) | a count and an array shared by queues | one download per link | a data race; completions on several threads; reused cells |
| **Catalog** (`Model/Category.swift`, `CategoryCollectionViewController`, `ItemsTableViewController`) | the lists on the screen | load | overlapping loads |
| **Purchase history screen** (`PurchasedHistoryTableViewController`) | the list | load, again whenever its tab is selected | forced unwrapping of the user; it stays on its tab while users come and go |
| Search, application shell, helpers | - | - | no behaviour of their own |

Interactions. `MUser.currentUser()` and `currentId()` are read by every other component.
Checkout writes the purchase history through the session's
`updateCurrentUserInFirestore`, as the edit screen and the end of the registration write
the profile, and the basket through `updateBasketinFirestore`. The list of the basket is
filled by `downloadItems`. Cells and the item's screen fill their pictures by
`downloadImages`. Everything meets on the main queue: completions of Firestore, Storage,
Auth and PayPal run there one after the other, in the order they were posted.

What makes each component correct:

- *Session*: `currentUser()` is the user who signed in; an unverified user is
  never taken in; the record is what the server has; completing a registration
  is not undone; a login ends with a record.
- *Basket*: it holds nothing that was not added, everything that was added and
  not deleted; there is one of it; the list shows it.
- *Checkout*: what is recorded is what was paid, each payment is recorded, the
  button is enabled only over something to buy, the forced unwrappings hold.
- *Item download*, *upload*: one answer per call, complete or not at all; each
  press of Done makes one item with all its pictures.
- *Image download*: each picture once, under the item it belongs to.
- *All of them together*: what one user has left unfinished does not get into
  the basket, the payment or the history of the next one on the same phone.

The full list of hazards, each at its line, is in `PROJECT.json`.

## 2. The modules

| Module | Models | Runs |
|---|---|---|
| `Session` | who is signed in and whose record is kept, on any number of phones | `MCSession` with four configurations |
| `SessionProofs` | theorems about `Session` | - |
| `Accounts` | abstract: what the other screens of a phone can count on about its user | refined by `Session`, used by `Market` |
| `Basket` | one user's basket on any number of phones | `MCBasket` |
| `BasketProofs` | theorems about `Basket` | - |
| `Checkout` | paying for the basket and recording it, on one phone | `MCCheckout`, three configurations |
| `CheckoutProofs` | theorems about `Checkout` | - |
| `DownloadItems` | one call of `downloadItems`, answer by answer | `MCDownloadItems` |
| `Delivery` | abstract: what a caller of `downloadItems` can count on | refined by `DownloadItems` |
| `DownloadItemsProofs` | theorems about `DownloadItems`, with its refinement of `Delivery` | - |
| `Pictures` | `downloadImages`, thread by thread, for the screen of an item and for a reused cell | `MCPictures` |
| `PicturesProofs` | theorems about `Pictures` | - |
| `Market` | session, basket, checkout and purchase history of any number of users of one phone | `MCMarket` |
| `MarketProofs` | theorems about `Market` | - |
| `AddItem` | the Add Item form: picking, uploading and saving | `MCAddItem` |
| `Publish` | abstract: an item with all its pictures, once, or none | refined by `AddItem` |
| `AddItemProofs` | theorems about `AddItem`, with its refinement of `Publish` | - |
| `SequenceLemmas` | facts about queues that the proof modules share | - |

Each module follows the code in the same way.

- An action is a whole handler: a press up to its first asynchronous call, or a
  callback from its first line to its last. A forced unwrapping of nil ends the
  app: the state becomes that of a restart.
- `mainQ` is the main queue. A service's answer puts a callback there
  (`AuthAnswers`, `ReadAnswered`, `QueryAnswered`, `Commit`), `RunCallback`
  runs the first one. Reads that have no answer yet are counted, so answers
  may overtake each other. In `DownloadItems` and `AddItem` an answer and
  its callback are one step: a callback that waits looks like a later answer.
- Firestore's client is modelled by what the app observes. A write joins a
  queue that survives restarts (without its completion block) and is shown at
  once by later reads (`Overlay`, `Seen`). `Commit` applies the first write, or
  refuses it; a read is answered by the server, from the cache, or not at all.
- A restart keeps what is on disk (Auth's user, UserDefaults, cache, pending
  writes) and loses everything else.

**Session.** `auth` is `Auth.auth().currentUser`, `local` the stored record,
`doc` the collection, `account` what Auth knows (unverified accounts may or may
not have been mailed). `RunLogin`, `RunGotUser`, `RunUpdated` are the
completions of `loginUserWith`, `downloadUserFromFirestore` and
`updateCurrentUserInFirestore`. Auth changes its user before its completion
runs, and tells Firestore by a notification that is itself a callback
(`Credential`, `RunCredential`): in between, a write is queued for the account
before (`writeQ` has a queue per account, only that of `fsUser` is sent). A
record is abstracted to its owner and `onBoard`, the only field other code
branches on. `shown` keeps what the profile showed when it last appeared, since
its button acts on that.

**Accounts** is what `MUser.currentUser()` and `currentId()` promise to the
rest of the app, phone by phone: who is signed in, the owner of the stored
record, and the *residue*, the users whose record may still come. A record
becomes that of anybody in the residue at any time; only a sign-in adds to it.
Session implements it (`ImplementsAccounts`), with `Residue(d)` as the set of
owners in UserDefaults, downloads, callbacks and pending updates.

**Basket.** `server`, `cache` and `pending` are Firestore's, `basket` and
`allItems` the view controller's. Arrays are bags: the order of rows is left
out. `RunAdd` is the completion in `addtoBasketButtonPressed`, `DeleteRow` the
commit of a swipe, `Fetched` the completion of `downloadItems`. `UUID()` is any
id not used before; a query returns documents by id, so a basket created later
may come first. `MaxTaps` and `MaxFaults` count for all phones together.

**Checkout.** Module Basket's concurrency is replaced by one action (`AddElsewhere`),
module Session's by `LogIn`, `LogOut` and `Revoked`; the rest of `BasketViewController`
is modelled step by step. Three updates of the user's document go through
`updateCurrentUserInFirestore`: the history of a payment (`HistoryWrite`), Save on the
edit screen and Done at the end of the registration (`UpdateProfile`, `ProfileWrite`).
Each copies the record when it is made, and `UserUpdated`, its completion, stores that
copy: an edit that was made before a history write was through puts the old history
back, and the next payment writes it to the server. `Unpayable` stands for prices PayPal
does not process. `behind` tells when what the user last saw and what the basket holds
may differ through no fault of this phone; `InStep` says when they agree again.

**DownloadItems.** `There`, `NotThere` and `NoSnapshot` are the three ways
through the completion of `getDocument`. Items are named by their position in
`withIds`, so an id that occurs twice is two positions. `answers` keeps every
list that completion was called with. Its callers in Basket and Checkout take
the answer as one step: complete (`ItemsFetched`), or cut short
(`ItemsMissing`).

**AddItem.** One opening of the form. `Camera`, `Select`, `Resolved`, `Done` are
the handlers of `AddItemViewController`; `PutDone`, `PutFailed`, `Linked` and
`NotLinked` are the completions of `saveImageInFireBase`, for each picture of
each press. `Done` copies `itemImages`, as Swift copies an array. `Held` is
whether anything keeps the form in memory: the gallery's delegate is weak, so
an upload that ends while the gallery is open, and pops the form, leaves a
gallery nobody answers. `Image.resolve` drops pictures it cannot get, hence
`Resolved` takes the first n.

**Pictures.** Each link has a thread; `downloadCounter += 1` and
`imageArray.append` are a read and a write each (`ReadCounter`, `WriteCounter`,
`ReadArray`, `WriteArray`), and so are the two halves of the comparison
(`CompareCounter`, `CompareCount`). `raced` is set when one thread accesses
what another one is about to write; from then on a write may overwrite
another, and an append may find the array unusable (`Corrupted`). The
completion of a failed download runs on the thread it failed on, the others
are posted to the main queue. Both take two steps: the array is read when the
completion is called (`NotLoaded`, `RunMain`), and `itemImages` is assigned what was read
(`NotLoadedShown`, `MainShows`), with the other threads in between. `Passing`
is the set of completions that are between the two; when one of them assigns, the
others are `overtaken`. `GenerateCell` is
`generateCell` of a cell that was made for another item before; only its last
call counts, but its calls are answered in any order.

**Market** composes the components. It takes the session from Accounts (`A == INSTANCE
Accounts`) and gives each screen the user its data belongs to: `basket`, `allItems`,
`customer` (the open sheet) and `itemArray` (the purchase history) are users, `adding`
and `loading` the users for whom a query was made, and `baskets[u]` says whose items
user u's baskets hold. An answer goes to whom it was asked for, or, where the code asks
`currentId()` again (`createNewBasket`), to the user signed in by then. The app is a tab
bar with a navigation stack for each tab (`Main.storyboard`): `front` is the tab in
front, and `pushed` the screen that lies on the profile in its tab, the edit screen or
the purchase history, in front or not. Selecting the tab again shows what lies there
(`Selects`), and makes the history load again (`HistoryAppears`), without the profile's
button and with another forced unwrapping; only going back, or logging out on the edit
screen, uncovers the profile (`ProfileAppears`, `LogOut`). `itemArray` is a set: the
user whose purchases are shown and those whose purchases have been asked for, until an
answer settles it (`HistoryLoaded`). The multiplicities of items, overlapping writes,
the purchase history and the state of the Check out button are left to Basket and
Checkout.

### History variables

They record what the code forgets, and let a property name the only circumstances under
which it may fail. `crossed` (Session): the last sign-in found another user's record,
download, callback or update on the phone. `stale` (Session): an update overlapped other
work on the record, was made for another user, or its outcome was lost. `added`,
`wanted`, `disturbed` (Basket), `paid`, `abandoned`, `unpaid`, `troubled`, `trapped`,
`behind` (Checkout), `answers` (DownloadItems), `lastPick` and `late` (AddItem),
`failed`, `raced`, `overtaken` and `answered` (Pictures), `caught` and `inherited`
(Market) are described at their declarations. `troubled` deserves a word, since the code
does lose payments: it is set by a second purchase, or an update of the profile, that
overlaps the recording of a purchase, by a recording that fails, is cut off by a restart
or finds nobody signed in, and by nothing else. Such payments are excused, not caught;
what holds through all of it is the upper bound of `HistoryAccounted`. Apart from
`raced`, which decides whether a race may end the app, no guard of an action that models
code reads them.

## 3. What is checked

| Run | Instance | Shows |
|---|---|---|
| `SessionOnePhone` | 1 phone, 2 users, 3 taps, 2 faults | `TypeOK`; `RecordOwnerVerified`; `RecordIsOfSignedInUser`: `currentUser()` is right unless a sign-in crossed users; `RecordMatchesDocument`: at rest the record is the server's, unless stale; `OnboardingKeptUnlessStale`: a registration is undone only when stale (both also when users were crossed); `ImplementsAccounts`: the refinement of `Accounts` |
| `SessionLogin` | 1 phone, 2 users, 3 taps, no faults, fair | `LoginLoadsRecord`: the record arrives although the login view closed before |
| `SessionCurrentUser` | 1 phone, 2 users | *violated*: "Return current user" |
| `SessionNewUser` | 2 phones, 1 user | *violated*: creating the missing document undoes a registration |
| `Basket` | 2 phones, 2 items, 2 baskets, 4 taps, 1 fault | `TypeOK`; `NoPhantomItems`: no copy of a basket ever holds more than was added to it; `OneBasket`: on any phones, a user who waits for answers has one; `NothingLost`, `ListShowsBasket`: on one phone such a user's basket and list are what was added and not deleted |
| `Checkout` | 2 items (one unpayable), 5 taps, 1 fault, fair | `TypeOK`, `AttemptsAccounted`; `HistoryAccounted`: the history never has more than was paid for and left by attempts, and all of it between purchases unless `troubled`; `EmptyListIsDisabled`; `EmptiesWhatWasPaid`: emptying drops nothing unpaid, unless something changed behind the user's back; `PaymentIsRecorded`: a payment reaches the server, unless troubled or signed out |
| `CheckoutCancelled` | 1 item | *violated*: a cancelled attempt is recorded by the next payment |
| `CheckoutNoBasket` | 1 item | *violated*: `basket!` in `emptyTheBasket` |
| `DownloadItems` | up to 4 items, fair | `TypeOK`; `ReadsAccounted`: no read is lost, the full list comes alone; `Delivers`: the refinement of `Delivery`, with its liveness |
| `AddItem` | 2 presses of Done, 2 picks, 2 pictures each, fair | `TypeOK`; `UploadsAccounted`: an item is saved exactly when all its pictures are linked; `PicksInOrder`: an older selection's pictures only come back if it was still resolving; `GalleryOrphaned`: only a saved item leaves an unanswered gallery; `Publishes`: the refinement of `Publish`; `SavedOrFailed`: without failures an item asked for is saved |
| `Pictures` | up to 3 links on a screen, or 3 items (2 with a picture) and 3 calls of a cell, fair | `TypeOK`; `CountsAreRight`: the counter and the array are right while no two threads meet; `AllPicturesShown`, `PicturesArrive`: then the screen ends with all pictures, if none fails; `PicturesStay`: none goes away or changes places, unless by a completion that had read the array before another one changed the screen; `AnsweredOnce`, `CellShowsItem`: a cell ends with the picture of the item it names, unless an older one comes last |
| `Market` | 2 users, one of whom may sign in once more, 2 requests at a time, symmetric | `TypeOK`; `OnlyOwnItems`: a basket holds only what its owner added, or what was being added when the owner signed in; `ScreensAreOfUser`: screens that were blank at the sign-in show nobody else's data; `HistoryHasUser`: while the purchase history can be opened, or lies on its tab, its user is lost only by Auth giving the user up, until somebody signs in; `BasketChangedByOwner`: a basket changes under another user only by a list left behind or an earlier press |

The four violated properties are disagreements between the code and a comment,
an assertion or the documentation of a library it uses; `PROJECT.json` quotes
them under `findings`. What each needs:

1. *Another user's record* (`MUser.swift:78`). Log in as u1; before the
   document arrives log out and register or log in as u2; the answer of u1's
   download is stored.
2. *A registration undone* (`MUser.swift:174`). Both phones log in before there
   is a document and find none; the first creates and completes it; the second
   one's `setData` comes last.
3. *Unpaid history* (`BasketViewController.swift:177`). Check out, cancel,
   delete the row or not, check out and pay.
4. *No basket after a payment* (`BasketViewController.swift:110`). Check out
   while a reload is on its way; it fails and sets `basket` to nil; pay.

### Bounds

`MaxTaps` bounds what the user starts on one phone, `MaxFaults` the failures and
restarts of one phone; opening and closing screens, answers and callbacks are not
bounded. Three taps in Session are two logins and an update, or two updates after a
login: the interesting cases are pairs of overlapping operations, and `MaxFaults = 2`
lets a failure meet a restart. Four taps in Basket, on either phone, are two adds, a
reload and a deletion. Five taps in Checkout are a load of the basket, a purchase, an
update of the profile while it is recorded and another purchase, or two loads with a
purchase after each and a change of the basket. In DownloadItems four reads are enough
for several present and several missing items in any order. In AddItem two presses, two
picks and two pictures let any two of them overlap. In Pictures three threads let one
end, or fail, before, between and after two that meet, and three calls let a cell go
from one item to another and back. In Market one sign-in is enough for one user to
follow another, since the first is signed in to start with, and two requests
(`MaxRequests` bounds those that are under way when the user starts another) let an
older answer follow a newer one, or meet another screen's; the theorems of
`MarketProofs` are about any number of users and sign-ins. Each violated property needs
fewer taps than its bound. Larger instances were also run to completion without an
error: Session with four taps and one fault, Basket with five taps on one phone,
Checkout with six taps, DownloadItems with six items, AddItem with three pictures to a
pick. `Nat` in the type invariants is never enumerated. Deadlock is not checked: once
the taps are used up, and everything is answered, nothing need happen.

### Fairness

`Session.Fairness` is weak fairness of a phone's main thread (`RunCallback`),
of Firestore's sending (`Commit`) and of the answer to each read
(`ReadAnswered`): the main run loop drains its queue, and Firestore retries
until it has an answer. The user is under no obligation, and neither is Auth.
`Checkout.Fairness` is weak fairness of the dismissal of the sheet, of sending
and of the completions. `Commit` is enabled there only while somebody is signed
in; therefore `PaymentIsRecorded` allows for a logout.

`DownloadItems.FairSpec` and `AddItem.FairSpec` are weak fairness of the answer
to each call: Firestore answers a read from the server, the cache or with an
error, Storage gives up with an error when its retry time is over.
`Pictures.Fairness` is weak fairness of each thread and of the main thread:
queues run, and `NSData(contentsOf:)` returns data or nil. Market states no
fairness: all of its properties are about what must not happen.

### Mutants

Next to the definition it changes, a mutant (`RunLoginUnverified`,
`AppendTwice`, ...) is what a plausible slip in that code would make of it.
Each property of each passing run has one, under which the run fails.

## 4. What is proved

Every invariant of a passing run, and every action property and refinement there that
needs no fairness, is also a theorem for all values of the constants (the two of Session
that speak of one phone, for all values with one phone). Each theorem is one inductive
invariant (or several, one on top of the other), which TLC checked on the instance of
the run before it was proved; the invariants are the definitions at the head of a proof
module or of one of its parts. One lemma per action says what the action changes
("effect"), one per action and part of the invariant that it keeps that part, and a
theorem closes with temporal logic alone.

`SessionProofs` proves, for any phones, users and bounds, and from the
assumptions named in `Session` (Nobody is not a user, NoRecord is not a record,
the bounds are natural numbers):

- `TypeCorrect`: `Spec => []TypeOK`. One lemma per group of actions.
- `OnlyVerifiedRecords`: `Spec => []RecordOwnerVerified`. The invariant is about
  records in four places (stored, to be stored by a callback, copied into a
  pending update, being downloaded). The proof rests on the *residue* of a
  phone, the set of users whose record or work is anywhere on it: no step of
  the phone makes it grow, except a successful sign-in of a verified user
  (`ResidueStep`). The inductive invariant says that all users of the
  residue are verified, which implies the property; an account once verified
  stays so (`VerifiedStays`).
- `CurrentUserUnlessCrossed`: `Spec => []RecordIsOfSignedInUser`. The
  inductive invariant `OwnResidue` says that on a phone that is not crossed and
  where somebody is signed in, the residue contains nobody else. It has to be about
  the residue, not about the stored record, because a callback of an
  earlier session would otherwise break it in the next step.

- `Implementation`: `Spec => ImplementsAccounts`, the refinement of Accounts by
  every phone. `AccountStep` shows which step of Accounts each step that leaves
  the residue in bounds is (`ResidueStep` again); that a stored record is always
  in the residue is by its definition, that a callback or a pending update
  of kind edit or finish carries a record is part of `TypeOK`.
- `RecordOfOnePhone` and `OnboardingOfOnePhone`: from the further assumption
  `OnePhone` (any two phones are the same), `Spec => []RecordMatchesDocument` and
  `Spec => OnboardingKeptUnlessStale`, for any users, whoever signs in after whom.
  One inductive invariant, `OnePhoneInv`, gives both. Its first two parts
  always hold. `FirestoreFollows`: Firestore works for the signed-in user, or the
  last notification on the main queue will make it do so, with the
  completion of the sign-in right behind it unless nothing of that user
  is on the phone; hence an update that finds no sign-in and no download
  under way goes to the queue of the user whose record it is. `CacheFollows`: a
  document is cached as the server has it, or not at all. The third, `Steady`,
  holds until the record is stale, and says of each place a version
  of a document can wait in what that document is, or will be once the creates of
  its owner's queue have been answered (`Coming`): in the record itself, an
  answered download, a pending update and the answer to one. An update waits
  last in its queue and alone, with no other update or download anywhere
  (`UpdateAlone`, `AnswerAlone`), and no create waits for a document that has been
  completed (`CreateRight`), which is what keeps the registration. `Steady` is
  an operator of a record, a main queue, write queues and documents, so what each kind of
  step does to it is a lemma without primes (`SteadySent`, `SteadyRead`,
  `SteadyCreate`, `SteadyUpdate`, ...); `SteadyStep` finds for each action its
  lemma, with the condition that the action left `stale` unset.

`MarketProofs` proves, for any number of users and sign-ins, from Nobody not
being a user and the bounds being natural numbers:

- `TypeCorrect`: `Spec => []TypeOK`.
- `OwnItems`: `Spec => []OnlyOwnItems`. The strengthening `AddingCaught` says
  that everybody with an unanswered add is the signed-in user, or in `caught`
  with that one.
- `OwnScreens`: `Spec => []ScreensAreOfUser`. The strengthening `RecordOwn` says
  that who is not crossed has a record of one's own, and the residue is
  nobody else's: it is what Session guarantees through Accounts, and what
  makes the purchase history, the only screen that shows the record, right.
- `OwnerChanges`: `Spec => BasketChangedByOwner`, an action property, from
  `ScreensAreOfUser` before each step.
- `HistoryOpened`: `Spec => HistoryHasUser`, an action property. The strengthening
  `OfferedHasRecord` says that while the history is offered, by the profile's button or
  by lying on its tab, a user who is signed in has a record: a sign-in keeps the
  record of the user before until the new one comes, and a logout happens on the
  edit screen only, where neither the button nor the history is left.

`DownloadItemsProofs` proves, for calls of any size:

- `TypeCorrect` and `EveryReadAccounted`: `Spec => [](TypeOK /\ ReadsAccounted)`. The sum of
  waiting reads, items and lists is kept by every answer. When the last
  item makes the count complete, the sum says that nothing waits and that no list
  was given before.
- `KeepsPromise`: `Spec => Promise!Spec`, the safety part of `Delivers`. The
  inductive invariant adds that the array holds distinct items that have been
  read, and that every list given so far is a prefix of it (`ArrayHolds`,
  `AnswersHold`). That `NotThere` never completes twice (`NotThereIsAbsent`) is
  where `count` and the waiting read meet.

`BasketProofs` proves, for any phones, items, documents and bounds, from
NoBasket being no bag and no object, `Reload` being no item and the bounds
being natural numbers:

- `TypeCorrect`: `Spec => []TypeOK`.
- `NothingTwice`: `Spec => []NoPhantomItems`. The property is inductive with
  `TypeOK`: a version of a basket in any of its five places comes from another
  one, or from one with an item more, for which `added` is raised in the same
  step.
- `SingleBasket`: `Spec => []OneBasket`. What makes it hold is that a user who
  waits for answers keeps all phones but one idle, and that one waiting for
  exactly one thing (`Serial`); that a basket in use is on the server or its
  creation is the pending write (`Settled`, `Creating`); and that a
  query which found nothing was not followed by a creation (`FindsNothing`).
- `Kept` and `ListIsBasket`: `Spec => []NothingLost`, `Spec => []ListShowsBasket`.
  On top of `Undisturbed`, `Followed` says for each of the things the phone can
  be waiting for what it carries: the pending write and the list being
  fetched hold what is `wanted`, a callback or the view controller holds the
  object with what is `wanted`.

`CheckoutProofs` proves, for any items and bounds, from Nothing being no bag and
no record, the unpayable items being items, and the bounds being natural
numbers:

- `TypeCorrect`: `Spec => []TypeOK`.
- `AttemptsAreAccounted`: `Spec => []AttemptsAccounted`, inductive with the types.
- `EmptyListDisables`: `Spec => []EmptyListIsDisabled`, inductive with the types:
  whoever empties the list leaves a write, a callback or a fetch that will look at the
  button again.
- `HistoryIsAccounted`: `Spec => []HistoryAccounted`. The server's document is not
  enough: any version of the history that can become the next one counts. The upper
  bound (`NoneMore`) is that all of these versions (`Versions`) stay within what was
  paid and left, the one about to be written included. For the equality, `HistoryInStep`
  follows the array in a pending write, the record that its completion will store, the
  stored record unless an update of it is on its way, and the document unless a write
  is; a payment whose sheet is still being dismissed is not due yet (`Due`). Updates of
  the profile carry copies of the record, and `ProfilesInStep` says where they may be:
  those that are pending or waiting for the main thread were made before any history
  write that is under way (`ProfilesFirst`), so that, in an untroubled behaviour, the
  copies (`Copied`) are what the record is until the history's completion replaces it.
- `EmptiesThePaid`: `Spec => []EmptiesWhatWasPaid`. `BasketInStep` says that while
  nothing changed behind the user's back the view controller has no basket or the one
  Firestore shows, and that rows, lists being fetched and the open sheet each hold at
  least that.

`AddItemProofs` proves, for any number of presses, selections and pictures, from
`NotAsked` being no set of pictures, `NotSaved` no array of them, and the bounds
being natural numbers:

- `TypeCorrect`: `Spec => []TypeOK`.
- `UploadsAreAccounted`: `Spec => []UploadsAccounted`. `AllAccounted` gives the
  account of each press (`AccountOf`): pictures being put, being linked and linked are
  distinct pictures of that press, and there is an item exactly when all are
  linked. That counts are equal only then is where cardinality comes in (`AccountInNumbers`,
  `LinksCounted`).
- `PicksAreInOrder`: `Spec => []PicksInOrder`, with `OnlyLate`: while the gallery
  is open, all that is resolving or shown is of earlier selections.
- `GalleryIsOrphaned`: `Spec => []GalleryOrphaned`, with `LeftBySaving`.
- `KeepsPromise`: `Spec => Publishes`, the refinement of Publish: `Done` asks
  (`DoneAsks`), the last link publishes (`AnswerPublishes`), every other step stutters.

`PicturesProofs` proves, for any number of links, calls and items, from there
being at least one link and one call, pictured items being items and NoImage being
none:

- `TypeCorrect`: `Spec => []TypeOK`. That a counter written without a lock stays within
  the number of links needs `CounterBehind`: neither the counter nor a count that a
  thread has read is ever above the number of threads that have written it.
- `CountsRight`: `Spec => []CountsAreRight`. Without a race one thread at a time is in
  `+=`, and has read the counter as it is (`CounterInTurn`), and one at a time is in
  `append`, and has read the array as it is (`ArrayInTurn`).
- `PicturesRemain`: `Spec => PicturesStay`, an action property. Without a race
  `imageArray` only grows at its end, the screen shows a prefix of it, and what a
  completion has read is a prefix of it (`FirstShown`), one at least as long as the
  screen unless the completion is in `overtaken` (`CompletionFresh`, and one lemma for
  each of the ways a completion can be called or end).
- `ShowsAll`: `Spec => []AllPicturesShown`. `LastShown` says that once the array has a
  picture for every link, some thread is about to see that the counts agree, or a
  completion is waiting, or the screen shows the array; the thread that appended last is
  such a thread, because all downloads have begun by then (`AllBegun`).
- `AnswersOnce`: `Spec => []AnsweredOnce`, with `CellCalls` (what the one thread of a
  cell's call has, place by place; races do not concern it) and `CellAnswers` (a call
  that has ended is waiting for the main thread, or answered, not both).
- `ShowsTheItem`: `Spec => []CellShowsItem`, with `CellShows`: the picture is of the
  call answered last, the name of the call made last.

What is only model-checked: liveness (`LoginLoadsRecord`,
`PaymentIsRecorded`, `SavedOrFailed`, `PicturesArrive`, the fairness part of
`Delivers`), which is out of the prover's reach.

The proof of `OnePhoneInv` found that the two properties had been stated with an
exception they do not need: they excused a phone on which a sign-in crossed users. The
invariant never mentions `crossed`; TLC confirmed it, and the properties are
stated without it.

## 5. Not modelled

The text of fields, prices and their formatting, spinners and messages, the bytes and
names of pictures (no property is about them); resetting a password (no state of the
app); Search and the application shell (nothing happens there); `createCategorySet`
(commented out in the source); the catalog, two read-only lists that the last answer
replaces, in the way the list of the basket is replaced in Basket (when the list learns
of an item that was just saved is therefore left open: following it in AddItem made the
run's state space too large). In Pictures a malformed link and data that is no image,
which end the app.

`src/Market/Pods` holds the vendored sources of Firebase, gRPC, BoringSSL,
LevelDB, Protobuf and others: nearly all of the repository's text, and all of its C, C++ and
Objective-C. They are libraries of other projects, which the app
only calls. They are modelled by what the app observes of them, at the few
lines where they decide it (the state listener of Auth, the sign-out by force),
and not beyond: the map is about the 26 Swift files of `src/Market/Market`, and a
share of lines that counts the Pods is close to zero whatever is modelled.

## 6. Plan

1. Accounts as seen by Basket and Checkout: that their users are what Accounts
   promises is so far stated in Market alone.
