------------------------------ MODULE AddItem ------------------------------
(***************************************************************************)
(* The Add Item form: picking pictures, uploading them, saving the item.   *)
(*                                                                         *)
(* One opening of the form on one phone.  Everything runs on the main      *)
(* queue, but the gallery resolves a pick, and Storage takes a picture and *)
(* hands out its link, later and in any order; meanwhile the user may open *)
(* the gallery again, press Done again or leave.  A picture is <<k, i>>,   *)
(* the i-th of pick k; its link has the picture's name.                    *)
(***************************************************************************)
EXTENDS Naturals, Sequences, FiniteSets, Functions

CONSTANTS
    Presses,     \* bound: presses of Done with the fields completed
    MaxPicks,    \* bound: selections made in the gallery
    MaxImages,   \* bound: pictures of a selection
    NotAsked,    \* Done was not pressed this often
    NotSaved     \* there is no such item in Firestore

ASSUME MaxPicksAssumption == MaxPicks \in Nat
ASSUME MaxImagesAssumption == MaxImages \in Nat

Picks == 1..MaxPicks
Pictures == Picks \X (1..MaxImages)

ASSUME NotAskedAssumption == \A s \in SUBSET Pictures : s # NotAsked
ASSUME NotSavedAssumption == NotSaved \notin Seq(Pictures)

VARIABLES
    running,     \* the app has not been ended
    onScreen,    \* the form is on the navigation stack
    gallery,     \* the gallery is presented
    itemImages,
    resolving,   \* the picks Image.resolve has not answered
    lastPick,    \* history: the number of picks
    late,        \* history: those resolving when the camera was last pressed
    images,      \* of each press of Done: its copy of itemImages
    putting,     \* of those, the pictures putData has not answered
    linking,     \* of those, the pictures downloadURL has not answered
    imageLinkArray,
    items        \* Firestore: the links saved with the item

picking == <<itemImages, resolving, lastPick, late>>
uploads == <<putting, linking, imageLinkArray>>
vars == <<running, onScreen, gallery, picking, images, uploads, items>>

TypeOK ==
    /\ running \in BOOLEAN
    /\ onScreen \in BOOLEAN
    /\ gallery \in BOOLEAN
    /\ itemImages \in SUBSET Pictures
    /\ lastPick \in 0..MaxPicks
    /\ resolving \in SUBSET (1..lastPick)
    /\ late \in SUBSET (1..lastPick)
    /\ images \in [Presses -> (SUBSET Pictures) \cup {NotAsked}]
    /\ putting \in [Presses -> SUBSET Pictures]
    /\ linking \in [Presses -> SUBSET Pictures]
    /\ imageLinkArray \in [Presses -> Seq(Pictures)]
    /\ items \in [Presses -> Seq(Pictures) \cup {NotSaved}]

Init ==
    /\ running = TRUE
    /\ onScreen = TRUE
    /\ gallery = FALSE
    /\ itemImages = {}
    /\ resolving = {}
    /\ lastPick = 0
    /\ late = {}
    /\ images = [p \in Presses |-> NotAsked]
    /\ putting = [p \in Presses |-> {}]
    /\ linking = [p \in Presses |-> {}]
    /\ imageLinkArray = [p \in Presses |-> <<>>]
    /\ items = [p \in Presses |-> NotSaved]

-----------------------------------------------------------------------------
(* The form and its gallery.                                                *)

\* The user can use the form.
Usable == running /\ onScreen /\ ~gallery

\* The form is in memory: on the stack, or captured by a completion to come.
Held == onScreen \/ resolving # {} \/ \E p \in Presses : putting[p] \cup linking[p] # {}

\* Mutant: the earlier pictures are kept.
CameraKeeps ==
    /\ Usable
    /\ gallery' = TRUE
    /\ late' = resolving
    /\ UNCHANGED <<running, onScreen, itemImages, resolving, lastPick, images, uploads, items>>

\* cameraButonPressed: the pictures are dropped, what is resolving is not.
Camera ==
    /\ Usable
    /\ itemImages' = {}
    /\ gallery' = TRUE
    /\ late' = resolving
    /\ UNCHANGED <<running, onScreen, resolving, lastPick, images, uploads, items>>

\* didSelectImages, with pictures: the gallery's reference to the form is weak.
Select ==
    /\ running /\ gallery /\ Held
    /\ lastPick < MaxPicks
    /\ lastPick' = lastPick + 1
    /\ resolving' = resolving \cup {lastPick'}
    /\ gallery' = FALSE
    /\ UNCHANGED <<running, onScreen, itemImages, late, images, uploads, items>>

\* The other ways out of the gallery; without the form, a swipe of the sheet.
CloseGallery ==
    /\ running /\ gallery
    /\ gallery' = FALSE
    /\ UNCHANGED <<running, onScreen, picking, images, uploads, items>>

\* Mutant: the pictures are numbered from zero.
ResolvedFromZero(k) ==
    /\ running /\ k \in resolving
    /\ resolving' = resolving \ {k}
    /\ \E n \in 0..MaxImages : itemImages' = {k} \X (0..n)
    /\ UNCHANGED <<running, onScreen, gallery, lastPick, late, images, uploads, items>>

\* The completion of Image.resolve, which leaves out what it could not get.
Resolved(k) ==
    /\ running /\ k \in resolving
    /\ resolving' = resolving \ {k}
    /\ \E n \in 0..MaxImages : itemImages' = {k} \X (1..n)
    /\ UNCHANGED <<running, onScreen, gallery, lastPick, late, images, uploads, items>>

\* Back.
Leave ==
    /\ Usable
    /\ onScreen' = FALSE
    /\ UNCHANGED <<running, gallery, picking, images, uploads, items>>

-----------------------------------------------------------------------------
(* saveToFirebase, uploadImages and saveImageInFireBase.                    *)

\* saveItemToFireStore and popTheView: a form that is gone pops nothing.
Save(p, imageLinks) ==
    /\ items' = [items EXCEPT ![p] = imageLinks]
    /\ onScreen' = FALSE

\* doneBarButtonItemPressed, with the fields completed.  Without a connection
\* uploadImages does nothing, not even call completion.
Done(p, HasConnection) ==
    /\ Usable
    /\ images[p] = NotAsked
    /\ images' = [images EXCEPT ![p] = itemImages]
    /\ IF itemImages = {} THEN Save(p, <<>>) ELSE UNCHANGED <<items, onScreen>>
    /\ putting' = [putting EXCEPT ![p] = IF HasConnection THEN itemImages ELSE {}]
    /\ UNCHANGED <<running, gallery, picking, linking, imageLinkArray>>

\* The completion of putData.
Put(p, image) ==
    /\ running /\ image \in putting[p]
    /\ putting' = [putting EXCEPT ![p] = @ \ {image}]
    /\ UNCHANGED <<running, gallery, picking, images>>

PutDone(p, image) ==
    /\ Put(p, image)
    /\ linking' = [linking EXCEPT ![p] = @ \cup {image}]
    /\ UNCHANGED <<onScreen, imageLinkArray, items>>

PutFailed(p, image) ==
    /\ Put(p, image)
    /\ UNCHANGED <<onScreen, linking, imageLinkArray, items>>

\* The completion of downloadURL.
Link(p, image) ==
    /\ running /\ image \in linking[p]
    /\ linking' = [linking EXCEPT ![p] = @ \ {image}]
    /\ UNCHANGED <<running, gallery, picking, images, putting>>

\* Mutants: the count is compared before it is raised; completion is called
\* when nothing is left to wait for; a failure pops the form.
LinkedLate(p, image) ==
    /\ Link(p, image)
    /\ imageLinkArray' = [imageLinkArray EXCEPT ![p] = Append(@, image)]
    /\ IF Len(imageLinkArray[p]) = Cardinality(images[p])
       THEN Save(p, imageLinkArray'[p])
       ELSE UNCHANGED <<onScreen, items>>
LinkedLast(p, image) ==
    /\ Link(p, image)
    /\ imageLinkArray' = [imageLinkArray EXCEPT ![p] = Append(@, image)]
    /\ IF putting[p] \cup linking'[p] = {}
       THEN Save(p, imageLinkArray'[p])
       ELSE UNCHANGED <<onScreen, items>>
NotLinkedPops(p, image) ==
    /\ Link(p, image)
    /\ onScreen' = FALSE
    /\ UNCHANGED <<imageLinkArray, items>>

\* The link is appended; with as many links as images completion is called.
Linked(p, image) ==
    /\ Link(p, image)
    /\ imageLinkArray' = [imageLinkArray EXCEPT ![p] = Append(@, image)]
    /\ IF Len(imageLinkArray'[p]) = Cardinality(images[p])
       THEN Save(p, imageLinkArray'[p])
       ELSE UNCHANGED <<onScreen, items>>

NotLinked(p, image) ==
    /\ Link(p, image)
    /\ UNCHANGED <<onScreen, imageLinkArray, items>>

\* The user or the system ends the app.
Kill ==
    /\ running
    /\ running' = FALSE
    /\ UNCHANGED <<onScreen, gallery, picking, images, uploads, items>>

Answer(p, image) ==
    \/ PutDone(p, image)
    \/ PutFailed(p, image)
    \/ Linked(p, image)
    \/ NotLinked(p, image)

Next ==
    \/ Camera
    \/ Select
    \/ CloseGallery
    \/ \E k \in Picks : Resolved(k)
    \/ Leave
    \/ \E p \in Presses, HasConnection \in BOOLEAN : Done(p, HasConnection)
    \/ \E p \in Presses, image \in Pictures : Answer(p, image)
    \/ Kill

Spec == Init /\ [][Next]_vars

\* Storage answers every call, with an error once its retry time is over.
FairSpec == Spec /\ \A p \in Presses, image \in Pictures : WF_vars(Answer(p, image))

-----------------------------------------------------------------------------
(* Properties.                                                              *)

\* The pictures of a press that were uploaded and linked, or still may be.
Unfailed(p) == putting[p] \cup linking[p] \cup Range(imageLinkArray[p])

\* Every picture of a press is in one stage of its upload, or has failed; the
\* item is saved exactly when all are linked, under the links there are.
UploadsAccounted ==
    \A p \in Presses :
        IF images[p] = NotAsked
        THEN Unfailed(p) = {} /\ items[p] = NotSaved
        ELSE /\ Unfailed(p) \subseteq images[p]
             /\ Cardinality(putting[p]) + Cardinality(linking[p])
                   + Len(imageLinkArray[p]) = Cardinality(Unfailed(p))
             /\ items[p] = IF Range(imageLinkArray[p]) = images[p]
                           THEN imageLinkArray[p]
                           ELSE NotSaved

\* The form holds pictures of the last selection, unless those of an earlier
\* one were still resolving when the camera was pressed again.
PicksInOrder == \A image \in itemImages : image[1] = lastPick \/ image[1] \in late

\* A gallery nobody answers, the form being gone, was left by a saved item.
GalleryOrphaned == gallery /\ ~Held => \E p \in Presses : items[p] # NotSaved

\* An item asked for is saved, unless one of its pictures fails, there is no
\* connection, or the app ends.
Asked(p) == images[p] # NotAsked
SavedOrFailed ==
    \A p \in Presses :
        Asked(p) ~> \/ items[p] # NotSaved
                    \/ Asked(p) /\ Unfailed(p) # images[p]
                    \/ ~running

\* Every item is published at most once, and with all of its pictures.
Promise == INSTANCE Publish WITH
    pictures <- images,
    published <- items
Publishes == Promise!Spec

=============================================================================
