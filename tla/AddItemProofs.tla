--------------------------- MODULE AddItemProofs ---------------------------
(* What the Add Item form guarantees for any number of presses of Done, of  *)
(* selections and of pictures.                                              *)
EXTENDS AddItem, SequenceLemmas

(* Every group of variables that an action leaves alone is seen through.    *)
USE DEF picking, uploads

-----------------------------------------------------------------------------
(* Pictures and links.                                                      *)

(* There are only so many pictures. *)
LEMMA PicturesFinite == IsFiniteSet(Pictures)
<1>1. IsFiniteSet(1..MaxPicks) /\ IsFiniteSet(1..MaxImages)
  <2>1. 1 \in Int /\ MaxPicks \in Int /\ MaxImages \in Int
    BY MaxPicksAssumption, MaxImagesAssumption
  <2> QED
    BY <2>1, FS_Interval
<1> QED
  BY <1>1, FS_Product DEF Pictures, Picks

(* The links of an array are its entries. *)
LEMMA RangeIsEntries == \A q : Range(q) = Entries(q)
  BY DEF Range, Entries

-----------------------------------------------------------------------------
(* The account of one press of Done.                                        *)

(* Of the pictures I an item was asked for with, P are being put, L being   *)
(* linked, A are the links, in the order in which they came; s is what is   *)
(* saved.  No picture is in two stages, and the item is saved exactly when  *)
(* all are linked.                                                          *)
Account(I, P, L, A, s) ==
    /\ P \cap L = {} /\ (P \cup L) \cap Entries(A) = {} /\ IsInjective(A)
    /\ IF I = NotAsked
       THEN P \cup L \cup Entries(A) = {} /\ s = NotSaved
       ELSE /\ P \cup L \cup Entries(A) \subseteq I
            /\ s = IF Entries(A) = I THEN A ELSE NotSaved

(* The account of press p. *)
AccountOf(p) == Account(images[p], putting[p], linking[p], imageLinkArray[p], items[p])

(* A press asks; without pictures the item is saved at once. *)
LEMMA AccountAsked ==
    ASSUME NEW I \in SUBSET Pictures, NEW P \in SUBSET I, NEW A \in Seq(Pictures), NEW L, NEW s,
           Account(NotAsked, {}, L, A, s)
    PROVE  /\ A = <<>>
           /\ Account(I, P, L, A, IF I = {} THEN <<>> ELSE s)
<1>1. L = {} /\ Entries(A) = {} /\ s = NotSaved
  BY DEF Account
<1>2. A = <<>>
  BY <1>1, EntriesOf
<1>3. I # NotAsked
  BY NotAskedAssumption
<1> QED
  BY <1>1, <1>2, <1>3 DEF Account

(* The completion of a picture's upload moves it to the next stage. *)
LEMMA AccountPut ==
    ASSUME NEW I, NEW P, NEW m \in P, NEW L, NEW A, NEW s, Account(I, P, L, A, s)
    PROVE  Account(I, P \ {m}, L \cup {m}, A, s) /\ Account(I, P \ {m}, L, A, s)
  BY DEF Account

(* A picture whose link cannot be had leaves. *)
LEMMA AccountNotLinked ==
    ASSUME NEW I, NEW P, NEW L, NEW m \in L, NEW A, NEW s, Account(I, P, L, A, s)
    PROVE  Account(I, P, L \ {m}, A, s)
  BY DEF Account

(* Comparing the two counts tells whether all links are there.              *)
LEMMA LinksCounted ==
    ASSUME NEW I \in (SUBSET Pictures) \cup {NotAsked}, NEW P, NEW L, NEW m \in L \cap Pictures,
           NEW A \in Seq(Pictures), NEW s, Account(I, P, L, A, s)
    PROVE  /\ I # NotAsked /\ s = NotSaved
           /\ Append(A, m) \in Seq(Pictures) /\ IsInjective(Append(A, m))
           /\ Entries(Append(A, m)) \subseteq I
           /\ Len(Append(A, m)) = Cardinality(I) <=> Entries(Append(A, m)) = I
<1> DEFINE B == Append(A, m)
<1>1. I # NotAsked /\ m \in I /\ m \notin Entries(A) /\ IsInjective(A) /\ Entries(A) \subseteq I
  BY DEF Account
<1>2. s = NotSaved
  BY <1>1 DEF Account
<1>3. B \in Seq(Pictures) /\ Entries(B) = Entries(A) \cup {m}
  BY EntriesOf
<1>4. IsInjective(B)
  BY <1>1, InjectiveAppend
<1> HIDE DEF B
<1>5. Entries(B) \in SUBSET I
  BY <1>1, <1>3
<1>6. IsFiniteSet(I)
  <2>1. I \in SUBSET Pictures
    BY <1>1
  <2> QED
    BY <2>1, PicturesFinite, FS_Subset
<1>7. Len(B) = Cardinality(Entries(B))
  BY <1>3, <1>4, InjectiveLength
<1>8. Len(B) = Cardinality(I) <=> Entries(B) = I
  BY <1>5, <1>6, <1>7, FS_Subset
<1> QED
  BY <1>1, <1>2, <1>3, <1>4, <1>5, <1>8 DEF B

(* A link is appended, and with the last one the item is saved. *)
LEMMA AccountLinked ==
    ASSUME NEW I \in (SUBSET Pictures) \cup {NotAsked}, NEW P, NEW L, NEW m \in L \cap Pictures,
           NEW A \in Seq(Pictures), NEW s, Account(I, P, L, A, s)
    PROVE  Account(I, P, L \ {m}, Append(A, m),
                   IF Len(Append(A, m)) = Cardinality(I) THEN Append(A, m) ELSE s)
<1> DEFINE B == Append(A, m)
<1>1. /\ I # NotAsked /\ s = NotSaved /\ IsInjective(B) /\ Entries(B) \subseteq I
      /\ Len(B) = Cardinality(I) <=> Entries(B) = I
  <2>1. I # NotAsked /\ s = NotSaved
    BY DEF Account
  <2>2. IsInjective(B)
    BY LinksCounted
  <2>3. Entries(B) \subseteq I
    BY LinksCounted
  <2>4. Len(B) = Cardinality(I) <=> Entries(B) = I
    BY LinksCounted
  <2> QED
    BY <2>1, <2>2, <2>3, <2>4
<1>2. Entries(B) = Entries(A) \cup {m}
  BY EntriesOf
<1> HIDE DEF B
<1>3. P \cap (L \ {m}) = {} /\ (P \cup (L \ {m})) \cap Entries(B) = {}
  BY <1>2 DEF Account
<1>4. P \cup (L \ {m}) \cup Entries(B) \subseteq I
  BY <1>1, <1>2 DEF Account
<1>5. Account(I, P, L \ {m}, B, IF Len(B) = Cardinality(I) THEN B ELSE s)
  BY <1>1, <1>3, <1>4 DEF Account
<1> QED
  BY <1>5 DEF B

-----------------------------------------------------------------------------
(* Types.                                                                   *)

(* The types of the flags, of the gallery's variables, of the uploads'. *)
Flags == running \in BOOLEAN /\ onScreen \in BOOLEAN /\ gallery \in BOOLEAN
Picking ==
    /\ itemImages \in SUBSET Pictures
    /\ lastPick \in 0..MaxPicks
    /\ resolving \in SUBSET (1..lastPick)
    /\ late \in SUBSET (1..lastPick)
Uploading ==
    /\ images \in [Presses -> (SUBSET Pictures) \cup {NotAsked}]
    /\ putting \in [Presses -> SUBSET Pictures]
    /\ linking \in [Presses -> SUBSET Pictures]
    /\ imageLinkArray \in [Presses -> Seq(Pictures)]
    /\ items \in [Presses -> Seq(Pictures) \cup {NotSaved}]

(* Together these are the types of the module. *)
LEMMA TypeParts ==
    /\ TypeOK <=> Flags /\ Picking /\ Uploading
    /\ TypeOK' <=> Flags' /\ Picking' /\ Uploading'
  BY DEF Flags, Picking, Uploading, TypeOK

(* An answer of Storage concerns the uploads of one press, and the screen   *)
(* when the item is saved.                                                  *)
LEMMA AnswerEffect ==
    ASSUME Uploading, NEW p \in Presses, NEW image \in Pictures, Answer(p, image)
    PROVE  /\ UNCHANGED <<running, gallery, picking, images>>
           /\ \/ /\ image \in putting[p]
                 /\ putting' = [putting EXCEPT ![p] = putting[p] \ {image}]
                 /\ \/ linking' = [linking EXCEPT ![p] = linking[p] \cup {image}]
                    \/ UNCHANGED linking
                 /\ UNCHANGED <<imageLinkArray, items, onScreen>>
              \/ /\ image \in linking[p] /\ UNCHANGED putting
                 /\ linking' = [linking EXCEPT ![p] = linking[p] \ {image}]
                 /\ \/ UNCHANGED <<imageLinkArray, items, onScreen>>
                    \/ LET links == Append(imageLinkArray[p], image)
                       IN  /\ imageLinkArray' = [imageLinkArray EXCEPT ![p] = links]
                           /\ IF Len(links) = Cardinality(images[p])
                              THEN items' = [items EXCEPT ![p] = links] /\ onScreen' = FALSE
                              ELSE UNCHANGED <<items, onScreen>>
<1>1. CASE PutDone(p, image) \/ PutFailed(p, image) \/ NotLinked(p, image)
  BY <1>1 DEF PutDone, PutFailed, NotLinked, Put, Link
<1>2. CASE Linked(p, image)
  <2> DEFINE links == Append(imageLinkArray[p], image)
  <2>1. imageLinkArray' = [imageLinkArray EXCEPT ![p] = links] /\ Link(p, image)
    BY <1>2 DEF Linked
  <2>2. imageLinkArray'[p] = links
    BY <2>1 DEF Uploading
  <2>3. IF Len(links) = Cardinality(images[p])
        THEN items' = [items EXCEPT ![p] = links] /\ onScreen' = FALSE
        ELSE UNCHANGED <<items, onScreen>>
    BY <1>2, <2>2 DEF Linked, Save
  <2> HIDE DEF links
  <2>4. /\ UNCHANGED <<running, gallery, picking, images, putting>> /\ image \in linking[p]
        /\ linking' = [linking EXCEPT ![p] = linking[p] \ {image}]
    BY <2>1 DEF Link
  <2> QED
    BY <2>1, <2>3, <2>4 DEF links
<1> QED
  BY <1>1, <1>2 DEF Answer

(* So does Done. *)
LEMMA DoneEffect ==
    ASSUME NEW p \in Presses, NEW HasConnection \in BOOLEAN, Done(p, HasConnection)
    PROVE  /\ images[p] = NotAsked
           /\ images' = [images EXCEPT ![p] = itemImages]
           /\ putting' = [putting EXCEPT ![p] = IF HasConnection THEN itemImages ELSE {}]
           /\ IF itemImages = {} THEN items' = [items EXCEPT ![p] = <<>>] /\ onScreen' = FALSE
              ELSE UNCHANGED <<items, onScreen>>
           /\ UNCHANGED <<running, gallery, picking, linking, imageLinkArray>>
  BY DEF Done, Save

(* The other actions leave the uploads alone. *)
LEMMA OthersEffect ==
    ASSUME Next, ~ (\E p \in Presses, HasConnection \in BOOLEAN : Done(p, HasConnection)),
           ~ (\E p \in Presses, image \in Pictures : Answer(p, image))
    PROVE  UNCHANGED <<images, putting, linking, imageLinkArray, items>>
  BY DEF Next, Camera, Select, CloseGallery, Resolved, Leave, Kill

(* The flags stay flags. *)
LEMMA FlagsStep ==
    ASSUME Flags, Uploading, Next
    PROVE  Flags'
<1>1. ASSUME NEW p \in Presses, NEW image \in Pictures, Answer(p, image)
      PROVE  Flags'
  <2>1. UNCHANGED <<running, gallery>> /\ (onScreen' = onScreen \/ onScreen' = FALSE)
    BY <1>1, AnswerEffect
  <2> QED
    BY <2>1 DEF Flags
<1>2. ASSUME NEW p \in Presses, NEW HasConnection \in BOOLEAN, Done(p, HasConnection)
      PROVE  Flags'
  BY <1>2, DoneEffect DEF Flags
<1>3. ASSUME NEW k \in Picks, Resolved(k)
      PROVE  Flags'
  BY <1>3 DEF Resolved, Flags
<1>4. CASE Camera \/ Select \/ CloseGallery \/ Leave \/ Kill
  BY <1>4 DEF Camera, Select, CloseGallery, Leave, Kill, Flags
<1> QED
  BY <1>1, <1>2, <1>3, <1>4 DEF Next

(* The pictures of the form are those of selections that were made. *)
LEMMA PickingStep ==
    ASSUME Picking, Uploading, Next
    PROVE  Picking'
<1>1. CASE UNCHANGED picking
  BY <1>1 DEF Picking
<1>2. CASE Camera
  BY <1>2 DEF Camera, Picking
<1>3. CASE Select
  <2>1. lastPick \in Nat /\ lastPick < MaxPicks /\ lastPick' = lastPick + 1
    BY <1>3, MaxPicksAssumption DEF Select, Picking
  <2>2. lastPick' \in 0..MaxPicks /\ lastPick' \in 1..lastPick' /\ 1..lastPick \subseteq 1..lastPick'
    BY <2>1, MaxPicksAssumption
  <2>3. /\ resolving' = resolving \cup {lastPick'} /\ late' = late /\ itemImages' = itemImages
    BY <1>3 DEF Select
  <2> QED
    BY <2>2, <2>3 DEF Picking
<1>4. ASSUME NEW k \in Picks, Resolved(k)
      PROVE  Picking'
  <2>1. PICK n \in 0..MaxImages : itemImages' = {k} \X (1..n)
    BY <1>4 DEF Resolved
  <2>2. 1..n \subseteq 1..MaxImages
    BY <2>1, MaxImagesAssumption
  <2>3. itemImages' \in SUBSET Pictures
    BY <2>1, <2>2 DEF Pictures
  <2> QED
    BY <1>4, <2>3 DEF Resolved, Picking
<1>5. ASSUME NEW p \in Presses, NEW image \in Pictures, Answer(p, image)
      PROVE  Picking'
  BY <1>1, <1>5, AnswerEffect
<1>6. ASSUME NEW p \in Presses, NEW HasConnection \in BOOLEAN, Done(p, HasConnection)
      PROVE  Picking'
  BY <1>1, <1>6, DoneEffect
<1>7. CASE CloseGallery \/ Leave \/ Kill
  BY <1>1, <1>7 DEF CloseGallery, Leave, Kill
<1> QED
  BY <1>2, <1>3, <1>4, <1>5, <1>6, <1>7 DEF Next

(* The uploads are of pictures. *)
LEMMA UploadingStep ==
    ASSUME Picking, Uploading, Next
    PROVE  Uploading'
<1>1. ASSUME NEW p \in Presses, NEW image \in Pictures, Answer(p, image)
      PROVE  Uploading'
  <2> DEFINE links == Append(imageLinkArray[p], image)
  <2>1. links \in Seq(Pictures)
    BY DEF Uploading
  <2>2. /\ putting[p] \ {image} \in SUBSET Pictures /\ linking[p] \ {image} \in SUBSET Pictures
        /\ linking[p] \cup {image} \in SUBSET Pictures
    BY DEF Uploading
  <2> HIDE DEF links
  <2>3. /\ UNCHANGED images
        /\ putting' = putting \/ putting' = [putting EXCEPT ![p] = putting[p] \ {image}]
        /\ \/ linking' = linking
           \/ linking' = [linking EXCEPT ![p] = linking[p] \cup {image}]
           \/ linking' = [linking EXCEPT ![p] = linking[p] \ {image}]
    BY <1>1, AnswerEffect
  <2>4. /\ imageLinkArray' = imageLinkArray \/ imageLinkArray' = [imageLinkArray EXCEPT ![p] = links]
        /\ items' = items \/ items' = [items EXCEPT ![p] = links]
    BY <1>1, AnswerEffect DEF links
  <2>5. putting' \in [Presses -> SUBSET Pictures]
    BY <2>2, <2>3 DEF Uploading
  <2>6. linking' \in [Presses -> SUBSET Pictures]
    BY <2>2, <2>3 DEF Uploading
  <2>7. imageLinkArray' \in [Presses -> Seq(Pictures)]
    BY <2>1, <2>4 DEF Uploading
  <2>8. items' \in [Presses -> Seq(Pictures) \cup {NotSaved}]
    BY <2>1, <2>4 DEF Uploading
  <2> QED
    BY <2>3, <2>5, <2>6, <2>7, <2>8 DEF Uploading
<1>2. ASSUME NEW p \in Presses, NEW HasConnection \in BOOLEAN, Done(p, HasConnection)
      PROVE  Uploading'
  <2>1. itemImages \in SUBSET Pictures /\ <<>> \in Seq(Pictures)
    BY DEF Picking
  <2>2. /\ images' = [images EXCEPT ![p] = itemImages]
        /\ putting' = [putting EXCEPT ![p] = IF HasConnection THEN itemImages ELSE {}]
        /\ items' = items \/ items' = [items EXCEPT ![p] = <<>>]
        /\ UNCHANGED <<linking, imageLinkArray>>
    BY <1>2, DoneEffect
  <2> QED
    BY <2>1, <2>2 DEF Uploading
<1>3. CASE UNCHANGED <<images, putting, linking, imageLinkArray, items>>
  BY <1>3 DEF Uploading
<1> QED
  BY <1>1, <1>2, <1>3, OthersEffect

(* The variables hold what the form can keep in them. *)
THEOREM TypeCorrect == Spec => []TypeOK
<1>1. Init => TypeOK
  <2>1. Init => Flags
    BY DEF Init, Flags
  <2>2. Init => Picking
    BY MaxPicksAssumption DEF Init, Picking
  <2>3. Init => Uploading
    BY DEF Init, Uploading
  <2> QED
    BY <2>1, <2>2, <2>3, TypeParts
<1>2. TypeOK /\ [Next]_vars => TypeOK'
  <2>1. TypeOK /\ UNCHANGED vars => TypeOK'
    BY DEF vars, TypeOK
  <2>2. TypeOK /\ Next => TypeOK'
    BY TypeParts, FlagsStep, PickingStep, UploadingStep
  <2> QED
    BY <2>1, <2>2
<1> QED
  BY <1>1, <1>2, PTL DEF Spec

-----------------------------------------------------------------------------
(* Uploads.                                                                 *)

(* Every press has its account. *)
AllAccounted == \A p \in Presses : AccountOf(p)

(* Nothing is asked for or uploaded at first. *)
LEMMA AccountedInit == Init => AllAccounted
  BY DEF Init, AllAccounted, AccountOf, Account, IsInjective, Entries

(* A press that is left alone keeps its account. *)
LEMMA AccountKept ==
    ASSUME NEW p \in Presses, AccountOf(p),
           images'[p] = images[p], putting'[p] = putting[p], linking'[p] = linking[p],
           imageLinkArray'[p] = imageLinkArray[p], items'[p] = items[p]
    PROVE  AccountOf(p)'
  BY DEF AccountOf

(* Done opens an account. *)
LEMMA AccountedDone ==
    ASSUME Picking, Uploading, AllAccounted,
           NEW p \in Presses, NEW HasConnection \in BOOLEAN, Done(p, HasConnection)
    PROVE  AllAccounted'
<1>1. /\ images[p] = NotAsked
      /\ images' = [images EXCEPT ![p] = itemImages]
      /\ putting' = [putting EXCEPT ![p] = IF HasConnection THEN itemImages ELSE {}]
      /\ IF itemImages = {} THEN items' = [items EXCEPT ![p] = <<>>] ELSE UNCHANGED items
      /\ UNCHANGED <<linking, imageLinkArray>>
  BY DoneEffect
<1>2. Account(NotAsked, putting[p], linking[p], imageLinkArray[p], items[p])
  BY <1>1 DEF AllAccounted, AccountOf
<1>3. putting[p] = {}
  BY <1>2 DEF Account
<1>4. PICK P \in SUBSET itemImages : P = IF HasConnection THEN itemImages ELSE {}
  OBVIOUS
<1>5. PICK I \in SUBSET Pictures : I = itemImages
  BY DEF Picking
<1>6. PICK A \in Seq(Pictures) : A = imageLinkArray[p]
  BY DEF Uploading
<1>7. Account(I, P, linking[p], A, IF I = {} THEN <<>> ELSE items[p])
  <2>1. P \in SUBSET I
    BY <1>4, <1>5
  <2>2. Account(NotAsked, {}, linking[p], A, items[p])
    BY <1>2, <1>3, <1>6
  <2> QED
    BY <2>1, <2>2, AccountAsked
<1>8. /\ images'[p] = I /\ putting'[p] = P /\ linking'[p] = linking[p] /\ imageLinkArray'[p] = A
      /\ items'[p] = IF I = {} THEN <<>> ELSE items[p]
  BY <1>1, <1>4, <1>5, <1>6 DEF Uploading
<1>9. AccountOf(p)'
  BY <1>7, <1>8 DEF AccountOf
<1>10. ASSUME NEW r \in Presses, r # p
       PROVE  AccountOf(r)'
  <2>1. /\ images'[r] = images[r] /\ putting'[r] = putting[r] /\ linking'[r] = linking[r]
        /\ imageLinkArray'[r] = imageLinkArray[r] /\ items'[r] = items[r]
    BY <1>1, <1>10 DEF Uploading
  <2> QED
    BY <2>1, AccountKept DEF AllAccounted
<1> QED
  BY <1>9, <1>10 DEF AllAccounted

(* An answer of Storage is entered in the account it is for. *)
LEMMA AccountedAnswer ==
    ASSUME Uploading, AllAccounted,
           NEW p \in Presses, NEW image \in Pictures, Answer(p, image)
    PROVE  AllAccounted'
<1>1. Account(images[p], putting[p], linking[p], imageLinkArray[p], items[p])
  BY DEF AllAccounted, AccountOf
<1>2. /\ images[p] \in (SUBSET Pictures) \cup {NotAsked}
      /\ imageLinkArray[p] \in Seq(Pictures)
  BY DEF Uploading
<1>3. CASE /\ image \in putting[p]
           /\ putting' = [putting EXCEPT ![p] = putting[p] \ {image}]
           /\ \/ linking' = [linking EXCEPT ![p] = linking[p] \cup {image}]
              \/ UNCHANGED linking
           /\ UNCHANGED <<images, imageLinkArray, items>>
  <2>1. /\ Account(images[p], putting[p] \ {image}, linking[p] \cup {image}, imageLinkArray[p],
                   items[p])
        /\ Account(images[p], putting[p] \ {image}, linking[p], imageLinkArray[p], items[p])
    BY <1>1, <1>3, AccountPut
  <2>2. /\ putting'[p] = putting[p] \ {image}
        /\ linking'[p] = linking[p] \cup {image} \/ linking'[p] = linking[p]
        /\ images'[p] = images[p] /\ imageLinkArray'[p] = imageLinkArray[p]
        /\ items'[p] = items[p]
    BY <1>3 DEF Uploading
  <2>3. AccountOf(p)'
    BY <2>1, <2>2 DEF AccountOf
  <2>4. \A r \in Presses : r # p =>
          /\ images'[r] = images[r] /\ putting'[r] = putting[r] /\ linking'[r] = linking[r]
          /\ imageLinkArray'[r] = imageLinkArray[r] /\ items'[r] = items[r]
    BY <1>3 DEF Uploading
  <2> QED
    BY <2>3, <2>4, AccountKept DEF AllAccounted
<1>4. CASE /\ image \in linking[p]
           /\ linking' = [linking EXCEPT ![p] = linking[p] \ {image}]
           /\ UNCHANGED <<images, putting, imageLinkArray, items>>
  <2>1. Account(images[p], putting[p], linking[p] \ {image}, imageLinkArray[p], items[p])
    BY <1>1, <1>4, AccountNotLinked
  <2>2. /\ linking'[p] = linking[p] \ {image} /\ putting'[p] = putting[p]
        /\ images'[p] = images[p] /\ imageLinkArray'[p] = imageLinkArray[p]
        /\ items'[p] = items[p]
    BY <1>4 DEF Uploading
  <2>3. AccountOf(p)'
    BY <2>1, <2>2 DEF AccountOf
  <2>4. \A r \in Presses : r # p =>
          /\ images'[r] = images[r] /\ putting'[r] = putting[r] /\ linking'[r] = linking[r]
          /\ imageLinkArray'[r] = imageLinkArray[r] /\ items'[r] = items[r]
    BY <1>4 DEF Uploading
  <2> QED
    BY <2>3, <2>4, AccountKept DEF AllAccounted
<1>5. CASE /\ image \in linking[p] /\ UNCHANGED <<images, putting>>
           /\ linking' = [linking EXCEPT ![p] = linking[p] \ {image}]
           /\ LET links == Append(imageLinkArray[p], image)
              IN  /\ imageLinkArray' = [imageLinkArray EXCEPT ![p] = links]
                  /\ IF Len(links) = Cardinality(images[p])
                     THEN items' = [items EXCEPT ![p] = links]
                     ELSE UNCHANGED items
  <2> DEFINE links == Append(imageLinkArray[p], image)
  <2>1. Account(images[p], putting[p], linking[p] \ {image}, links,
                IF Len(links) = Cardinality(images[p]) THEN links ELSE items[p])
    <3>1. PICK I, L, A, s : I = images[p] /\ L = linking[p] /\ A = imageLinkArray[p] /\ s = items[p]
      OBVIOUS
    <3>2. image \in L \cap Pictures
      BY <1>5, <3>1
    <3>3. /\ I \in (SUBSET Pictures) \cup {NotAsked} /\ A \in Seq(Pictures)
          /\ Account(I, putting[p], L, A, s)
      BY <1>1, <1>2, <3>1
    <3>4. Account(I, putting[p], L \ {image}, Append(A, image),
                  IF Len(Append(A, image)) = Cardinality(I) THEN Append(A, image) ELSE s)
      BY <3>2, <3>3, AccountLinked
    <3> QED
      BY <3>1, <3>4
  <2>2. /\ imageLinkArray' = [imageLinkArray EXCEPT ![p] = links]
        /\ IF Len(links) = Cardinality(images[p])
           THEN items' = [items EXCEPT ![p] = links]
           ELSE UNCHANGED items
    BY <1>5
  <2>3. PICK A : A = links
    OBVIOUS
  <2> HIDE DEF links
  <2>4. /\ linking'[p] = linking[p] \ {image} /\ putting'[p] = putting[p]
        /\ images'[p] = images[p] /\ imageLinkArray'[p] = A
        /\ items'[p] = IF Len(A) = Cardinality(images[p]) THEN A ELSE items[p]
    BY <1>5, <2>2, <2>3 DEF Uploading
  <2>5. AccountOf(p)'
    BY <2>1, <2>3, <2>4 DEF AccountOf
  <2>6. \A r \in Presses : r # p =>
          /\ images'[r] = images[r] /\ putting'[r] = putting[r] /\ linking'[r] = linking[r]
          /\ imageLinkArray'[r] = imageLinkArray[r] /\ items'[r] = items[r]
    BY <1>5, <2>2 DEF Uploading
  <2> QED
    BY <2>5, <2>6, AccountKept DEF AllAccounted
<1> QED
  BY <1>3, <1>4, <1>5, AnswerEffect

(* No action loses a picture from an account, or books one twice. *)
LEMMA AccountedStep ==
    ASSUME Picking, Uploading, AllAccounted, Next
    PROVE  AllAccounted'
<1>1. CASE UNCHANGED <<images, putting, linking, imageLinkArray, items>>
  BY <1>1 DEF AllAccounted, AccountOf
<1> QED
  BY <1>1, AccountedDone, AccountedAnswer, OthersEffect

(* What the accounts say, in numbers. *)
LEMMA AccountInNumbers ==
    ASSUME Uploading, AllAccounted
    PROVE  UploadsAccounted
<1> SUFFICES ASSUME NEW p \in Presses
             PROVE  IF images[p] = NotAsked
                    THEN Unfailed(p) = {} /\ items[p] = NotSaved
                    ELSE /\ Unfailed(p) \subseteq images[p]
                         /\ Cardinality(putting[p]) + Cardinality(linking[p])
                               + Len(imageLinkArray[p]) = Cardinality(Unfailed(p))
                         /\ items[p] = IF Range(imageLinkArray[p]) = images[p]
                                       THEN imageLinkArray[p]
                                       ELSE NotSaved
  BY DEF UploadsAccounted
<1> DEFINE P == putting[p]
           L == linking[p]
           E == Entries(imageLinkArray[p])
<1>1. Unfailed(p) = (P \cup L) \cup E /\ Range(imageLinkArray[p]) = E
  BY RangeIsEntries DEF Unfailed
<1>2. Account(images[p], P, L, imageLinkArray[p], items[p])
  BY DEF AllAccounted, AccountOf
<1>3. IsFiniteSet(P) /\ IsFiniteSet(L)
  <2>1. P \in SUBSET Pictures /\ L \in SUBSET Pictures
    BY DEF Uploading
  <2> QED
    BY <2>1, PicturesFinite, FS_Subset
<1>4. IsFiniteSet(E) /\ Cardinality(E) = Len(imageLinkArray[p])
  <2>1. imageLinkArray[p] \in Seq(Pictures) /\ IsInjective(imageLinkArray[p])
    BY <1>2 DEF Account, Uploading
  <2> QED
    BY <2>1, InjectiveLength
<1>5. P \cap L = {} /\ (P \cup L) \cap E = {}
  BY <1>2 DEF Account
<1> HIDE DEF P, L, E
<1>6. IsFiniteSet(P \cup L) /\ Cardinality(P \cup L) = Cardinality(P) + Cardinality(L)
  BY <1>3, <1>5, DisjointUnion
<1>7. Cardinality((P \cup L) \cup E) = Cardinality(P) + Cardinality(L) + Cardinality(E)
  <2>1. Cardinality((P \cup L) \cup E) = Cardinality(P \cup L) + Cardinality(E)
    BY <1>4, <1>5, <1>6, DisjointUnion
  <2>2. Cardinality(P) \in Nat /\ Cardinality(L) \in Nat /\ Cardinality(E) \in Nat
    BY <1>3, <1>4, FS_CardinalityType
  <2> QED
    BY <1>6, <2>1, <2>2
<1>8. IF images[p] = NotAsked
      THEN P \cup L \cup E = {} /\ items[p] = NotSaved
      ELSE /\ P \cup L \cup E \subseteq images[p]
           /\ items[p] = IF E = images[p] THEN imageLinkArray[p] ELSE NotSaved
  BY <1>2 DEF Account, E
<1> QED
  BY <1>1, <1>4, <1>7, <1>8 DEF P, L

(* Storage may answer in any order and leave pictures out: each picture of  *)
(* an item is in one stage or has failed, and the item is saved exactly     *)
(* when every link is there.                                                *)
THEOREM UploadsAreAccounted == Spec => []UploadsAccounted
<1>1. Init => Picking /\ Uploading /\ AllAccounted
  <2>1. Init => Picking
    BY MaxPicksAssumption DEF Init, Picking
  <2>2. Init => Uploading
    BY DEF Init, Uploading
  <2> QED
    BY <2>1, <2>2, AccountedInit
<1>2. Picking /\ Uploading /\ AllAccounted /\ [Next]_vars
        => (Picking /\ Uploading /\ AllAccounted)'
  <2>1. Picking /\ Uploading /\ AllAccounted /\ UNCHANGED vars
          => (Picking /\ Uploading /\ AllAccounted)'
    BY DEF vars, Picking, Uploading, AllAccounted, AccountOf
  <2> QED
    BY <2>1, PickingStep, UploadingStep, AccountedStep
<1>3. Picking /\ Uploading /\ AllAccounted => UploadsAccounted
  BY AccountInNumbers
<1> QED
  BY <1>1, <1>2, <1>3, PTL DEF Spec

-----------------------------------------------------------------------------
(* The gallery.                                                             *)

(* Whatever resolves besides the last pick was late for the camera; while   *)
(* the gallery is open, that holds of all that resolves and of all that is  *)
(* held already, for the next pick is the last one then.                    *)
OnlyLate ==
    /\ resolving \subseteq late \cup {lastPick}
    /\ gallery => /\ resolving \subseteq late
                  /\ \A image \in itemImages : image[1] \in late

(* The gallery and what resolves stay in step. *)
LEMMA OnlyLateStep ==
    ASSUME Picking, Uploading, OnlyLate, PicksInOrder, Next
    PROVE  OnlyLate' /\ PicksInOrder'
<1>1. CASE UNCHANGED <<gallery, picking>>
  BY <1>1 DEF OnlyLate, PicksInOrder
<1>2. CASE Camera
  BY <1>2 DEF Camera, OnlyLate, PicksInOrder
<1>3. CASE Select
  BY <1>3 DEF Select, OnlyLate, PicksInOrder
<1>4. ASSUME NEW k \in Picks, Resolved(k)
      PROVE  OnlyLate' /\ PicksInOrder'
  <2>1. PICK n \in 0..MaxImages : itemImages' = {k} \X (1..n)
    BY <1>4 DEF Resolved
  <2>2. \A image \in itemImages' : image[1] = k
    BY <2>1
  <2>3. /\ k \in resolving /\ resolving' = resolving \ {k}
        /\ UNCHANGED <<gallery, lastPick, late>>
    BY <1>4 DEF Resolved
  <2> QED
    BY <2>2, <2>3 DEF OnlyLate, PicksInOrder
<1>5. CASE CloseGallery
  BY <1>5 DEF CloseGallery, OnlyLate, PicksInOrder
<1>6. ASSUME NEW p \in Presses, NEW image \in Pictures, Answer(p, image)
      PROVE  OnlyLate' /\ PicksInOrder'
  BY <1>1, <1>6, AnswerEffect
<1>7. ASSUME NEW p \in Presses, NEW HasConnection \in BOOLEAN, Done(p, HasConnection)
      PROVE  OnlyLate' /\ PicksInOrder'
  BY <1>1, <1>7, DoneEffect
<1>8. CASE Leave \/ Kill
  BY <1>1, <1>8 DEF Leave, Kill
<1> QED
  BY <1>2, <1>3, <1>4, <1>5, <1>6, <1>7, <1>8 DEF Next

(* The form shows the last selection, although selections may be resolved   *)
(* out of order, except for one that was late for the camera.               *)
THEOREM PicksAreInOrder == Spec => []PicksInOrder
<1> DEFINE IInv == Picking /\ Uploading /\ OnlyLate /\ PicksInOrder
<1>1. Init => IInv
  <2>1. Init => Picking
    BY MaxPicksAssumption DEF Init, Picking
  <2>2. Init => Uploading
    BY DEF Init, Uploading
  <2>3. Init => OnlyLate /\ PicksInOrder
    BY DEF Init, OnlyLate, PicksInOrder
  <2> QED
    BY <2>1, <2>2, <2>3
<1>2. IInv /\ [Next]_vars => IInv'
  <2>1. IInv /\ UNCHANGED vars => IInv'
    BY DEF vars, Picking, Uploading, OnlyLate, PicksInOrder
  <2> QED
    BY <2>1, PickingStep, UploadingStep, OnlyLateStep
<1> QED
  BY <1>1, <1>2, PTL DEF Spec

(* A form leaves from under its gallery only when an item is saved.         *)
LeftBySaving == gallery /\ ~onScreen => \E p \in Presses : items[p] # NotSaved

(* An item that was saved stays saved. *)
LEMMA SavedStays ==
    ASSUME Uploading, AllAccounted, Next, NEW p \in Presses, items[p] # NotSaved
    PROVE  items'[p] # NotSaved
<1>1. ASSUME NEW r \in Presses, NEW image \in Pictures, Answer(r, image)
      PROVE  items'[p] # NotSaved
  <2> DEFINE links == Append(imageLinkArray[r], image)
  <2>1. links # NotSaved
    <3>1. imageLinkArray[r] \in Seq(Pictures)
      BY DEF Uploading
    <3>2. links \in Seq(Pictures)
      BY <3>1, EntriesOf, AppendEntries
    <3> QED
      BY <3>2, NotSavedAssumption
  <2> HIDE DEF links
  <2>2. items' = items \/ items' = [items EXCEPT ![r] = links]
    BY <1>1, AnswerEffect DEF links
  <2> QED
    BY <2>1, <2>2 DEF Uploading
<1>2. ASSUME NEW r \in Presses, NEW HasConnection \in BOOLEAN, Done(r, HasConnection)
      PROVE  items'[p] # NotSaved
  <2>1. <<>> # NotSaved
    <3>1. <<>> \in Seq(Pictures)
      OBVIOUS
    <3> QED
      BY <3>1, NotSavedAssumption
  <2>2. items' = items \/ items' = [items EXCEPT ![r] = <<>>]
    BY <1>2, DoneEffect
  <2> QED
    BY <2>1, <2>2 DEF Uploading
<1> QED
  BY <1>1, <1>2, OthersEffect

(* Only saving takes the form away while the gallery is presented. *)
LEMMA LeftBySavingStep ==
    ASSUME Flags, Uploading, AllAccounted, LeftBySaving, Next
    PROVE  LeftBySaving'
<1> SUFFICES ASSUME gallery', ~onScreen'
             PROVE  \E p \in Presses : items'[p] # NotSaved
  BY DEF LeftBySaving
<1>1. CASE gallery /\ ~onScreen
  BY <1>1, SavedStays DEF LeftBySaving
<1>2. CASE ~gallery \/ onScreen
  <2>1. ASSUME NEW p \in Presses, NEW image \in Pictures, Answer(p, image)
        PROVE  \E r \in Presses : items'[r] # NotSaved
    <3> DEFINE links == Append(imageLinkArray[p], image)
    <3>1. gallery' = gallery /\ (onScreen' = onScreen \/ items' = [items EXCEPT ![p] = links])
      BY <2>1, AnswerEffect
    <3>2. links # NotSaved
      <4>1. imageLinkArray[p] \in Seq(Pictures)
        BY DEF Uploading
      <4>2. links \in Seq(Pictures)
        BY <4>1, AppendEntries
      <4> QED
        BY <4>2, NotSavedAssumption
    <3> HIDE DEF links
    <3>3. items' = [items EXCEPT ![p] = links]
      BY <1>2, <3>1
    <3>4. items'[p] = links
      BY <3>3 DEF Uploading
    <3> QED
      BY <3>2, <3>4
  <2>2. ASSUME NEW p \in Presses, NEW HasConnection \in BOOLEAN, Done(p, HasConnection)
        PROVE  FALSE
    BY <2>2 DEF Done, Usable
  <2>3. ASSUME NEW k \in Picks, Resolved(k)
        PROVE  FALSE
    BY <1>2, <2>3 DEF Resolved
  <2>4. CASE Camera \/ Select \/ CloseGallery \/ Leave \/ Kill
    BY <1>2, <2>4 DEF Camera, Select, CloseGallery, Leave, Kill, Usable
  <2> QED
    BY <2>1, <2>2, <2>3, <2>4 DEF Next
<1> QED
  BY <1>1, <1>2

(* A gallery nobody will answer was left by a form that saved its item.     *)
THEOREM GalleryIsOrphaned == Spec => []GalleryOrphaned
<1> DEFINE IInv == Flags /\ Picking /\ Uploading /\ AllAccounted /\ LeftBySaving
<1>1. Init => IInv
  <2>1. Init => Picking
    BY MaxPicksAssumption DEF Init, Picking
  <2>2. Init => Flags /\ LeftBySaving
    BY DEF Init, Flags, LeftBySaving
  <2>3. Init => Uploading
    BY DEF Init, Uploading
  <2> QED
    BY <2>1, <2>2, <2>3, AccountedInit
<1>2. IInv /\ [Next]_vars => IInv'
  <2>1. IInv /\ UNCHANGED vars => IInv'
    BY DEF vars, Flags, Picking, Uploading, AllAccounted, AccountOf, LeftBySaving
  <2> QED
    BY <2>1, FlagsStep, PickingStep, UploadingStep, AccountedStep, LeftBySavingStep
<1>3. IInv => GalleryOrphaned
  BY DEF LeftBySaving, GalleryOrphaned, Held
<1> QED
  BY <1>1, <1>2, <1>3, PTL DEF Spec

-----------------------------------------------------------------------------
(* The promise.                                                             *)

(* An array with a link to each of the pictures, and no other, is one of    *)
(* their orders.                                                            *)
LEMMA LinksAreAnOrder ==
    ASSUME NEW I \in SUBSET Pictures, NEW A \in Seq(Pictures), IsInjective(A), Entries(A) = I
    PROVE  A \in Promise!SetToSeqs(I)
<1>1. Cardinality(I) = Len(A)
  BY InjectiveLength
<1>2. A \in [1..Len(A) -> I] /\ DOMAIN A = 1..Len(A)
  BY DEF Entries
<1>3. \A i, j \in 1..Len(A) : i # j => A[i] # A[j]
  BY <1>2 DEF IsInjective
<1>4. Promise!Cardinality(I) = Cardinality(I)
  BY DEF Promise!Cardinality, Cardinality, Promise!IsFiniteSet, IsFiniteSet
<1>5. Promise!Cardinality(I) = Len(A)
  BY <1>1, <1>4
<1> QED
  BY <1>2, <1>3, <1>5 DEF Promise!SetToSeqs

(* Done asks for an item. *)
LEMMA DoneAsks ==
    ASSUME Picking, Uploading, AllAccounted,
           NEW p \in Presses, NEW HasConnection \in BOOLEAN, Done(p, HasConnection)
    PROVE  Promise!Ask(p)
<1>1. /\ images[p] = NotAsked /\ images' = [images EXCEPT ![p] = itemImages]
      /\ IF itemImages = {} THEN items' = [items EXCEPT ![p] = <<>>] ELSE items' = items
  BY DoneEffect
<1>2. items[p] = NotSaved
  BY <1>1 DEF AllAccounted, AccountOf, Account
<1>3. items' = [items EXCEPT ![p] = IF itemImages = {} THEN <<>> ELSE NotSaved]
  <2>1. CASE itemImages = {}
    BY <1>1, <2>1
  <2>2. CASE itemImages # {}
    <3>1. items = [items EXCEPT ![p] = NotSaved]
      BY <1>2 DEF Uploading
    <3> QED
      BY <1>1, <2>2, <3>1
  <2> QED
    BY <2>1, <2>2
<1>4. itemImages \in SUBSET Pictures
  BY DEF Picking
<1> QED
  BY <1>1, <1>3, <1>4 DEF Promise!Ask

(* The link that completes an item publishes it; no other answer does. *)
LEMMA AnswerPublishes ==
    ASSUME Uploading, AllAccounted,
           NEW p \in Presses, NEW image \in Pictures, Answer(p, image)
    PROVE  UNCHANGED <<images, items>> \/ Promise!PublishItem(p)
<1> DEFINE links == Append(imageLinkArray[p], image)
<1>1. SUFFICES ASSUME items' # items
               PROVE  Promise!PublishItem(p)
  BY AnswerEffect
<1>2. /\ UNCHANGED images /\ image \in linking[p] /\ Len(links) = Cardinality(images[p])
      /\ items' = [items EXCEPT ![p] = links]
  BY <1>1, AnswerEffect
<1>3. PICK I, L, A, s : I = images[p] /\ L = linking[p] /\ A = imageLinkArray[p] /\ s = items[p]
  OBVIOUS
<1>4. /\ I \in (SUBSET Pictures) \cup {NotAsked} /\ A \in Seq(Pictures)
      /\ Account(I, putting[p], L, A, s) /\ image \in L \cap Pictures
  BY <1>2, <1>3 DEF Uploading, AllAccounted, AccountOf
<1>5. image \in L \cap Pictures
  BY <1>4
<1>6. /\ I \in (SUBSET Pictures) \cup {NotAsked} /\ A \in Seq(Pictures)
      /\ Account(I, putting[p], L, A, s)
  BY <1>4
<1>7. I # NotAsked /\ s = NotSaved
  BY <1>5, <1>6 DEF Account
<1>8. Append(A, image) \in Seq(Pictures) /\ IsInjective(Append(A, image))
  BY <1>5, <1>6, LinksCounted
<1>9. Len(Append(A, image)) = Cardinality(I) <=> Entries(Append(A, image)) = I
  BY <1>5, <1>6, LinksCounted
<1>10. links = Append(A, image)
  BY <1>3
<1> HIDE DEF links
<1>11. I \in SUBSET Pictures /\ links \in Seq(Pictures) /\ IsInjective(links) /\ Entries(links) = I
  BY <1>2, <1>3, <1>6, <1>7, <1>8, <1>9, <1>10
<1>12. links \in Promise!SetToSeqs(images[p])
  BY <1>3, <1>11, LinksAreAnOrder
<1> QED
  BY <1>2, <1>3, <1>7, <1>12 DEF Promise!PublishItem

(* The form keeps its promise: an item is published at most once, and with  *)
(* a link to each of its pictures, whatever Storage answers and when, and   *)
(* whatever else the user does with the form meanwhile.                     *)
THEOREM KeepsPromise == Spec => Publishes
<1> DEFINE IInv == Picking /\ Uploading /\ AllAccounted
<1>1. Init => IInv /\ Promise!Init
  <2>1. Init => Picking
    BY MaxPicksAssumption DEF Init, Picking
  <2>2. Init => Uploading
    BY DEF Init, Uploading
  <2>3. Init => Promise!Init
    BY DEF Init, Promise!Init
  <2> QED
    BY <2>1, <2>2, <2>3, AccountedInit
<1>2. IInv /\ [Next]_vars => IInv'
  <2>1. IInv /\ UNCHANGED vars => IInv'
    BY DEF vars, Picking, Uploading, AllAccounted, AccountOf
  <2> QED
    BY <2>1, PickingStep, UploadingStep, AccountedStep
<1>3. IInv /\ [Next]_vars => [Promise!Next]_Promise!vars
  <2>1. ASSUME IInv, NEW p \in Presses, NEW HasConnection \in BOOLEAN, Done(p, HasConnection)
        PROVE  Promise!Next
    BY <2>1, DoneAsks DEF Promise!Next
  <2>2. ASSUME IInv, NEW p \in Presses, NEW image \in Pictures, Answer(p, image)
        PROVE  Promise!Next \/ UNCHANGED Promise!vars
    BY <2>2, AnswerPublishes DEF Promise!Next, Promise!vars
  <2>3. CASE UNCHANGED <<images, items>>
    BY <2>3 DEF Promise!vars
  <2>4. UNCHANGED vars => UNCHANGED <<images, items>>
    BY DEF vars
  <2> QED
    BY <2>1, <2>2, <2>3, <2>4, OthersEffect
<1> QED
  BY <1>1, <1>2, <1>3, PTL DEF Spec, Publishes, Promise!Spec

=============================================================================
