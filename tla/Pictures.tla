------------------------------ MODULE Pictures ------------------------------
(***************************************************************************)
(* Downloading pictures and showing them.                                  *)
(*                                                                         *)
(* downloadImages starts a serial queue for every link, so the downloads   *)
(* of a call run in parallel threads.  They share downloadCounter and      *)
(* imageArray without a lock: += and append are each a read and a write.   *)
(* A thread that finds as many pictures as downloads begun so far posts    *)
(* the completion to the main queue; one that gets no data runs it itself. *)
(* Either way the array is read when the completion is called, and what    *)
(* was read is put on the screen a step later, with the other threads in   *)
(* between.                                                                *)
(*                                                                         *)
(* The two kinds of caller have nothing in common, so a behaviour is about *)
(* one of them: the screen of an item, which makes one call for all links  *)
(* of the item, or a cell of a table, which makes a call for the first     *)
(* link of each item it is reused for.  Pictures are named by the position *)
(* of their link, the picture of a cell's call by the item.                *)
(***************************************************************************)
EXTENDS Naturals, SequencesExt

CONSTANTS
    Items,       \* items a cell is used for
    Pictured,    \* those with an image link
    NoImage,     \* the nil UIImage, and the nil Item
    MaxLinks,    \* bound: links of the item on the screen
    MaxCalls     \* bound: calls made for a cell

ASSUME PicturedAssumption == Pictured \subseteq Items
ASSUME NoImageAssumption == NoImage \notin Items
ASSUME BoundAssumption == MaxLinks \in Nat \ {0} /\ MaxCalls \in Nat \ {0}

VARIABLES
    client,          \* what the pictures are for, or that the app has ended
    imageUrls,       \* of each call: how many links, 0 before the call
    pc,              \* where each thread of each call is
    downloadCounter, \* of each call
    imageArray,      \* of each call: the pictures, by their links
    counted,         \* the count a thread has read
    copied,          \* the array a thread has read, to append to it or to pass it on
    mainQ,           \* the calls whose completions wait for the main thread
    running,         \* the call whose completion the main thread runs, or 0
    passed,          \* the array it has read for that
    itemImages,      \* ItemViewController.itemImages
    item,            \* the item whose name the cell shows
    image,           \* the item whose picture the cell shows
    wanted,          \* of each call of a cell: the item
    failed,          \* history: the calls with a link that gave no data
    raced,           \* history: two threads met in an access to the same variable
    overtaken,       \* history: the completions under way that have read the array
                     \* before another one changed the screen
    answered         \* history: the calls whose completions ran, in that order

call == <<imageUrls, wanted>>
thread == <<pc, counted, copied>>
shared == <<downloadCounter, imageArray>>
main == <<mainQ, running, passed>>
screen == <<itemImages, item, image>>
outcome == <<screen, overtaken, answered>>
vars == <<client, call, thread, shared, main, outcome, failed, raced>>

Calls == 1..MaxCalls
Links == 1..MaxLinks
Place == {"none", "queued", "counting", "loading", "loaded", "appending",
          "appended", "comparing", "failing", "ended"}

TypeOK ==
    /\ client \in {"screen", "cell", "ended"}
    /\ imageUrls \in [Calls -> 0..MaxLinks]
    /\ pc \in [Calls -> [Links -> Place]]
    /\ downloadCounter \in [Calls -> 0..MaxLinks]
    /\ imageArray \in [Calls -> Seq(Links)]
    /\ counted \in [Calls -> [Links -> 0..MaxLinks]]
    /\ copied \in [Calls -> [Links -> Seq(Links)]]
    /\ mainQ \in Seq(Calls)
    /\ running \in Calls \cup {0} /\ passed \in Seq(Links)
    /\ itemImages \in Seq(Links)
    /\ item \in Items \cup {NoImage}
    /\ image \in Items \cup {NoImage}
    /\ wanted \in [Calls -> Items \cup {NoImage}]
    /\ failed \in SUBSET Calls
    /\ raced \in BOOLEAN /\ overtaken \in SUBSET (Calls \X (Links \cup {0}))
    /\ answered \in Seq(Calls)

Init ==
    /\ client \in {"screen", "cell"}
    /\ imageUrls = [k \in Calls |-> 0]
    /\ pc = [k \in Calls |-> [i \in Links |-> "none"]]
    /\ downloadCounter = [k \in Calls |-> 0]
    /\ imageArray = [k \in Calls |-> <<>>]
    /\ counted = [k \in Calls |-> [i \in Links |-> 0]]
    /\ copied = [k \in Calls |-> [i \in Links |-> <<>>]]
    /\ mainQ = <<>> /\ running = 0 /\ passed = <<>>
    /\ itemImages = <<>>
    /\ item = NoImage /\ image = NoImage
    /\ wanted = [k \in Calls |-> NoImage]
    /\ failed = {} /\ raced = FALSE /\ overtaken = {} /\ answered = <<>>

-----------------------------------------------------------------------------
(* The callers.                                                             *)

\* downloadImages up to its return: a queue for every link.
DownloadImages(k, n, x) ==
    /\ imageUrls' = [imageUrls EXCEPT ![k] = n]
    /\ wanted' = [wanted EXCEPT ![k] = x]
    /\ pc' = [pc EXCEPT ![k] = [i \in Links |-> IF i <= n THEN "queued" ELSE "none"]]

\* viewDidLoad of ItemViewController, for an item with n links.
ScreenLoads(n) ==
    /\ client = "screen" /\ imageUrls[1] = 0
    /\ DownloadImages(1, n, NoImage)
    /\ UNCHANGED <<client, counted, copied, shared, main, outcome, failed, raced>>

\* The latest call made for the cell.
Latest == IF \E k \in Calls : imageUrls[k] > 0
          THEN CHOOSE k \in Calls : imageUrls[k] > 0 /\ \A j \in Calls : imageUrls[j] > 0 => j <= k
          ELSE 0

\* Mutant: a cell that has a picture does not load another one.
GenerateCellOnce(x) ==
    /\ client = "cell" /\ running = 0
    /\ item' = x
    /\ IF x \in Pictured /\ image = NoImage
       THEN Latest < MaxCalls /\ DownloadImages(Latest + 1, 1, x)
       ELSE UNCHANGED <<call, pc>>
    /\ UNCHANGED <<client, counted, copied, shared, main, itemImages, image, failed, raced,
                   overtaken, answered>>

\* generateCell: the text changes at once, the picture when it comes; the
\* picture of the item before stays until then.
GenerateCell(x) ==
    /\ client = "cell" /\ running = 0
    /\ item' = x
    /\ IF x \in Pictured
       THEN Latest < MaxCalls /\ DownloadImages(Latest + 1, 1, x)
       ELSE UNCHANGED <<call, pc>>
    /\ UNCHANGED <<client, counted, copied, shared, main, itemImages, image, failed, raced,
                   overtaken, answered>>

\* The completions that have read the array and not yet set the screen, by call
\* and thread; the main thread is 0.
Passing ==
    {c \in Calls \X Links : pc[c[1]][c[2]] = "failing"}
        \cup (IF running = 0 THEN {} ELSE {<<running, 0>>})

\* Thread a ends one of the two completions with the array that was read: of
\* downloadPictures, which takes no empty list, or of generateCell.
Completion(k, a, images) ==
    /\ itemImages' = IF client = "screen" /\ images # <<>> THEN images ELSE itemImages
    /\ image' = IF client = "screen" THEN image
                ELSE IF images = <<>> THEN NoImage ELSE wanted[k]
    /\ overtaken' = (overtaken \cup (IF itemImages' = itemImages THEN {} ELSE Passing))
                      \ {<<k, a>>}
    /\ answered' = Append(answered, k)
    /\ UNCHANGED item

-----------------------------------------------------------------------------
(* The threads.                                                             *)

Step(k, i, from, to) ==
    /\ client # "ended" /\ pc[k][i] = from
    /\ pc' = [pc EXCEPT ![k][i] = to]

\* Another thread of the call is in the middle of += or append.
Counting(k, i) == \E j \in Links \ {i} : pc[k][j] = "counting"
Appending(k, i) == \E j \in Links \ {i} : pc[k][j] = "appending"

\* downloadCounter += 1
ReadCounter(k, i) ==
    /\ Step(k, i, "queued", "counting")
    /\ counted' = [counted EXCEPT ![k][i] = downloadCounter[k]]
    /\ raced' = (raced \/ Counting(k, i))
    /\ UNCHANGED <<client, call, copied, shared, main, outcome, failed>>

\* Mutants: the counter is raised twice; the new picture comes alone, or
\* first; the count is compared with the array as it was before the append.
WriteCounterTwice(k, i) ==
    /\ Step(k, i, "counting", "loading")
    /\ downloadCounter' = [downloadCounter EXCEPT ![k] = counted[k][i] + 2]
    /\ UNCHANGED <<client, call, counted, copied, imageArray, main, outcome, failed, raced>>
WriteArrayAlone(k, i) ==
    /\ Step(k, i, "appending", "appended")
    /\ imageArray' = [imageArray EXCEPT ![k] = <<i>>]
    /\ UNCHANGED <<client, call, counted, copied, downloadCounter, main, outcome, failed, raced>>
WriteArrayFront(k, i) ==
    /\ Step(k, i, "appending", "appended")
    /\ imageArray' = [imageArray EXCEPT ![k] = <<i>> \o copied[k][i]]
    /\ UNCHANGED <<client, call, counted, copied, downloadCounter, main, outcome, failed, raced>>
CompareBefore(k, i) ==
    /\ Step(k, i, "comparing", "ended")
    /\ mainQ' = IF counted[k][i] = Len(copied[k][i]) THEN Append(mainQ, k) ELSE mainQ
    /\ raced' = (raced \/ Appending(k, i))
    /\ UNCHANGED <<client, call, counted, copied, shared, running, passed, outcome, failed>>

WriteCounter(k, i) ==
    /\ Step(k, i, "counting", "loading")
    /\ downloadCounter' = [downloadCounter EXCEPT ![k] = counted[k][i] + 1]
    /\ UNCHANGED <<client, call, counted, copied, imageArray, main, outcome, failed, raced>>

\* NSData(contentsOf:) has the data.
Loaded(k, i) ==
    /\ Step(k, i, "loading", "loaded")
    /\ UNCHANGED <<client, call, counted, copied, shared, main, outcome, failed, raced>>

\* Mutant: a failure is only printed.
NotLoadedSilent(k, i) ==
    /\ Step(k, i, "loading", "ended")
    /\ raced' = (raced \/ Appending(k, i))
    /\ failed' = failed \cup {k}
    /\ UNCHANGED <<client, call, counted, copied, shared, main, outcome>>

\* There is no data: the completion is called at once, on this thread, which
\* reads the array for it and then sets the screen.
NotLoaded(k, i) ==
    /\ Step(k, i, "loading", "failing")
    /\ copied' = [copied EXCEPT ![k][i] = imageArray[k]]
    /\ raced' = (raced \/ Appending(k, i))
    /\ failed' = failed \cup {k}
    /\ UNCHANGED <<client, call, counted, shared, main, outcome>>
NotLoadedShown(k, i) ==
    /\ Step(k, i, "failing", "ended")
    /\ Completion(k, i, copied[k][i])
    /\ UNCHANGED <<client, call, counted, copied, shared, main, failed, raced>>

\* imageArray.append
ReadArray(k, i) ==
    /\ Step(k, i, "loaded", "appending")
    /\ copied' = [copied EXCEPT ![k][i] = imageArray[k]]
    /\ raced' = (raced \/ Appending(k, i))
    /\ UNCHANGED <<client, call, counted, shared, main, outcome, failed>>
WriteArray(k, i) ==
    /\ Step(k, i, "appending", "appended")
    /\ imageArray' = [imageArray EXCEPT ![k] = Append(copied[k][i], i)]
    /\ UNCHANGED <<client, call, counted, copied, downloadCounter, main, outcome, failed, raced>>

\* downloadCounter == imageArray.count
CompareCounter(k, i) ==
    /\ Step(k, i, "appended", "comparing")
    /\ counted' = [counted EXCEPT ![k][i] = downloadCounter[k]]
    /\ raced' = (raced \/ Counting(k, i))
    /\ UNCHANGED <<client, call, copied, shared, main, outcome, failed>>
CompareCount(k, i) ==
    /\ Step(k, i, "comparing", "ended")
    /\ mainQ' = IF counted[k][i] = Len(imageArray[k]) THEN Append(mainQ, k) ELSE mainQ
    /\ raced' = (raced \/ Appending(k, i))
    /\ UNCHANGED <<client, call, counted, copied, shared, running, passed, outcome, failed>>

\* After a race an append may find the array unusable, and two threads that
\* set the screen at once may break what it shows: the app ends.
Corrupted(k) ==
    /\ client # "ended"
    /\ \/ raced /\ Appending(k, 0)
       \/ Cardinality(Passing) > 1
    /\ client' = "ended"
    /\ UNCHANGED <<call, thread, shared, main, outcome, failed, raced>>

\* The main thread calls the first completion: it reads the array for it, and
\* then sets the screen.
RunMain ==
    /\ client # "ended" /\ running = 0 /\ mainQ # <<>>
    /\ mainQ' = Tail(mainQ)
    /\ running' = Head(mainQ) /\ passed' = imageArray[Head(mainQ)]
    /\ raced' = (raced \/ Appending(Head(mainQ), 0))
    /\ UNCHANGED <<client, call, thread, shared, outcome, failed>>
MainShows ==
    /\ client # "ended" /\ running # 0
    /\ Completion(running, 0, passed)
    /\ running' = 0 /\ passed' = <<>>
    /\ UNCHANGED <<client, call, thread, shared, mainQ, failed, raced>>

Download(k, i) ==
    \/ ReadCounter(k, i) \/ WriteCounter(k, i) \/ Loaded(k, i)
    \/ NotLoaded(k, i) \/ NotLoadedShown(k, i)
    \/ ReadArray(k, i) \/ WriteArray(k, i) \/ CompareCounter(k, i) \/ CompareCount(k, i)

Next ==
    \/ \E n \in Links : ScreenLoads(n)
    \/ \E x \in Items : GenerateCell(x)
    \/ \E k \in Calls : Corrupted(k) \/ \E i \in Links : Download(k, i)
    \/ RunMain \/ MainShows

Spec == Init /\ [][Next]_vars

\* Threads run, NSData returns or gives up, the main thread drains its queue.
Fairness ==
    /\ WF_vars(RunMain \/ MainShows)
    /\ \A k \in Calls, i \in Links : WF_vars(Download(k, i))
FairSpec == Spec /\ Fairness

-----------------------------------------------------------------------------
(* Properties.                                                              *)

\* Every download has ended and every completion has run.
AtRest ==
    /\ client # "ended" /\ mainQ = <<>> /\ running = 0
    /\ \A k \in Calls, i \in Links : pc[k][i] \in {"none", "ended"}

\* As long as no two threads meet, the two counts are right at every moment:
\* the counter has the downloads begun, the array the pictures that came.
CountsAreRight ==
    ~raced => \A k \in Calls :
        /\ downloadCounter[k] =
             Cardinality({i \in Links : pc[k][i] \notin {"none", "queued", "counting"}})
        /\ IsInjective(imageArray[k])
        /\ \A i \in Links : pc[k][i] \in {"appended", "comparing"} => Contains(imageArray[k], i)

\* An item's screen ends with all the pictures that could be downloaded: the
\* comparison of the two counts may be true early and more than once, but it
\* is true after the last picture, unless threads met or one download failed,
\* after which the counts never agree again.
AllPicturesShown ==
    AtRest /\ client = "screen" /\ ~raced /\ failed = {} =>
        Len(itemImages) = imageUrls[1]

\* The pictures on an item's screen neither go away nor change places while
\* more of them come, although completions run early, late and, after a
\* failure, on several threads at once: unless the one that sets the screen has
\* read the array before another one changed it.
PicturesStay ==
    [][raced' \/ IsPrefix(itemImages, itemImages') \/ ~(overtaken \subseteq overtaken')]_vars

\* A call for one link, as cells make it, is answered exactly once.
AnsweredOnce ==
    client = "cell" =>
        /\ IsInjective(answered)
        /\ AtRest => \A k \in Calls : imageUrls[k] > 0 => Contains(answered, k)

\* A reused cell ends with the picture of the item it names, if that item has
\* one: unless it failed, or the picture of an earlier item came after it.
CellShowsItem ==
    /\ AtRest /\ item \in Pictured
    /\ answered # <<>> /\ Last(answered) = Latest /\ Latest \notin failed
    => image = item

\* If threads do not meet and no download fails, all pictures of an item come
\* to its screen.
PicturesArrive ==
    client = "screen" /\ imageUrls[1] > 0 ~>
        raced \/ failed # {} \/ Len(itemImages) = imageUrls[1]

=============================================================================
