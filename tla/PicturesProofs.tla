--------------------------- MODULE PicturesProofs ---------------------------
(* What the downloads of pictures guarantee for any number of links, calls  *)
(* and items.                                                               *)
EXTENDS Pictures, SequenceLemmas

(* Every group of variables that an action leaves alone is seen through.    *)
USE DEF call, thread, shared, main, screen, outcome

-----------------------------------------------------------------------------
(* The invariants.                                                          *)

(* The threads of a call that have raised the counter. *)
Begun(k) == {i \in Links : pc[k][i] \notin {"none", "queued", "counting"}}

(* The threads that have appended. *)
Appended == {"appended", "comparing", "ended"}

(* A call has a thread for each of its links, and has failed if one of them *)
(* is about to say so.                                                      *)
ThreadPerLink ==
    \A k \in Calls, i \in Links : /\ pc[k][i] = "none" <=> i > imageUrls[k]
                                  /\ pc[k][i] = "failing" => k \in failed

(* Whatever the races lose, the counter never runs ahead of the threads.    *)
CounterBehind ==
    \A k \in Calls :
        /\ downloadCounter[k] <= Cardinality(Begun(k))
        /\ \A i \in Links : pc[k][i] = "counting" => counted[k][i] <= Cardinality(Begun(k))

(* Without a race one thread at a time is in +=, and writes one more than   *)
(* there is; one at a time is in append, and nothing that was appended is   *)
(* lost or comes twice.                                                     *)
CounterInTurn(k) ==
    /\ downloadCounter[k] = Cardinality(Begun(k))
    /\ \A i, j \in Links : pc[k][i] = "counting" /\ pc[k][j] = "counting" => i = j
    /\ \A i \in Links : pc[k][i] = "counting" => counted[k][i] = downloadCounter[k]
ArrayInTurn(k) ==
    /\ \A i, j \in Links : pc[k][i] = "appending" /\ pc[k][j] = "appending" => i = j
    /\ \A i \in Links : pc[k][i] = "appending" => copied[k][i] = imageArray[k]
    /\ IsInjective(imageArray[k])
    /\ \A i \in Links : pc[k][i] \in {"appended", "comparing"} => i \in Entries(imageArray[k])
    /\ \A i \in Entries(imageArray[k]) : pc[k][i] \in Appended
    /\ k \notin failed => \A i \in Links : pc[k][i] = "ended" => i \in Entries(imageArray[k])
AllInTurn == ~raced => \A k \in Calls : CounterInTurn(k) /\ ArrayInTurn(k)

(* The screen of an item makes the first call only, and shows some first    *)
(* pictures of its array; what a completion has read for it are first       *)
(* pictures too, at least those shown if it was not overtaken.              *)
Begins(s, t) == Len(s) <= Len(t) /\ \A i \in 1..Len(s) : s[i] = t[i]
Fresh(i, images) ==
    /\ Begins(images, imageArray[1])
    /\ <<1, i>> \notin overtaken => Begins(itemImages, images)
AllFresh ==
    /\ Begins(itemImages, imageArray[1])
    /\ \A i \in Links : pc[1][i] = "failing" => Fresh(i, copied[1][i])
    /\ running # 0 => Fresh(0, passed)
FirstShown ==
    client = "screen" =>
        /\ \A k \in Calls : imageUrls[k] > 0 => k = 1
        /\ Entries(mainQ) \subseteq {1} /\ running \in {0, 1}
        /\ ~raced => AllFresh

(* All pictures being there, a thread is about to see it, a completion is   *)
(* waiting, or they are read or shown.                                      *)
AboutToSee(i) ==
    \/ pc[1][i] = "appended"
    \/ pc[1][i] = "comparing" /\ counted[1][i] = imageUrls[1]
LastShown ==
    client = "screen" /\ ~raced /\ failed = {}
    /\ imageUrls[1] > 0 /\ Len(imageArray[1]) = imageUrls[1]
    => \/ \E i \in Links : AboutToSee(i)
       \/ mainQ # <<>>
       \/ running # 0 /\ passed = imageArray[1]
       \/ running = 0 /\ itemImages = imageArray[1]

(* The one thread of a call of a cell. *)
OneThread(k) ==
    /\ imageUrls[k] <= 1
    /\ pc[k][1] \in {"none", "queued", "counting"} => downloadCounter[k] = 0
    /\ pc[k][1] \in {"loading", "loaded", "appending", "appended"} => downloadCounter[k] = 1
    /\ pc[k][1] = "counting" => counted[k][1] = 0
    /\ pc[k][1] = "comparing" => counted[k][1] = 1
    /\ pc[k][1] \in {"appending", "failing"} => copied[k][1] = <<>>
    /\ pc[k][1] \notin Appended => imageArray[k] = <<>>
    /\ pc[k][1] \in {"appended", "comparing"} => imageArray[k] = <<1>>
    /\ pc[k][1] = "ended" => imageArray[k] = IF k \in failed THEN <<>> ELSE <<1>>
    /\ k \in failed => pc[k][1] \in {"failing", "ended"}
CellCalls == client = "cell" => \A k \in Calls : OneThread(k)

(* A call of a cell that has ended waits for the main thread, is being      *)
(* answered by it, or is answered.                                          *)
AnswersOf(mq, r, an, f, places) ==
    /\ IsInjective(mq) /\ IsInjective(an)
    /\ Entries(mq) \cap Entries(an) = {}
    /\ r \notin Entries(mq) \cup Entries(an) \cup f
    /\ \A k \in Calls : places[k][1] = "ended" <=> k \in Entries(mq) \cup {r} \cup Entries(an)
    /\ Entries(mq) \cap f = {}
CellAnswers == client = "cell" => AnswersOf(mainQ, running, answered, failed, pc)

(* The cell names what the latest call is for, and shows what the last      *)
(* answer brought.                                                          *)
CellShows ==
    /\ client = "screen" => item = NoImage
    /\ client = "cell" =>
        /\ item \in Pictured => Latest \in Calls /\ wanted[Latest] = item
        /\ running # 0 => passed # <<>>
        /\ answered # <<>> =>
              image = IF Last(answered) \in failed THEN NoImage ELSE wanted[Last(answered)]

-----------------------------------------------------------------------------
(* Types.                                                                   *)

(* The types of the calls, of the threads, of what is shown. *)
Calling ==
    /\ client \in {"screen", "cell", "ended"}
    /\ imageUrls \in [Calls -> 0..MaxLinks]
    /\ mainQ \in Seq(Calls)
    /\ running \in Calls \cup {0} /\ passed \in Seq(Links)
    /\ wanted \in [Calls -> Items \cup {NoImage}]
    /\ failed \in SUBSET Calls
    /\ answered \in Seq(Calls)
Threads ==
    /\ pc \in [Calls -> [Links -> Place]]
    /\ downloadCounter \in [Calls -> 0..MaxLinks]
    /\ imageArray \in [Calls -> Seq(Links)]
    /\ counted \in [Calls -> [Links -> 0..MaxLinks]]
    /\ copied \in [Calls -> [Links -> Seq(Links)]]
Shows ==
    /\ itemImages \in Seq(Links)
    /\ item \in Items \cup {NoImage}
    /\ image \in Items \cup {NoImage}
    /\ overtaken \in SUBSET (Calls \X (Links \cup {0}))
Flag == raced \in BOOLEAN

(* Together these are the types of the module. *)
LEMMA TypeParts ==
    /\ TypeOK <=> Calling /\ Threads /\ Shows /\ Flag
    /\ TypeOK' <=> Calling' /\ Threads' /\ Shows' /\ Flag'
  BY DEF Calling, Threads, Shows, Flag, TypeOK

(* There is a first call and a first link, and both are numbers. *)
LEMMA Bounds ==
    /\ MaxLinks \in Nat /\ MaxCalls \in Nat /\ 1 \in Links /\ 1 \in Calls
    /\ Links \subseteq Nat \ {0} /\ Calls \subseteq Nat \ {0}
    /\ IsFiniteSet(Links) /\ Cardinality(Links) = MaxLinks
<1>1. MaxLinks \in Nat \ {0} /\ MaxCalls \in Nat \ {0}
  BY BoundAssumption
<1>2. IsFiniteSet(Links) /\ Cardinality(Links) = MaxLinks
  BY <1>1, FS_Interval DEF Links
<1> QED
  BY <1>1, <1>2 DEF Links, Calls

(* One entry of a table of tables is written. *)
LEMMA Entered ==
    ASSUME NEW A, NEW B, NEW V, NEW f \in [A -> [B -> V]],
           NEW a \in A, NEW b \in B, NEW v \in V
    PROVE  LET g == [f EXCEPT ![a][b] = v]
           IN  /\ g \in [A -> [B -> V]] /\ g[a][b] = v
               /\ \A x \in A, y \in B : x # a \/ y # b => g[x][y] = f[x][y]
  OBVIOUS

(* A step of a thread moves that thread only. *)
LEMMA Moved ==
    ASSUME Threads, NEW k \in Calls, NEW i \in Links, NEW from, NEW to \in Place,
           Step(k, i, from, to)
    PROVE  /\ client # "ended" /\ pc[k][i] = from
           /\ pc' \in [Calls -> [Links -> Place]] /\ pc'[k][i] = to
           /\ \A x \in Calls, y \in Links : x # k \/ y # i => pc'[x][y] = pc[x][y]
  BY Entered DEF Step, Threads

(* The latest call. *)
LatestOf(urls) ==
    IF \E k \in Calls : urls[k] > 0
    THEN CHOOSE k \in Calls : urls[k] > 0 /\ \A j \in Calls : urls[j] > 0 => j <= k
    ELSE 0

(* There is a latest call if there is one. *)
LEMMA LatestIs ==
    ASSUME NEW urls \in [Calls -> 0..MaxLinks]
    PROVE  /\ LatestOf(urls) \in 0..MaxCalls
           /\ LatestOf(urls) # 0 => LatestOf(urls) \in Calls /\ urls[LatestOf(urls)] > 0
           /\ \A j \in Calls : urls[j] > 0 => j <= LatestOf(urls)
<1> DEFINE T == {k \in Calls : urls[k] > 0}
<1>1. CASE T = {}
  BY <1>1, Bounds DEF LatestOf
<1>2. CASE T # {}
  <2>1. PICK k \in T : \A j \in T : j <= k
    <3>1. T \in SUBSET (1..MaxCalls)
      BY DEF Calls
    <3> QED
      BY <1>2, <3>1, Bounds, Greatest
  <2>2. \E k2 \in Calls : urls[k2] > 0 /\ \A j \in Calls : urls[j] > 0 => j <= k2
    BY <2>1
  <2>3. /\ LatestOf(urls) \in Calls /\ urls[LatestOf(urls)] > 0
        /\ \A j \in Calls : urls[j] > 0 => j <= LatestOf(urls)
    BY <2>2 DEF LatestOf
  <2> QED
    BY <2>3, Bounds DEF Calls
<1> QED
  BY <1>1, <1>2

(* A call is made for the first time, or only the name in the cell changes. *)
LEMMA CallerEffect ==
    ASSUME Calling,
           (\E n \in Links : ScreenLoads(n)) \/ (\E x \in Items : GenerateCell(x))
    PROVE  /\ UNCHANGED <<client, counted, copied, shared, main, itemImages, image, failed,
                          raced, overtaken, answered>>
           /\ item' = item \/ item' \in Items
           /\ \/ UNCHANGED <<call, pc>>
              \/ \E k \in Calls, n \in Links, x \in Items \cup {NoImage} :
                    imageUrls[k] = 0 /\ DownloadImages(k, n, x)
<1>1. ASSUME NEW n \in Links, ScreenLoads(n)
      PROVE  /\ UNCHANGED <<client, counted, copied, shared, main, outcome, failed, raced>>
             /\ imageUrls[1] = 0 /\ DownloadImages(1, n, NoImage)
  BY <1>1 DEF ScreenLoads
<1>2. ASSUME NEW x \in Items, GenerateCell(x), ~ UNCHANGED <<call, pc>>
      PROVE  /\ Latest + 1 \in Calls /\ imageUrls[Latest + 1] = 0
             /\ DownloadImages(Latest + 1, 1, x)
  <2>1. Latest < MaxCalls /\ DownloadImages(Latest + 1, 1, x)
    BY <1>2 DEF GenerateCell
  <2>2. /\ Latest \in 0..MaxCalls
        /\ \A j \in Calls : imageUrls[j] > 0 => j <= Latest
    BY LatestIs DEF Latest, LatestOf, Calling
  <2>3. Latest + 1 \in Calls /\ ~ (Latest + 1 <= Latest)
    BY <2>1, <2>2, Bounds DEF Calls
  <2>4. imageUrls[Latest + 1] \in 0..MaxLinks
    BY <2>3 DEF Calling
  <2>5. imageUrls[Latest + 1] = 0
    BY <2>2, <2>3, <2>4, Bounds
  <2> QED
    BY <2>1, <2>3, <2>5
<1>3. ASSUME NEW x \in Items, GenerateCell(x)
      PROVE  /\ UNCHANGED <<client, counted, copied, shared, main, itemImages, image, failed,
                            raced, overtaken, answered>>
             /\ item' \in Items
  BY <1>3 DEF GenerateCell
<1> QED
  BY <1>1, <1>2, <1>3, Bounds

(* A new call has its threads, and no other changes. *)
LEMMA NewCall ==
    ASSUME Calling, Threads, ThreadPerLink,
           NEW k \in Calls, NEW n \in Links, NEW x \in Items \cup {NoImage},
           imageUrls[k] = 0, DownloadImages(k, n, x)
    PROVE  /\ imageUrls' \in [Calls -> 0..MaxLinks] /\ wanted' \in [Calls -> Items \cup {NoImage}]
           /\ pc' \in [Calls -> [Links -> Place]]
           /\ imageUrls'[k] = n /\ wanted'[k] = x
           /\ \A i \in Links : /\ pc[k][i] = "none"
                               /\ pc'[k][i] = IF i <= n THEN "queued" ELSE "none"
           /\ \A l \in Calls : l # k => /\ imageUrls'[l] = imageUrls[l] /\ wanted'[l] = wanted[l]
                                        /\ pc'[l] = pc[l]
<1> DEFINE row == [i \in Links |-> IF i <= n THEN "queued" ELSE "none"]
<1>1. row \in [Links -> Place]
  BY DEF Place
<1>2. /\ imageUrls' = [imageUrls EXCEPT ![k] = n] /\ wanted' = [wanted EXCEPT ![k] = x]
      /\ pc' = [pc EXCEPT ![k] = row]
  BY DEF DownloadImages
<1>3. n \in 0..MaxLinks
  BY Bounds DEF Links
<1>4. \A i \in Links : pc[k][i] = "none"
  BY Bounds DEF ThreadPerLink
<1> HIDE DEF row
<1>5. /\ imageUrls' \in [Calls -> 0..MaxLinks] /\ imageUrls'[k] = n
      /\ \A l \in Calls : l # k => imageUrls'[l] = imageUrls[l]
  BY <1>2, <1>3 DEF Calling
<1>6. /\ wanted' \in [Calls -> Items \cup {NoImage}] /\ wanted'[k] = x
      /\ \A l \in Calls : l # k => wanted'[l] = wanted[l]
  BY <1>2 DEF Calling
<1>7. /\ pc' \in [Calls -> [Links -> Place]] /\ pc'[k] = row
      /\ \A l \in Calls : l # k => pc'[l] = pc[l]
  BY <1>1, <1>2 DEF Threads
<1>8. \A i \in Links : pc'[k][i] = IF i <= n THEN "queued" ELSE "none"
  BY <1>7 DEF row
<1> QED
  BY <1>4, <1>5, <1>6, <1>7, <1>8

(* What a step of thread i of call k does to the places of the threads, to  *)
(* the counts read and to the arrays read.                                  *)
Moves(k, i, from, to) ==
    /\ pc[k][i] = from /\ pc'[k][i] = to
    /\ \A x \in Calls, y \in Links : x # k \/ y # i => pc'[x][y] = pc[x][y]
Reads(k, i, n) ==
    /\ counted'[k][i] = n
    /\ \A x \in Calls, y \in Links : x # k \/ y # i => counted'[x][y] = counted[x][y]
Copies(k, i, q) ==
    /\ copied'[k][i] = q
    /\ \A x \in Calls, y \in Links : x # k \/ y # i => copied'[x][y] = copied[x][y]

(* The nine steps of a thread. *)
LEMMA DownloadEffect ==
    ASSUME Threads, NEW k \in Calls, NEW i \in Links, Download(k, i)
    PROVE  /\ client # "ended" /\ pc' \in [Calls -> [Links -> Place]]
           /\ UNCHANGED <<client, call>>
           /\ \/ /\ Moves(k, i, "queued", "counting")
                 /\ counted' \in [Calls -> [Links -> 0..MaxLinks]] /\ Reads(k, i, downloadCounter[k])
                 /\ raced' = (raced \/ Counting(k, i))
                 /\ UNCHANGED <<copied, shared, main, outcome, failed>>
              \/ /\ Moves(k, i, "counting", "loading")
                 /\ downloadCounter' = [downloadCounter EXCEPT ![k] = counted[k][i] + 1]
                 /\ UNCHANGED <<counted, copied, imageArray, main, outcome, failed, raced>>
              \/ /\ Moves(k, i, "loading", "loaded")
                 /\ UNCHANGED <<counted, copied, shared, main, outcome, failed, raced>>
              \/ /\ Moves(k, i, "loading", "failing")
                 /\ copied' \in [Calls -> [Links -> Seq(Links)]] /\ Copies(k, i, imageArray[k])
                 /\ raced' = (raced \/ Appending(k, i)) /\ failed' = failed \cup {k}
                 /\ UNCHANGED <<counted, shared, main, outcome>>
              \/ /\ Moves(k, i, "failing", "ended") /\ Completion(k, i, copied[k][i])
                 /\ UNCHANGED <<counted, copied, shared, main, failed, raced>>
              \/ /\ Moves(k, i, "loaded", "appending")
                 /\ copied' \in [Calls -> [Links -> Seq(Links)]] /\ Copies(k, i, imageArray[k])
                 /\ raced' = (raced \/ Appending(k, i))
                 /\ UNCHANGED <<counted, shared, main, outcome, failed>>
              \/ /\ Moves(k, i, "appending", "appended")
                 /\ imageArray' = [imageArray EXCEPT ![k] = Append(copied[k][i], i)]
                 /\ UNCHANGED <<counted, copied, downloadCounter, main, outcome, failed, raced>>
              \/ /\ Moves(k, i, "appended", "comparing")
                 /\ counted' \in [Calls -> [Links -> 0..MaxLinks]] /\ Reads(k, i, downloadCounter[k])
                 /\ raced' = (raced \/ Counting(k, i))
                 /\ UNCHANGED <<copied, shared, main, outcome, failed>>
              \/ /\ Moves(k, i, "comparing", "ended")
                 /\ mainQ' = IF counted[k][i] = Len(imageArray[k]) THEN Append(mainQ, k) ELSE mainQ
                 /\ raced' = (raced \/ Appending(k, i))
                 /\ UNCHANGED <<counted, copied, shared, running, passed, outcome, failed>>
<1>1. ASSUME NEW from, NEW to \in Place, Step(k, i, from, to)
      PROVE  /\ client # "ended" /\ pc' \in [Calls -> [Links -> Place]]
             /\ Moves(k, i, from, to)
  BY <1>1, Moved DEF Moves
<1>2. {"counting", "loading", "loaded", "appending", "appended", "comparing", "failing",
       "ended"} \subseteq Place
  BY DEF Place
<1>3. downloadCounter[k] \in 0..MaxLinks /\ imageArray[k] \in Seq(Links)
  BY DEF Threads
<1>4. ASSUME counted' = [counted EXCEPT ![k][i] = downloadCounter[k]]
      PROVE  /\ counted' \in [Calls -> [Links -> 0..MaxLinks]]
             /\ Reads(k, i, downloadCounter[k])
  BY <1>3, <1>4, Entered DEF Threads, Reads
<1>5. ASSUME copied' = [copied EXCEPT ![k][i] = imageArray[k]]
      PROVE  /\ copied' \in [Calls -> [Links -> Seq(Links)]]
             /\ Copies(k, i, imageArray[k])
  BY <1>3, <1>5, Entered DEF Threads, Copies
<1>6. CASE ReadCounter(k, i)
  BY <1>1, <1>2, <1>4, <1>6 DEF ReadCounter
<1>7. CASE WriteCounter(k, i)
  BY <1>1, <1>2, <1>7 DEF WriteCounter
<1>8. CASE Loaded(k, i)
  BY <1>1, <1>2, <1>8 DEF Loaded
<1>9. CASE NotLoaded(k, i)
  BY <1>1, <1>2, <1>5, <1>9 DEF NotLoaded
<1>14. CASE NotLoadedShown(k, i)
  BY <1>1, <1>2, <1>14 DEF NotLoadedShown
<1>10. CASE ReadArray(k, i)
  BY <1>1, <1>2, <1>5, <1>10 DEF ReadArray
<1>11. CASE WriteArray(k, i)
  BY <1>1, <1>2, <1>11 DEF WriteArray
<1>12. CASE CompareCounter(k, i)
  BY <1>1, <1>2, <1>4, <1>12 DEF CompareCounter
<1>13. CASE CompareCount(k, i)
  BY <1>1, <1>2, <1>13 DEF CompareCount
<1> QED
  BY <1>6, <1>7, <1>8, <1>9, <1>10, <1>11, <1>12, <1>13, <1>14 DEF Download

(* The threads that have raised the counter are links. *)
LEMMA BegunFinite ==
    \A k \in Calls : /\ Begun(k) \in SUBSET Links /\ IsFiniteSet(Begun(k))
                     /\ Cardinality(Begun(k)) \in 0..MaxLinks
<1> SUFFICES ASSUME NEW k \in Calls
             PROVE  /\ Begun(k) \in SUBSET Links /\ IsFiniteSet(Begun(k))
                    /\ Cardinality(Begun(k)) \in 0..MaxLinks
  OBVIOUS
<1>1. Begun(k) \in SUBSET Links
  BY DEF Begun
<1>2. IsFiniteSet(Begun(k)) /\ Cardinality(Begun(k)) <= MaxLinks
  BY <1>1, Bounds, FS_Subset
<1>3. Cardinality(Begun(k)) \in Nat
  BY <1>2, FS_CardinalityType
<1> QED
  BY <1>1, <1>2, <1>3, Bounds

(* A thread that writes the counter joins them. *)
LEMMA BegunMoves ==
    ASSUME NEW k \in Calls, NEW i \in Links
    PROVE  /\ Moves(k, i, "counting", "loading") =>
                 /\ Begun(k)' = Begun(k) \cup {i} /\ i \notin Begun(k)
                 /\ \A l \in Calls : l # k => Begun(l)' = Begun(l)
                 /\ Cardinality(Begun(k)') = Cardinality(Begun(k)) + 1
                 /\ Cardinality(Begun(k)') \in 0..MaxLinks
           /\ \/ Moves(k, i, "queued", "counting")
              \/ Moves(k, i, "loading", "loaded")
              \/ Moves(k, i, "loading", "failing") \/ Moves(k, i, "failing", "ended")
              \/ Moves(k, i, "loaded", "appending") \/ Moves(k, i, "appending", "appended")
              \/ Moves(k, i, "appended", "comparing") \/ Moves(k, i, "comparing", "ended")
              => \A l \in Calls : Begun(l)' = Begun(l)
<1>1. ASSUME Moves(k, i, "counting", "loading")
      PROVE  /\ Begun(k)' = Begun(k) \cup {i} /\ i \notin Begun(k)
             /\ \A l \in Calls : l # k => Begun(l)' = Begun(l)
             /\ Cardinality(Begun(k)') = Cardinality(Begun(k)) + 1
             /\ Cardinality(Begun(k)') \in 0..MaxLinks
  <2>1. /\ Begun(k)' = Begun(k) \cup {i} /\ i \notin Begun(k)
        /\ \A l \in Calls : l # k => Begun(l)' = Begun(l)
    BY <1>1 DEF Moves, Begun
  <2>2. Cardinality(Begun(k) \cup {i}) = Cardinality(Begun(k)) + 1 /\ IsFiniteSet(Begun(k) \cup {i})
    BY <2>1, BegunFinite, FS_AddElement
  <2>3. Begun(k) \cup {i} \in SUBSET Links
    BY BegunFinite
  <2>4. Cardinality(Begun(k) \cup {i}) <= MaxLinks
    BY <2>3, Bounds, FS_Subset
  <2>5. Cardinality(Begun(k) \cup {i}) \in Nat
    BY <2>2, FS_CardinalityType
  <2> QED
    BY <2>1, <2>2, <2>4, <2>5, Bounds
<1>2. ASSUME \/ Moves(k, i, "queued", "counting")
             \/ Moves(k, i, "loading", "loaded")
             \/ Moves(k, i, "loading", "failing") \/ Moves(k, i, "failing", "ended")
             \/ Moves(k, i, "loaded", "appending") \/ Moves(k, i, "appending", "appended")
             \/ Moves(k, i, "appended", "comparing") \/ Moves(k, i, "comparing", "ended"),
             NEW l \in Calls
      PROVE  Begun(l)' = Begun(l)
  BY <1>2 DEF Moves, Begun
<1> QED
  BY <1>1, <1>2

(* A call keeps a thread for each of its links. *)
LEMMA ThreadPerLinkStep ==
    ASSUME Calling, Threads, ThreadPerLink, Next
    PROVE  ThreadPerLink'
<1>1. ASSUME NEW k \in Calls, NEW i \in Links, Download(k, i)
      PROVE  ThreadPerLink'
  <2>1. PICK from \in Place \ {"none"}, to \in Place \ {"none"} : Moves(k, i, from, to)
    BY <1>1, DownloadEffect DEF Place
  <2>2. imageUrls' = imageUrls
    BY <1>1, DownloadEffect
  <2>3. \A x \in Calls, y \in Links : pc'[x][y] = "none" <=> pc[x][y] = "none"
    BY <2>1 DEF Moves
  <2>4. ASSUME NEW x \in Calls, NEW y \in Links, pc'[x][y] = "failing"
        PROVE  x \in failed'
    <3>1. failed \subseteq failed'
      BY <1>1, DownloadEffect
    <3>2. CASE pc[x][y] = "failing"
      BY <3>1, <3>2 DEF ThreadPerLink
    <3>3. CASE pc[x][y] # "failing"
      <4>1. x = k /\ y = i /\ pc'[k][i] = "failing" /\ pc[k][i] # "failing"
        BY <2>1, <2>4, <3>3 DEF Moves
      <4>2. failed' = failed \cup {k}
        BY <1>1, <4>1, DownloadEffect DEF Moves
      <4> QED
        BY <4>1, <4>2
    <3> QED
      BY <3>2, <3>3
  <2> QED
    BY <2>2, <2>3, <2>4 DEF ThreadPerLink
<1>2. ASSUME (\E n \in Links : ScreenLoads(n)) \/ (\E x \in Items : GenerateCell(x)),
             ~ UNCHANGED <<call, pc>>
      PROVE  ThreadPerLink'
  <2>1. PICK k \in Calls, n \in Links, x \in Items \cup {NoImage} :
              imageUrls[k] = 0 /\ DownloadImages(k, n, x)
    BY <1>2, CallerEffect
  <2>2. /\ imageUrls'[k] = n
        /\ \A i \in Links : pc'[k][i] = IF i <= n THEN "queued" ELSE "none"
        /\ \A l \in Calls : l # k => imageUrls'[l] = imageUrls[l] /\ pc'[l] = pc[l]
    BY <2>1, NewCall
  <2>3. \A i \in Links : pc'[k][i] = "none" <=> i > n
    BY <2>2, Bounds
  <2>4. /\ UNCHANGED failed
        /\ \A l \in Calls, i \in Links : pc'[l][i] = "failing" => pc[l][i] = "failing"
    BY <1>2, <2>2, CallerEffect
  <2> QED
    BY <2>2, <2>3, <2>4 DEF ThreadPerLink
<1>3. CASE UNCHANGED <<call, pc, failed>>
  BY <1>3 DEF ThreadPerLink
<1>4. CASE RunMain \/ MainShows \/ \E k \in Calls : Corrupted(k)
  BY <1>3, <1>4 DEF RunMain, MainShows, Corrupted
<1>5. ASSUME (\E n \in Links : ScreenLoads(n)) \/ (\E x \in Items : GenerateCell(x))
      PROVE  UNCHANGED failed
  BY <1>5, CallerEffect
<1> QED
  BY <1>1, <1>2, <1>3, <1>4, <1>5 DEF Next

(* A step that neither raises the counter nor lets a thread into += without *)
(* reading it first.                                                        *)
LEMMA CounterKept ==
    ASSUME Threads, CounterBehind, UNCHANGED downloadCounter,
           \A l \in Calls : Begun(l)' = Begun(l),
           \A l \in Calls, j \in Links : pc'[l][j] = "counting" =>
              \/ pc[l][j] = "counting" /\ counted'[l][j] = counted[l][j]
              \/ counted'[l][j] = downloadCounter[l]
    PROVE  CounterBehind'
<1> SUFFICES ASSUME NEW l \in Calls
             PROVE  /\ downloadCounter'[l] <= Cardinality(Begun(l)')
                    /\ \A j \in Links : pc'[l][j] = "counting" =>
                          counted'[l][j] <= Cardinality(Begun(l)')
  BY DEF CounterBehind
<1>1. /\ downloadCounter[l] <= Cardinality(Begun(l)) /\ downloadCounter'[l] = downloadCounter[l]
      /\ \A j \in Links : pc[l][j] = "counting" => counted[l][j] <= Cardinality(Begun(l))
  BY DEF CounterBehind
<1> QED
  BY <1>1

(* Races or not, the counter stays behind the threads: a count that was     *)
(* read is no higher than theirs, and whoever writes joins them.            *)
LEMMA CounterBehindStep ==
    ASSUME Calling, Threads, ThreadPerLink, CounterBehind, Next
    PROVE  CounterBehind' /\ downloadCounter' \in [Calls -> 0..MaxLinks]
<1>1. ASSUME NEW k \in Calls, NEW i \in Links, Moves(k, i, "counting", "loading"),
             downloadCounter' = [downloadCounter EXCEPT ![k] = counted[k][i] + 1],
             UNCHANGED counted
      PROVE  CounterBehind' /\ downloadCounter' \in [Calls -> 0..MaxLinks]
  <2>1. /\ \A l \in Calls : l # k => Begun(l)' = Begun(l)
        /\ Cardinality(Begun(k)') = Cardinality(Begun(k)) + 1
        /\ Cardinality(Begun(k)') \in 0..MaxLinks
    BY <1>1, BegunMoves
  <2>2. /\ Cardinality(Begun(k)) \in 0..MaxLinks /\ counted[k][i] \in 0..MaxLinks
        /\ \A j \in Links : counted[k][j] \in Int
    BY BegunFinite, Bounds DEF Threads
  <2>3. /\ counted[k][i] <= Cardinality(Begun(k))
        /\ \A j \in Links : pc[k][j] = "counting" => counted[k][j] <= Cardinality(Begun(k))
    BY <1>1 DEF CounterBehind, Moves
  <2>4. /\ counted[k][i] + 1 <= Cardinality(Begun(k)') /\ counted[k][i] + 1 \in 0..MaxLinks
        /\ \A j \in Links : pc[k][j] = "counting" => counted[k][j] <= Cardinality(Begun(k)')
    BY <2>1, <2>2, <2>3, Bounds
  <2>5. /\ downloadCounter' \in [Calls -> 0..MaxLinks] /\ downloadCounter'[k] = counted[k][i] + 1
        /\ \A l \in Calls : l # k => downloadCounter'[l] = downloadCounter[l]
    BY <1>1, <2>4 DEF Threads
  <2>6. \A l \in Calls, j \in Links : pc'[l][j] = "counting" => pc[l][j] = "counting"
    BY <1>1 DEF Moves
  <2>7. \A l \in Calls : /\ downloadCounter'[l] <= Cardinality(Begun(l)')
                         /\ \A j \in Links : pc'[l][j] = "counting" =>
                               counted'[l][j] <= Cardinality(Begun(l)')
    <3>1. /\ downloadCounter'[k] <= Cardinality(Begun(k)')
          /\ \A j \in Links : pc'[k][j] = "counting" => counted'[k][j] <= Cardinality(Begun(k)')
      BY <1>1, <2>4, <2>5, <2>6
    <3>2. ASSUME NEW l \in Calls, l # k
          PROVE  /\ downloadCounter'[l] <= Cardinality(Begun(l)')
                 /\ \A j \in Links : pc'[l][j] = "counting" =>
                       counted'[l][j] <= Cardinality(Begun(l)')
      BY <1>1, <2>1, <2>5, <2>6, <3>2 DEF CounterBehind
    <3> QED
      BY <3>1, <3>2
  <2> QED
    BY <2>5, <2>7 DEF CounterBehind
<1>2. ASSUME NEW k \in Calls, NEW i \in Links, Download(k, i),
             ~ (/\ Moves(k, i, "counting", "loading")
                /\ downloadCounter' = [downloadCounter EXCEPT ![k] = counted[k][i] + 1]
                /\ UNCHANGED counted)
      PROVE  CounterBehind' /\ UNCHANGED downloadCounter
  <2>1. UNCHANGED downloadCounter
    BY <1>2, DownloadEffect
  <2>2. \/ /\ Moves(k, i, "queued", "counting") /\ Reads(k, i, downloadCounter[k])
        \/ /\ \/ Moves(k, i, "loading", "loaded")
              \/ Moves(k, i, "loading", "failing") \/ Moves(k, i, "failing", "ended")
              \/ Moves(k, i, "loaded", "appending") \/ Moves(k, i, "appending", "appended")
              \/ Moves(k, i, "comparing", "ended")
           /\ UNCHANGED counted
        \/ /\ Moves(k, i, "appended", "comparing") /\ Reads(k, i, downloadCounter[k])
    BY <1>2, DownloadEffect
  <2>3. \A l \in Calls : Begun(l)' = Begun(l)
    BY <2>2, BegunMoves
  <2>4. ASSUME NEW l \in Calls, NEW j \in Links, pc'[l][j] = "counting"
        PROVE  \/ pc[l][j] = "counting" /\ counted'[l][j] = counted[l][j]
               \/ counted'[l][j] = downloadCounter[l]
    <3>1. CASE l = k /\ j = i
      BY <2>2, <2>4, <3>1 DEF Moves, Reads
    <3>2. CASE l # k \/ j # i
      BY <2>2, <2>4, <3>2 DEF Moves, Reads
    <3> QED
      BY <3>1, <3>2
  <2> QED
    BY <2>1, <2>3, <2>4, CounterKept
<1>3. ASSUME (\E n \in Links : ScreenLoads(n)) \/ (\E x \in Items : GenerateCell(x)),
             ~ UNCHANGED <<call, pc>>
      PROVE  CounterBehind' /\ UNCHANGED downloadCounter
  <2>1. UNCHANGED <<downloadCounter, counted>>
    BY <1>3, CallerEffect
  <2>2. PICK k \in Calls, n \in Links, x \in Items \cup {NoImage} :
              imageUrls[k] = 0 /\ DownloadImages(k, n, x)
    BY <1>3, CallerEffect
  <2>3. /\ \A i \in Links : /\ pc[k][i] = "none"
                            /\ pc'[k][i] = IF i <= n THEN "queued" ELSE "none"
        /\ \A l \in Calls : l # k => pc'[l] = pc[l]
    BY <2>2, NewCall
  <2>4. \A l \in Calls : Begun(l)' = Begun(l)
    BY <2>3 DEF Begun
  <2>5. \A l \in Calls, j \in Links : pc'[l][j] = "counting" => pc[l][j] = "counting"
    BY <2>3
  <2> QED
    BY <2>1, <2>4, <2>5, CounterKept
<1>4. CASE UNCHANGED <<pc, downloadCounter, counted>>
  <2>1. \A l \in Calls : Begun(l)' = Begun(l)
    BY <1>4 DEF Begun
  <2>2. \A l \in Calls, j \in Links : pc'[l][j] = "counting" =>
          \/ pc[l][j] = "counting" /\ counted'[l][j] = counted[l][j]
          \/ counted'[l][j] = downloadCounter[l]
    BY <1>4
  <2>3. UNCHANGED downloadCounter
    BY <1>4
  <2>4. CounterBehind'
    BY <2>1, <2>2, <2>3, CounterKept
  <2> QED
    BY <2>3, <2>4 DEF Threads
<1>5. CASE RunMain \/ MainShows \/ \E k \in Calls : Corrupted(k)
  BY <1>4, <1>5 DEF RunMain, MainShows, Corrupted
<1>6. ASSUME (\E n \in Links : ScreenLoads(n)) \/ (\E x \in Items : GenerateCell(x)),
             UNCHANGED <<call, pc>>
      PROVE  CounterBehind' /\ UNCHANGED downloadCounter
  <2>1. UNCHANGED <<pc, downloadCounter, counted>>
    BY <1>6, CallerEffect
  <2> QED
    BY <1>4, <2>1
<1>7. ASSUME NEW k \in Calls, NEW i \in Links, Download(k, i)
      PROVE  CounterBehind' /\ downloadCounter' \in [Calls -> 0..MaxLinks]
  BY <1>1, <1>2, <1>7 DEF Threads
<1> QED
  BY <1>3, <1>4, <1>5, <1>6, <1>7 DEF Next, Threads, RunMain, MainShows, Corrupted

(* An array only ever takes in the link of the thread that writes it.       *)
LEMMA ThreadsStep ==
    ASSUME Calling, Threads, ThreadPerLink, CounterBehind, Next
    PROVE  Threads'
<1>1. downloadCounter' \in [Calls -> 0..MaxLinks]
  BY CounterBehindStep
<1>2. ASSUME NEW k \in Calls, NEW i \in Links, Download(k, i)
      PROVE  Threads'
  <2>1. /\ pc' \in [Calls -> [Links -> Place]]
        /\ counted' = counted \/ counted' \in [Calls -> [Links -> 0..MaxLinks]]
        /\ copied' = copied \/ copied' \in [Calls -> [Links -> Seq(Links)]]
        /\ \/ imageArray' = imageArray
           \/ imageArray' = [imageArray EXCEPT ![k] = Append(copied[k][i], i)]
    BY <1>2, DownloadEffect
  <2>2. PICK q \in Seq(Links) : q = Append(copied[k][i], i)
    <3>1. copied[k][i] \in Seq(Links)
      BY DEF Threads
    <3> QED
      BY <3>1, AppendEntries
  <2>3. imageArray' \in [Calls -> Seq(Links)]
    BY <2>1, <2>2 DEF Threads
  <2> QED
    BY <1>1, <2>1, <2>3 DEF Threads
<1>3. ASSUME (\E n \in Links : ScreenLoads(n)) \/ (\E x \in Items : GenerateCell(x))
      PROVE  Threads'
  <2>1. UNCHANGED <<counted, copied, imageArray>>
    BY <1>3, CallerEffect
  <2>2. pc' = pc \/ pc' \in [Calls -> [Links -> Place]]
    BY <1>3, CallerEffect, NewCall
  <2> QED
    BY <1>1, <2>1, <2>2 DEF Threads
<1>4. CASE RunMain \/ MainShows \/ \E k \in Calls : Corrupted(k)
  BY <1>4 DEF RunMain, MainShows, Corrupted, Threads
<1> QED
  BY <1>2, <1>3, <1>4 DEF Next

(* The completions under way are of calls, on a thread each. *)
LEMMA PassingType ==
    Calling => Passing \in SUBSET (Calls \X (Links \cup {0}))
  BY DEF Calling, Passing

(* What a completion does: it is an answer, it shows what was read, and      *)
(* overtakes the others under way.                                           *)
LEMMA CompletionEffect ==
    ASSUME Calling, Shows, NEW k \in Calls, NEW a, NEW images \in Seq(Links),
           Completion(k, a, images)
    PROVE  /\ answered' = Append(answered, k) /\ answered' \in Seq(Calls)
           /\ Shows' /\ item' = item
           /\ client = "screen" => image' = image
           /\ client # "screen" => /\ itemImages' = itemImages
                                   /\ image' = IF images = <<>> THEN NoImage ELSE wanted[k]
           /\ client = "screen" /\ images # <<>> => itemImages' = images
           /\ images = <<>> => itemImages' = itemImages
<1>1. /\ itemImages' = IF client = "screen" /\ images # <<>> THEN images ELSE itemImages
      /\ image' = IF client = "screen" THEN image
                  ELSE IF images = <<>> THEN NoImage ELSE wanted[k]
      /\ overtaken' = (overtaken \cup (IF itemImages' = itemImages THEN {} ELSE Passing))
                        \ {<<k, a>>}
      /\ answered' = Append(answered, k) /\ item' = item
  BY DEF Completion
<1>2. wanted[k] \in Items \cup {NoImage} /\ Passing \in SUBSET (Calls \X (Links \cup {0}))
  BY PassingType DEF Calling
<1>3. overtaken' \in SUBSET (Calls \X (Links \cup {0}))
  BY <1>1, <1>2 DEF Shows
<1>4. itemImages' \in Seq(Links) /\ image' \in Items \cup {NoImage}
  BY <1>1, <1>2 DEF Shows
<1>5. Shows'
  BY <1>1, <1>3, <1>4 DEF Shows
<1>6. answered' \in Seq(Calls)
  BY <1>1 DEF Calling
<1> QED
  BY <1>1, <1>5, <1>6

(* The main thread takes the first completion and reads the array. *)
LEMMA MainEffect ==
    ASSUME Calling, Threads, RunMain
    PROVE  /\ client # "ended" /\ mainQ # <<>> /\ running = 0 /\ Head(mainQ) \in Calls
           /\ mainQ' = Tail(mainQ) /\ mainQ' \in Seq(Calls)
           /\ running' = Head(mainQ) /\ passed' = imageArray[running'] /\ passed' \in Seq(Links)
           /\ raced' = (raced \/ Appending(Head(mainQ), 0))
           /\ UNCHANGED <<client, call, thread, shared, outcome, failed>>
<1>1. mainQ # <<>> /\ mainQ' = Tail(mainQ) /\ mainQ \in Seq(Calls)
  BY DEF RunMain, Calling
<1>2. Head(mainQ) \in Calls /\ Tail(mainQ) \in Seq(Calls)
  BY <1>1, TailEntries
<1>3. running' = Head(mainQ) /\ passed' = imageArray[Head(mainQ)]
  BY DEF RunMain
<1>4. passed' \in Seq(Links)
  BY <1>2, <1>3 DEF Threads
<1> QED
  BY <1>1, <1>2, <1>3, <1>4 DEF RunMain

(* The main thread ends it. *)
LEMMA ShowEffect ==
    ASSUME Calling, MainShows
    PROVE  /\ client # "ended" /\ running \in Calls /\ Completion(running, 0, passed)
           /\ passed \in Seq(Links) /\ running' = 0 /\ passed' = <<>>
           /\ UNCHANGED <<client, call, thread, shared, mainQ, failed, raced>>
  BY DEF MainShows, Calling

(* Calls are for items, and answers to calls. *)
LEMMA CallingStep ==
    ASSUME Calling, Threads, Shows, ThreadPerLink, Next
    PROVE  Calling'
<1>1. ASSUME NEW k \in Calls, NEW i \in Links, Download(k, i)
      PROVE  Calling'
  <2>1. /\ UNCHANGED <<client, call, running, passed>>
        /\ failed' = failed \/ failed' = failed \cup {k}
        /\ mainQ' = mainQ \/ mainQ' = Append(mainQ, k)
        /\ answered' = answered \/ Completion(k, i, copied[k][i])
    BY <1>1, DownloadEffect
  <2>2. answered' \in Seq(Calls)
    <3>1. copied[k][i] \in Seq(Links)
      BY DEF Threads
    <3> QED
      BY <2>1, <3>1, CompletionEffect DEF Calling
  <2>3. mainQ' \in Seq(Calls)
    <3>1. mainQ \in Seq(Calls)
      BY DEF Calling
    <3> QED
      BY <2>1, <3>1, AppendEntries
  <2>4. failed' \in SUBSET Calls
    <3>1. failed \in SUBSET Calls
      BY DEF Calling
    <3> QED
      BY <2>1, <3>1
  <2>5. UNCHANGED <<client, imageUrls, wanted, running, passed>>
    BY <2>1
  <2> QED
    BY <2>2, <2>3, <2>4, <2>5 DEF Calling
<1>2. ASSUME (\E n \in Links : ScreenLoads(n)) \/ (\E x \in Items : GenerateCell(x))
      PROVE  Calling'
  <2>1. UNCHANGED <<client, mainQ, running, passed, failed, answered>>
    BY <1>2, CallerEffect
  <2>2. \/ UNCHANGED <<imageUrls, wanted>>
        \/ imageUrls' \in [Calls -> 0..MaxLinks] /\ wanted' \in [Calls -> Items \cup {NoImage}]
    BY <1>2, CallerEffect, NewCall
  <2> QED
    BY <2>1, <2>2 DEF Calling
<1>3. CASE RunMain
  <2>1. /\ mainQ' \in Seq(Calls) /\ running' \in Calls /\ passed' \in Seq(Links)
        /\ UNCHANGED <<client, imageUrls, wanted, failed, answered>>
    BY <1>3, MainEffect
  <2> QED
    BY <2>1 DEF Calling
<1>4. CASE MainShows
  <2>1. /\ answered' \in Seq(Calls) /\ running' = 0 /\ passed' = <<>>
        /\ UNCHANGED <<client, imageUrls, wanted, mainQ, failed>>
    BY <1>4, ShowEffect, CompletionEffect
  <2> QED
    BY <2>1 DEF Calling
<1>5. ASSUME NEW k \in Calls, Corrupted(k)
      PROVE  Calling'
  BY <1>5 DEF Corrupted, Calling
<1> QED
  BY <1>1, <1>2, <1>3, <1>4, <1>5 DEF Next

(* What is shown are items and links. *)
LEMMA ShowsStep ==
    ASSUME Calling, Threads, Shows, Next
    PROVE  Shows'
<1>1. ASSUME NEW k \in Calls, NEW i \in Links, Download(k, i)
      PROVE  Shows'
  <2>1. UNCHANGED outcome \/ Completion(k, i, copied[k][i])
    BY <1>1, DownloadEffect
  <2>2. copied[k][i] \in Seq(Links)
    BY DEF Threads
  <2> QED
    BY <2>1, <2>2, CompletionEffect DEF Shows
<1>2. ASSUME (\E n \in Links : ScreenLoads(n)) \/ (\E x \in Items : GenerateCell(x))
      PROVE  Shows'
  BY <1>2, CallerEffect DEF Shows
<1>3. CASE RunMain
  BY <1>3, MainEffect DEF Shows
<1>4. CASE MainShows
  BY <1>4, ShowEffect, CompletionEffect
<1>5. ASSUME NEW k \in Calls, Corrupted(k)
      PROVE  Shows'
  BY <1>5 DEF Corrupted, Shows
<1> QED
  BY <1>1, <1>2, <1>3, <1>4, <1>5 DEF Next

(* The history of races is a flag. *)
LEMMA FlagStep ==
    ASSUME Calling, Threads, Flag, Next
    PROVE  Flag'
<1>1. ASSUME NEW k \in Calls, NEW i \in Links, Download(k, i)
      PROVE  Flag'
  <2>1. raced' = raced \/ raced' = (raced \/ Counting(k, i)) \/ raced' = (raced \/ Appending(k, i))
    BY <1>1, DownloadEffect
  <2> QED
    BY <2>1 DEF Flag
<1>2. CASE RunMain \/ MainShows
  BY <1>2 DEF RunMain, MainShows, Flag
<1>3. ASSUME (\E n \in Links : ScreenLoads(n)) \/ (\E x \in Items : GenerateCell(x))
      PROVE  Flag'
  BY <1>3, CallerEffect DEF Flag
<1>4. ASSUME NEW k \in Calls, Corrupted(k)
      PROVE  Flag'
  BY <1>4 DEF Corrupted, Flag
<1> QED
  BY <1>1, <1>2, <1>3, <1>4 DEF Next

(* The part of every inductive invariant below that does not depend on      *)
(* races or on who the caller is.                                           *)
Basis == Calling /\ Threads /\ Shows /\ Flag /\ ThreadPerLink /\ CounterBehind

(* Basis holds from the start and is kept by every step. *)
LEMMA BasisInductive ==
    /\ Init => Basis
    /\ Basis /\ [Next]_vars => Basis'
<1>1. Init => Calling
  BY Bounds DEF Init, Calling
<1>2. Init => Threads
  <2>1. 0 \in 0..MaxLinks /\ <<>> \in Seq(Links) /\ "none" \in Place
    BY Bounds DEF Place
  <2> QED
    BY <2>1 DEF Init, Threads
<1>3. Init => Shows
  BY DEF Init, Shows
<1>4. Init => Flag
  BY DEF Init, Flag
<1>5. Init => ThreadPerLink
  BY Bounds DEF Init, ThreadPerLink
<1>6. Init => CounterBehind
  <2> SUFFICES ASSUME Init, NEW k \in Calls
               PROVE  /\ downloadCounter[k] <= Cardinality(Begun(k))
                      /\ \A i \in Links : pc[k][i] = "counting" =>
                            counted[k][i] <= Cardinality(Begun(k))
    BY DEF CounterBehind
  <2>1. Begun(k) = {} /\ downloadCounter[k] = 0 /\ \A i \in Links : pc[k][i] = "none"
    BY DEF Init, Begun
  <2> QED
    BY <2>1, FS_EmptySet
<1>7. Basis /\ Next => Basis'
  BY ThreadsStep, CallingStep, ShowsStep, FlagStep, ThreadPerLinkStep, CounterBehindStep
     DEF Basis
<1>8. Basis /\ UNCHANGED vars => Basis'
  <2> SUFFICES ASSUME Basis, UNCHANGED vars
               PROVE  Basis'
    OBVIOUS
  <2>1. Calling' /\ Threads' /\ Shows' /\ ThreadPerLink'
    BY DEF vars, Basis, Calling, Threads, Shows, ThreadPerLink
  <2>2. \A l \in Calls : Begun(l)' = Begun(l)
    BY DEF vars, Begun
  <2>3. CounterBehind'
    BY <2>2, CounterKept DEF vars, Basis
  <2>4. Flag'
    BY DEF vars, Basis, Flag
  <2> QED
    BY <2>1, <2>3, <2>4 DEF Basis
<1> QED
  BY <1>1, <1>2, <1>3, <1>4, <1>5, <1>6, <1>7, <1>8 DEF Basis

(* Whatever races do to them, the variables hold what they are meant for;   *)
(* the counter in particular is never above the number of links.            *)
THEOREM TypeCorrect == Spec => []TypeOK
<1>1. Basis => TypeOK
  BY TypeParts DEF Basis
<1> QED
  BY <1>1, BasisInductive, PTL DEF Spec

-----------------------------------------------------------------------------
(* The two counts.                                                          *)

(* A call nobody has a hand in keeps its counter and its array in turn. *)
LEMMA InTurnKept ==
    ASSUME NEW l \in Calls, Begun(l)' = Begun(l), downloadCounter'[l] = downloadCounter[l],
           imageArray'[l] = imageArray[l], l \in failed' <=> l \in failed,
           \A y \in Links : /\ pc'[l][y] = pc[l][y] /\ counted'[l][y] = counted[l][y]
                            /\ copied'[l][y] = copied[l][y],
           imageArray[l] \in Seq(Links), CounterInTurn(l), ArrayInTurn(l)
    PROVE  CounterInTurn(l)' /\ ArrayInTurn(l)'
<1>1. CounterInTurn(l)'
  BY DEF CounterInTurn
<1>2. Entries(imageArray[l]) \in SUBSET Links
  BY EntriesOf
<1>3. Entries(imageArray[l])' = Entries(imageArray[l]) /\ IsInjective(imageArray[l])'
  BY DEF ArrayInTurn, Entries, IsInjective
<1>4. ArrayInTurn(l)'
  BY <1>2, <1>3 DEF ArrayInTurn
<1> QED
  BY <1>1, <1>4

(* A step of a thread that has nobody beside it keeps its call in turn: the *)
(* counter.                                                                 *)
LEMMA CounterInTurnStep ==
    ASSUME Basis, NEW k \in Calls, NEW i \in Links, Download(k, i), ~raced, ~raced',
           CounterInTurn(k)
    PROVE  CounterInTurn(k)'
<1>1. CASE /\ Moves(k, i, "queued", "counting") /\ Reads(k, i, downloadCounter[k])
           /\ raced' = (raced \/ Counting(k, i)) /\ UNCHANGED downloadCounter
  <2>1. Begun(k)' = Begun(k)
    BY <1>1, BegunMoves
  <2>2. \A j \in Links : j # i => pc[k][j] # "counting"
    BY <1>1 DEF Counting
  <2>3. \A j \in Links : pc'[k][j] = "counting" => j = i
    BY <1>1, <2>2 DEF Moves
  <2>4. counted'[k][i] = downloadCounter'[k]
    BY <1>1 DEF Reads
  <2> QED
    BY <1>1, <2>1, <2>3, <2>4 DEF CounterInTurn
<1>2. CASE /\ Moves(k, i, "counting", "loading")
           /\ downloadCounter' = [downloadCounter EXCEPT ![k] = counted[k][i] + 1]
  <2>1. Cardinality(Begun(k)') = Cardinality(Begun(k)) + 1
    BY <1>2, BegunMoves
  <2>2. downloadCounter'[k] = counted[k][i] + 1
    BY <1>2 DEF Basis, Threads
  <2>3. counted[k][i] = Cardinality(Begun(k))
    BY <1>2 DEF Moves, CounterInTurn
  <2>4. \A j \in Links : pc'[k][j] # "counting"
    BY <1>2 DEF Moves, CounterInTurn
  <2> QED
    BY <2>1, <2>2, <2>3, <2>4 DEF CounterInTurn
<1>3. CASE /\ \/ Moves(k, i, "loading", "loaded")
              \/ Moves(k, i, "loading", "failing") \/ Moves(k, i, "failing", "ended")
              \/ Moves(k, i, "loaded", "appending") \/ Moves(k, i, "appending", "appended")
              \/ Moves(k, i, "comparing", "ended")
           /\ UNCHANGED <<counted, downloadCounter>>
  <2>1. Begun(k)' = Begun(k)
    BY <1>3, BegunMoves
  <2>2. \A j \in Links : pc'[k][j] = "counting" => pc[k][j] = "counting"
    BY <1>3 DEF Moves
  <2> QED
    BY <1>3, <2>1, <2>2 DEF CounterInTurn
<1>4. CASE /\ Moves(k, i, "appended", "comparing") /\ Reads(k, i, downloadCounter[k])
           /\ UNCHANGED downloadCounter
  <2>1. Begun(k)' = Begun(k)
    BY <1>4, BegunMoves
  <2>2. \A j \in Links : pc'[k][j] = "counting" =>
          pc[k][j] = "counting" /\ counted'[k][j] = counted[k][j]
    BY <1>4 DEF Moves, Reads
  <2> QED
    BY <1>4, <2>1, <2>2 DEF CounterInTurn
<1> QED
  BY <1>1, <1>2, <1>3, <1>4, DownloadEffect DEF Basis

(* A step that neither appends nor ends without having appended keeps the   *)
(* array in turn.                                                           *)
LeavesArray(k) ==
    /\ imageArray'[k] = imageArray[k]
    /\ \A i, j \in Links : pc'[k][i] = "appending" /\ pc'[k][j] = "appending" => i = j
    /\ \A i \in Links : pc'[k][i] = "appending" => copied'[k][i] = imageArray[k]
    /\ \A i \in Links : pc[k][i] \in Appended => pc'[k][i] \in Appended
    /\ \A i \in Links : pc'[k][i] \in {"appended", "comparing"} =>
                       pc[k][i] \in {"appended", "comparing"}
    /\ k \notin failed' => /\ k \notin failed
                           /\ \A i \in Links : pc'[k][i] = "ended" =>
                                              pc[k][i] \in {"comparing", "ended"}

(* Such a step loses nothing. *)
LEMMA ArrayKept ==
    ASSUME NEW k \in Calls, imageArray[k] \in Seq(Links), ArrayInTurn(k), LeavesArray(k)
    PROVE  ArrayInTurn(k)'
<1>1. PICK E \in SUBSET Links : E = Entries(imageArray[k])
  BY EntriesOf
<1>2. Entries(imageArray[k])' = E
  BY <1>1 DEF Entries, LeavesArray
<1>3. IsInjective(imageArray[k])'
  BY DEF IsInjective, ArrayInTurn, LeavesArray
<1>4. /\ \A i \in Links : pc[k][i] \in {"appended", "comparing"} => i \in E
      /\ \A i \in E : pc[k][i] \in Appended
      /\ k \notin failed => \A i \in Links : pc[k][i] = "ended" => i \in E
  BY <1>1 DEF ArrayInTurn
<1>5. /\ \A i \in Links : pc'[k][i] \in {"appended", "comparing"} => i \in E
      /\ \A i \in E : pc'[k][i] \in Appended
  BY <1>4 DEF LeavesArray
<1>6. k \notin failed' => \A i \in Links : pc'[k][i] = "ended" => i \in E
  BY <1>4 DEF LeavesArray
<1>7. \A i \in Links : pc'[k][i] = "appending" => copied'[k][i] = imageArray'[k]
  BY DEF LeavesArray
<1>8. \A i, j \in Links : pc'[k][i] = "appending" /\ pc'[k][j] = "appending" => i = j
  BY DEF LeavesArray
<1> QED
  BY <1>2, <1>3, <1>5, <1>6, <1>7, <1>8 DEF ArrayInTurn

(* The array. *)
LEMMA ArrayInTurnStep ==
    ASSUME Basis, NEW k \in Calls, NEW i \in Links, Download(k, i), ~raced, ~raced',
           ArrayInTurn(k)
    PROVE  ArrayInTurn(k)'
<1>1. imageArray[k] \in Seq(Links)
  BY DEF Basis, Threads
<1>2. /\ \A j, m \in Links : pc[k][j] = "appending" /\ pc[k][m] = "appending" => j = m
      /\ \A j \in Links : pc[k][j] = "appending" => copied[k][j] = imageArray[k]
  BY DEF ArrayInTurn
<1>3. CASE /\ \/ Moves(k, i, "queued", "counting") \/ Moves(k, i, "counting", "loading")
              \/ Moves(k, i, "loading", "loaded") \/ Moves(k, i, "appended", "comparing")
              \/ Moves(k, i, "comparing", "ended")
           /\ UNCHANGED <<copied, imageArray, failed>>
  <2>1. \A j \in Links : /\ pc'[k][j] = "appending" => pc[k][j] = "appending"
                         /\ pc[k][j] \in Appended => pc'[k][j] \in Appended
                         /\ pc'[k][j] \in {"appended", "comparing"} =>
                               pc[k][j] \in {"appended", "comparing"}
                         /\ pc'[k][j] = "ended" => pc[k][j] \in {"comparing", "ended"}
    BY <1>3 DEF Moves, Appended
  <2>2. imageArray'[k] = imageArray[k] /\ UNCHANGED <<copied, failed>>
    BY <1>3
  <2>3. \A j, m \in Links : pc'[k][j] = "appending" /\ pc'[k][m] = "appending" => j = m
    BY <1>2, <2>1
  <2>4. \A j \in Links : pc'[k][j] = "appending" => copied'[k][j] = imageArray[k]
    BY <1>2, <2>1, <2>2
  <2>5. LeavesArray(k)
    BY <2>1, <2>2, <2>3, <2>4 DEF LeavesArray
  <2> QED
    BY <1>1, <2>5, ArrayKept
<1>4. CASE /\ \/ /\ Moves(k, i, "loading", "failing") /\ failed' = failed \cup {k}
                 /\ Copies(k, i, imageArray[k])
              \/ Moves(k, i, "failing", "ended") /\ UNCHANGED <<copied, failed>>
           /\ UNCHANGED imageArray
  <2>1. \A j \in Links : /\ pc'[k][j] = "appending" => pc[k][j] = "appending"
                         /\ pc[k][j] \in Appended => pc'[k][j] \in Appended
                         /\ pc'[k][j] \in {"appended", "comparing"} =>
                               pc[k][j] \in {"appended", "comparing"}
    BY <1>4 DEF Moves, Appended
  <2>2. imageArray'[k] = imageArray[k] /\ k \in failed'
    BY <1>4 DEF Basis, ThreadPerLink, Moves
  <2>3. \A j, m \in Links : pc'[k][j] = "appending" /\ pc'[k][m] = "appending" => j = m
    BY <1>2, <2>1
  <2>4. ASSUME NEW j \in Links, pc'[k][j] = "appending"
        PROVE  copied'[k][j] = imageArray[k]
    <3>1. j # i
      BY <1>4, <2>4 DEF Moves
    <3>2. copied'[k][j] = copied[k][j]
      BY <1>4, <3>1 DEF Copies
    <3> QED
      BY <1>2, <2>1, <2>4, <3>2
  <2>5. LeavesArray(k)
    BY <2>1, <2>2, <2>3, <2>4 DEF LeavesArray
  <2> QED
    BY <1>1, <2>5, ArrayKept
<1>5. CASE /\ Moves(k, i, "loaded", "appending") /\ Copies(k, i, imageArray[k])
           /\ raced' = (raced \/ Appending(k, i)) /\ UNCHANGED <<imageArray, failed>>
  <2>1. \A j \in Links : j # i => pc[k][j] # "appending"
    BY <1>5 DEF Appending
  <2>2. \A j \in Links : pc'[k][j] = "appending" => j = i
    BY <1>5, <2>1 DEF Moves
  <2>3. copied'[k][i] = imageArray[k]
    BY <1>5 DEF Copies
  <2>4. \A j \in Links : /\ pc[k][j] \in Appended => pc'[k][j] \in Appended
                         /\ pc'[k][j] \in {"appended", "comparing"} =>
                               pc[k][j] \in {"appended", "comparing"}
                         /\ pc'[k][j] = "ended" => pc[k][j] \in {"comparing", "ended"}
    BY <1>5 DEF Moves, Appended
  <2>5. imageArray'[k] = imageArray[k] /\ UNCHANGED failed
    BY <1>5
  <2>6. \A j, m \in Links : pc'[k][j] = "appending" /\ pc'[k][m] = "appending" => j = m
    BY <2>2
  <2>7. \A j \in Links : pc'[k][j] = "appending" => copied'[k][j] = imageArray[k]
    BY <2>2, <2>3
  <2>8. LeavesArray(k)
    BY <2>4, <2>5, <2>6, <2>7 DEF LeavesArray
  <2> QED
    BY <1>1, <2>8, ArrayKept
<1>6. CASE /\ Moves(k, i, "appending", "appended")
           /\ imageArray' = [imageArray EXCEPT ![k] = Append(copied[k][i], i)]
           /\ UNCHANGED <<copied, failed>>
  <2>1. PICK q \in Seq(Links) : q = imageArray[k]
    BY <1>1
  <2>2. /\ copied[k][i] = q /\ i \notin Entries(q) /\ IsInjective(q)
        /\ \A j \in Links : pc[k][j] = "appending" => j = i
    BY <1>6, <2>1 DEF Moves, ArrayInTurn, Appended
  <2>3. imageArray'[k] = Append(q, i)
    BY <1>6, <2>2 DEF Basis, Threads
  <2>4. Entries(Append(q, i)) = Entries(q) \cup {i}
    BY EntriesOf
  <2>5. IsInjective(Append(q, i))
    BY <2>2, InjectiveAppend
  <2>6. PICK r : r = Append(q, i)
    OBVIOUS
  <2>7. Entries(imageArray[k])' = Entries(q) \cup {i} /\ IsInjective(imageArray[k])'
    BY <2>3, <2>4, <2>5, <2>6
  <2>8. /\ \A j \in Links : pc'[k][j] # "appending"
        /\ \A j \in Links : j # i => pc'[k][j] = pc[k][j]
        /\ pc'[k][i] = "appended"
    BY <1>6, <2>2 DEF Moves
  <2> QED
    BY <1>6, <2>1, <2>7, <2>8, EntriesOf DEF ArrayInTurn, Appended
<1> QED
  BY <1>3, <1>4, <1>5, <1>6, DownloadEffect DEF Basis

(* Whoever is not disturbed keeps all calls in turn. *)
LEMMA InTurnStep ==
    ASSUME Basis, AllInTurn, [Next]_vars
    PROVE  AllInTurn'
<1> SUFFICES ASSUME ~raced', NEW l \in Calls
             PROVE  CounterInTurn(l)' /\ ArrayInTurn(l)'
  BY DEF AllInTurn
<1>1. ~raced
  <2>1. ASSUME NEW k \in Calls, NEW i \in Links, Download(k, i)
        PROVE  raced => raced'
    BY <2>1, DownloadEffect DEF Basis
  <2>2. ASSUME (\E n \in Links : ScreenLoads(n)) \/ (\E x \in Items : GenerateCell(x))
        PROVE  raced => raced'
    BY <2>2, CallerEffect DEF Basis
  <2>3. CASE RunMain \/ MainShows \/ (\E k \in Calls : Corrupted(k)) \/ UNCHANGED vars
    BY <2>3 DEF RunMain, MainShows, Corrupted, vars
  <2> QED
    BY <2>1, <2>2, <2>3 DEF Next
<1>2. CounterInTurn(l) /\ ArrayInTurn(l) /\ imageArray[l] \in Seq(Links)
  BY <1>1 DEF AllInTurn, Basis, Threads
<1>3. ASSUME NEW k \in Calls, NEW i \in Links, Download(k, i)
      PROVE  CounterInTurn(l)' /\ ArrayInTurn(l)'
  <2>1. CASE l = k
    BY <1>1, <1>2, <1>3, <2>1, CounterInTurnStep, ArrayInTurnStep
  <2>2. CASE l # k
    <3>1. Begun(l)' = Begun(l)
      BY <1>3, <2>2, DownloadEffect, BegunMoves DEF Basis
    <3>2. /\ downloadCounter'[l] = downloadCounter[l] /\ imageArray'[l] = imageArray[l]
          /\ l \in failed' <=> l \in failed
      <4>1. /\ \/ UNCHANGED downloadCounter
               \/ downloadCounter' = [downloadCounter EXCEPT ![k] = counted[k][i] + 1]
            /\ \/ UNCHANGED imageArray
               \/ imageArray' = [imageArray EXCEPT ![k] = Append(copied[k][i], i)]
            /\ UNCHANGED failed \/ failed' = failed \cup {k}
        BY <1>3, DownloadEffect DEF Basis
      <4> QED
        BY <2>2, <4>1 DEF Basis, Threads
    <3>3. \A y \in Links : pc'[l][y] = pc[l][y]
      BY <1>3, <2>2, DownloadEffect DEF Basis, Moves
    <3>4. \A y \in Links : counted'[l][y] = counted[l][y]
      <4>1. UNCHANGED counted \/ \E n : Reads(k, i, n)
        BY <1>3, DownloadEffect DEF Basis
      <4> QED
        BY <2>2, <4>1 DEF Reads
    <3>5. \A y \in Links : copied'[l][y] = copied[l][y]
      <4>1. UNCHANGED copied \/ \E q : Copies(k, i, q)
        BY <1>3, DownloadEffect DEF Basis
      <4> QED
        BY <2>2, <4>1 DEF Copies
    <3> QED
      BY <1>2, <3>1, <3>2, <3>3, <3>4, <3>5, InTurnKept
  <2> QED
    BY <2>1, <2>2
<1>4. ASSUME (\E n \in Links : ScreenLoads(n)) \/ (\E x \in Items : GenerateCell(x)),
             ~ UNCHANGED <<call, pc>>
      PROVE  CounterInTurn(l)' /\ ArrayInTurn(l)'
  <2>1. PICK k \in Calls, n \in Links, x \in Items \cup {NoImage} :
              imageUrls[k] = 0 /\ DownloadImages(k, n, x)
    BY <1>4, CallerEffect DEF Basis
  <2>2. UNCHANGED <<downloadCounter, imageArray, failed, counted, copied>>
    BY <1>4, CallerEffect DEF Basis
  <2>3. /\ \A y \in Links : /\ pc[k][y] = "none"
                            /\ pc'[k][y] = IF y <= n THEN "queued" ELSE "none"
        /\ \A m \in Calls : m # k => pc'[m] = pc[m]
    BY <2>1, NewCall DEF Basis
  <2>4. Begun(l)' = Begun(l)
    BY <2>3 DEF Begun
  <2>5. CASE l # k
    BY <1>2, <2>2, <2>3, <2>4, <2>5, InTurnKept
  <2>6. CASE l = k
    <3>1. Entries(imageArray[l]) \in SUBSET Links
      BY <1>2, EntriesOf
    <3>2. Entries(imageArray[l]) = {}
      BY <1>2, <2>3, <2>6, <3>1 DEF ArrayInTurn, Appended
    <3>3. Entries(imageArray[l])' = Entries(imageArray[l]) /\ IsInjective(imageArray[l])'
      BY <1>2, <2>2 DEF ArrayInTurn, Entries, IsInjective
    <3>4. \A y \in Links : pc'[l][y] \in {"queued", "none"}
      BY <2>3, <2>6
    <3>5. CounterInTurn(l)'
      BY <1>2, <2>2, <2>4, <3>4 DEF CounterInTurn
    <3>6. ArrayInTurn(l)'
      BY <3>2, <3>3, <3>4 DEF ArrayInTurn
    <3> QED
      BY <3>5, <3>6
  <2> QED
    BY <2>5, <2>6
<1>5. CASE UNCHANGED <<pc, counted, copied, shared, failed>>
  <2>1. Begun(l)' = Begun(l)
    BY <1>5 DEF Begun
  <2> QED
    BY <1>2, <1>5, <2>1, InTurnKept
<1>6. ASSUME (\E n \in Links : ScreenLoads(n)) \/ (\E x \in Items : GenerateCell(x)),
             UNCHANGED <<call, pc>>
      PROVE  UNCHANGED <<pc, counted, copied, shared, failed>>
  BY <1>6, CallerEffect DEF Basis
<1>7. CASE RunMain \/ MainShows \/ (\E k \in Calls : Corrupted(k)) \/ UNCHANGED vars
  BY <1>5, <1>7 DEF RunMain, MainShows, Corrupted, vars
<1> QED
  BY <1>3, <1>4, <1>5, <1>6, <1>7 DEF Next

(* Before the first call all are. *)
LEMMA InTurnInit == Init => AllInTurn
<1> SUFFICES ASSUME Init, NEW k \in Calls
             PROVE  CounterInTurn(k) /\ ArrayInTurn(k)
  BY DEF AllInTurn
<1>1. /\ downloadCounter[k] = 0 /\ imageArray[k] = <<>>
      /\ \A i \in Links : pc[k][i] = "none"
  BY DEF Init
<1>2. Begun(k) = {} /\ Entries(imageArray[k]) = {} /\ IsInjective(imageArray[k])
  BY <1>1 DEF Begun, Entries, IsInjective
<1> QED
  BY <1>1, <1>2, FS_EmptySet DEF CounterInTurn, ArrayInTurn

(* As long as no two threads meet, the counter counts the downloads begun   *)
(* and the array has the pictures that came, each of them once.             *)
THEOREM CountsRight == Spec => []CountsAreRight
<1>1. Basis /\ AllInTurn => CountsAreRight
  <2> SUFFICES ASSUME Basis, AllInTurn, ~raced, NEW k \in Calls
               PROVE  /\ downloadCounter[k] =
                           Cardinality({i \in Links : pc[k][i] \notin {"none", "queued", "counting"}})
                      /\ IsInjective(imageArray[k])
                      /\ \A i \in Links : pc[k][i] \in {"appended", "comparing"} =>
                            Contains(imageArray[k], i)
    BY DEF CountsAreRight
  <2>1. CounterInTurn(k) /\ ArrayInTurn(k) /\ imageArray[k] \in Seq(Links)
    BY DEF AllInTurn, Basis, Threads
  <2>2. DOMAIN imageArray[k] = 1..Len(imageArray[k])
    BY <2>1
  <2> QED
    BY <2>1, <2>2 DEF CounterInTurn, ArrayInTurn, Begun, Entries, Contains
<1> QED
  BY <1>1, BasisInductive, InTurnInit, InTurnStep, PTL DEF Spec

-----------------------------------------------------------------------------
(* The screen of an item.                                                   *)

(* First pictures of an array stay first when more come, and are a prefix.  *)
LEMMA BeginsGrows ==
    ASSUME NEW S, NEW s \in Seq(S), NEW t \in Seq(S)
    PROVE  /\ Begins(s, s) /\ Begins(<<>>, s)
           /\ Begins(s, t) => IsPrefix(s, t) /\ \A e \in S : Begins(s, Append(t, e))
<1>1. Len(s) \in Nat /\ Len(t) \in Nat
  OBVIOUS
<1>2. Begins(s, s) /\ Begins(<<>>, s)
  BY <1>1 DEF Begins
<1>3. ASSUME Begins(s, t)
      PROVE  IsPrefix(s, t)
  <2>1. Len(s) <= Len(t) /\ \A i \in 1..Len(s) : s[i] = t[i]
    BY <1>3 DEF Begins
  <2>2. SubSeq(s, 1, Len(s)) = SubSeq(t, 1, Len(s))
    BY <1>1, <2>1
  <2> QED
    BY <2>1, <2>2 DEF IsPrefix
<1>4. ASSUME Begins(s, t), NEW e \in S
      PROVE  Begins(s, Append(t, e))
  BY <1>1, <1>4 DEF Begins
<1> QED
  BY <1>2, <1>3, <1>4

(* A thread belongs to a call that was made, on the screen the first. *)
LEMMA ScreenThread ==
    ASSUME Basis, FirstShown, client = "screen",
           NEW k \in Calls, NEW i \in Links, Download(k, i)
    PROVE  k = 1
<1>1. pc[k][i] # "none"
  BY DownloadEffect DEF Basis, Moves
<1>2. imageUrls[k] \in 0..MaxLinks /\ i \in Nat \ {0}
  BY Bounds DEF Basis, Calling
<1>3. imageUrls[k] > 0
  BY <1>1, <1>2 DEF Basis, ThreadPerLink
<1> QED
  BY <1>3 DEF FirstShown

(* The completions on the screen are of the first call. *)
LEMMA ScreenCompletion ==
    ASSUME Basis, FirstShown, client = "screen", RunMain
    PROVE  running' = 1 /\ Entries(mainQ') \subseteq {1}
<1>1. PICK q \in Seq(Calls) : q = mainQ
  BY DEF Basis, Calling
<1>2. q # <<>> /\ mainQ' = Tail(q) /\ Entries(q) \subseteq {1}
  BY <1>1 DEF RunMain, FirstShown
<1>3. Entries(q) = Entries(Tail(q)) \cup {Head(q)}
  BY <1>2, EntriesOf
<1> QED
  BY <1>1, <1>2, <1>3 DEF RunMain

(* A completion on the screen shows first pictures.  It takes none away     *)
(* unless it was overtaken, and those it does not overtake see no change.   *)
LEMMA CompletionFresh ==
    ASSUME Basis, client = "screen", AllFresh, NEW a, <<1, a>> \in Passing,
           NEW images \in Seq(Links), Fresh(a, images), Completion(1, a, images)
    PROVE  /\ Begins(itemImages', imageArray[1])
           /\ IsPrefix(itemImages, itemImages') \/ <<1, a>> \in overtaken
           /\ <<1, a>> \notin overtaken'
           /\ \A c \in Passing : c # <<1, a>> /\ c \notin overtaken' =>
                                   itemImages' = itemImages /\ c \notin overtaken
<1>1. imageArray[1] \in Seq(Links) /\ itemImages \in Seq(Links)
  BY Bounds DEF Basis, Threads, Shows
<1>2. /\ itemImages' = images \/ itemImages' = itemImages
      /\ overtaken' = (overtaken \cup (IF itemImages' = itemImages THEN {} ELSE Passing))
                        \ {<<1, a>>}
  BY DEF Completion
<1>3. /\ Begins(itemImages, imageArray[1]) /\ Begins(images, imageArray[1])
      /\ <<1, a>> \notin overtaken => Begins(itemImages, images)
  BY DEF AllFresh, Fresh
<1>4. IsPrefix(itemImages, itemImages') \/ <<1, a>> \in overtaken
  BY <1>1, <1>2, <1>3, BeginsGrows
<1> QED
  BY <1>2, <1>3, <1>4

(* A step that shows nothing keeps what has been read fresh: more pictures  *)
(* may come, a thread that fails reads them all.                            *)
LEMMA FreshKept ==
    ASSUME Basis, AllFresh, NEW t \in Seq(Links), imageArray'[1] = t, Begins(imageArray[1], t),
           UNCHANGED <<itemImages, overtaken>>,
           \A i \in Links : pc'[1][i] = "failing" =>
              \/ pc[1][i] = "failing" /\ copied'[1][i] = copied[1][i]
              \/ copied'[1][i] = imageArray[1],
           running' # 0 => \/ running # 0 /\ passed' = passed
                           \/ passed' = imageArray[1]
    PROVE  AllFresh'
<1>1. PICK s \in Seq(Links) : s = imageArray[1]
  BY Bounds DEF Basis, Threads
<1>2. /\ itemImages \in Seq(Links) /\ passed \in Seq(Links)
      /\ \A i \in Links : copied[1][i] \in Seq(Links)
  BY Bounds DEF Basis, Threads, Shows, Calling
<1>3. ASSUME NEW q \in Seq(Links), Begins(q, s)
      PROVE  Begins(q, t)
  BY <1>1, <1>3 DEF Begins
<1>4. Begins(itemImages, s) /\ Begins(s, s) /\ Begins(s, t)
  BY <1>1, BeginsGrows DEF AllFresh
<1>5. Begins(itemImages', imageArray'[1])
  BY <1>2, <1>3, <1>4
<1>6. ASSUME NEW i, NEW q \in Seq(Links), Fresh(i, q)
      PROVE  Fresh(i, q)'
  BY <1>1, <1>3, <1>6 DEF Fresh
<1>7. \A i : Fresh(i, s)
  BY <1>1, <1>4 DEF Fresh
<1>8. ASSUME NEW i \in Links, pc'[1][i] = "failing"
      PROVE  Fresh(i, copied[1][i])'
  <2>1. PICK q \in Seq(Links) : q = copied'[1][i]
    BY <1>1, <1>2, <1>8
  <2>2. Fresh(i, q)
    BY <1>1, <1>7, <1>8, <2>1 DEF AllFresh
  <2>3. Fresh(i, q)'
    BY <1>6, <2>2
  <2> QED
    BY <2>1, <2>3 DEF Fresh
<1>9. ASSUME running' # 0
      PROVE  Fresh(0, passed)'
  <2>1. PICK q \in Seq(Links) : q = passed'
    BY <1>1, <1>2, <1>9
  <2>2. Fresh(0, q)
    BY <1>1, <1>7, <1>9, <2>1 DEF AllFresh
  <2>3. Fresh(0, q)'
    BY <1>6, <2>2
  <2> QED
    BY <2>1, <2>3 DEF Fresh
<1> QED
  BY <1>5, <1>8, <1>9 DEF AllFresh

(* A completion leaves the others fresh, or overtaken.                      *)
LEMMA FreshShown ==
    ASSUME Basis, client = "screen", AllFresh, NEW a, <<1, a>> \in Passing,
           NEW images \in Seq(Links), Fresh(a, images), Completion(1, a, images),
           UNCHANGED imageArray,
           \A i \in Links : pc'[1][i] = "failing" =>
              i # a /\ pc[1][i] = "failing" /\ copied'[1][i] = copied[1][i],
           running' # 0 => a # 0 /\ running = 1 /\ passed' = passed
    PROVE  AllFresh'
<1>1. /\ Begins(itemImages', imageArray[1])
      /\ \A c \in Passing : c # <<1, a>> /\ c \notin overtaken' =>
                              itemImages' = itemImages /\ c \notin overtaken
  BY CompletionFresh
<1>2. ASSUME NEW i, i # a, <<1, i>> \in Passing, NEW q, Fresh(i, q)
      PROVE  Fresh(i, q)'
  <2>1. <<1, i>> # <<1, a>>
    BY <1>2
  <2>2. <<1, i>> \notin overtaken' => itemImages' = itemImages /\ <<1, i>> \notin overtaken
    BY <1>1, <1>2, <2>1
  <2> QED
    BY <1>2, <2>2 DEF Fresh
<1>3. ASSUME NEW i \in Links, pc'[1][i] = "failing"
      PROVE  Fresh(i, copied[1][i])'
  <2>1. PICK q : q = copied'[1][i]
    OBVIOUS
  <2>2. i # a /\ Fresh(i, q) /\ <<1, i>> \in Passing
    BY <1>3, <2>1, Bounds DEF AllFresh, Passing
  <2>3. Fresh(i, q)'
    BY <1>2, <2>2
  <2> QED
    BY <2>1, <2>3 DEF Fresh
<1>4. ASSUME running' # 0
      PROVE  Fresh(0, passed)'
  <2>1. PICK q : q = passed'
    OBVIOUS
  <2>2. 0 # a /\ Fresh(0, q) /\ <<1, 0>> \in Passing
    BY <1>4, <2>1 DEF AllFresh, Passing
  <2>3. Fresh(0, q)'
    BY <1>2, <2>2
  <2> QED
    BY <2>1, <2>3 DEF Fresh
<1> QED
  BY <1>1, <1>3, <1>4 DEF AllFresh

(* What is shown of the first call stays fresh through its threads' steps.  *)
LEMMA FreshDownload ==
    ASSUME Basis, ArrayInTurn(1), AllFresh, client = "screen", running \in {0, 1},
           NEW i \in Links, Download(1, i)
    PROVE  /\ AllFresh'
           /\ \/ UNCHANGED <<itemImages, overtaken>>
              \/ IsPrefix(itemImages, itemImages')
              \/ ~ (overtaken \subseteq overtaken')
<1>1. imageArray[1] \in Seq(Links) /\ itemImages \in Seq(Links) /\ 1 \in Calls
  BY Bounds DEF Basis, Threads, Shows
<1>2. Begins(imageArray[1], imageArray[1])
  BY <1>1, BeginsGrows
<1>3. CASE /\ \/ Moves(1, i, "queued", "counting") \/ Moves(1, i, "counting", "loading")
              \/ Moves(1, i, "loading", "loaded") \/ Moves(1, i, "appended", "comparing")
              \/ Moves(1, i, "comparing", "ended")
           /\ UNCHANGED <<copied, imageArray, running, passed, outcome>>
  <2>1. \A j \in Links : pc'[1][j] = "failing" =>
          pc[1][j] = "failing" /\ copied'[1][j] = copied[1][j]
    BY <1>1, <1>3 DEF Moves
  <2>2. UNCHANGED <<imageArray, running, passed, itemImages, overtaken>>
    BY <1>3
  <2> QED
    BY <1>1, <1>2, <2>1, <2>2, FreshKept
<1>4. CASE /\ Moves(1, i, "loading", "failing") /\ Copies(1, i, imageArray[1])
           /\ UNCHANGED <<imageArray, running, passed, outcome>>
  <2>1. ASSUME NEW j \in Links, pc'[1][j] = "failing"
        PROVE  \/ pc[1][j] = "failing" /\ copied'[1][j] = copied[1][j]
               \/ copied'[1][j] = imageArray[1]
    BY <1>1, <1>4, <2>1 DEF Moves, Copies
  <2>2. UNCHANGED <<imageArray, running, passed, itemImages, overtaken>>
    BY <1>4
  <2> QED
    BY <1>1, <1>2, <2>1, <2>2, FreshKept
<1>5. CASE /\ Moves(1, i, "loaded", "appending") /\ Copies(1, i, imageArray[1])
           /\ UNCHANGED <<imageArray, running, passed, outcome>>
  <2>1. ASSUME NEW j \in Links, pc'[1][j] = "failing"
        PROVE  pc[1][j] = "failing" /\ copied'[1][j] = copied[1][j]
    BY <1>1, <1>5, <2>1 DEF Moves, Copies
  <2>2. UNCHANGED <<imageArray, running, passed, itemImages, overtaken>>
    BY <1>5
  <2> QED
    BY <1>1, <1>2, <2>1, <2>2, FreshKept
<1>6. CASE /\ Moves(1, i, "appending", "appended")
           /\ imageArray' = [imageArray EXCEPT ![1] = Append(copied[1][i], i)]
           /\ UNCHANGED <<copied, running, passed, outcome>>
  <2>1. PICK t \in Seq(Links) : t = Append(imageArray[1], i)
    BY <1>1, AppendEntries
  <2>2. copied[1][i] = imageArray[1]
    BY <1>6 DEF ArrayInTurn, Moves
  <2>3. imageArray'[1] = t
    BY <1>1, <1>6, <2>1, <2>2 DEF Basis, Threads
  <2>4. Begins(imageArray[1], t)
    BY <1>1, <1>2, <2>1, BeginsGrows
  <2>5. \A j \in Links : pc'[1][j] = "failing" =>
          pc[1][j] = "failing" /\ copied'[1][j] = copied[1][j]
    BY <1>1, <1>6 DEF Moves
  <2>6. UNCHANGED <<running, passed, itemImages, overtaken>>
    BY <1>6
  <2> QED
    BY <2>3, <2>4, <2>5, <2>6, FreshKept
<1>7. CASE /\ Moves(1, i, "failing", "ended") /\ Completion(1, i, copied[1][i])
           /\ UNCHANGED <<copied, imageArray, running, passed>>
  <2>1. PICK q \in Seq(Links) : q = copied[1][i]
    BY <1>1 DEF Basis, Threads
  <2>2. Fresh(i, q) /\ <<1, i>> \in Passing /\ Completion(1, i, q)
    BY <1>1, <1>7, <2>1 DEF AllFresh, Moves, Passing
  <2>3. \A j \in Links : pc'[1][j] = "failing" =>
          j # i /\ pc[1][j] = "failing" /\ copied'[1][j] = copied[1][j]
    BY <1>1, <1>7 DEF Moves
  <2>4. i # 0
    BY Bounds
  <2>5. AllFresh'
    BY <1>7, <2>2, <2>3, <2>4, FreshShown
  <2>6. \/ IsPrefix(itemImages, itemImages')
        \/ <<1, i>> \in overtaken /\ <<1, i>> \notin overtaken'
    BY <2>2, CompletionFresh
  <2> QED
    BY <2>5, <2>6
<1> QED
  BY <1>1, <1>3, <1>4, <1>5, <1>6, <1>7, DownloadEffect DEF Basis

(* It stays fresh through the main thread's. *)
LEMMA FreshMain ==
    ASSUME Basis, FirstShown, AllFresh, client = "screen", RunMain \/ MainShows
    PROVE  /\ AllFresh'
           /\ \/ UNCHANGED <<itemImages, overtaken>>
              \/ IsPrefix(itemImages, itemImages')
              \/ ~ (overtaken \subseteq overtaken')
<1>1. imageArray[1] \in Seq(Links) /\ itemImages \in Seq(Links) /\ running \in {0, 1}
  BY Bounds DEF Basis, Threads, Shows, FirstShown
<1>2. CASE RunMain
  <2>1. UNCHANGED <<pc, copied, imageArray, itemImages, overtaken>>
    BY <1>2, MainEffect DEF Basis
  <2>2. passed' = imageArray[1]
    BY <1>2, MainEffect, ScreenCompletion DEF Basis
  <2>3. Begins(imageArray[1], imageArray[1])
    BY <1>1, BeginsGrows
  <2> QED
    BY <1>1, <2>1, <2>2, <2>3, FreshKept
<1>3. CASE MainShows
  <2>1. /\ running = 1 /\ Completion(1, 0, passed) /\ passed \in Seq(Links)
        /\ running' = 0 /\ UNCHANGED <<pc, copied, imageArray>>
    BY <1>1, <1>3, ShowEffect, Bounds DEF Basis
  <2>2. Fresh(0, passed) /\ <<1, 0>> \in Passing
    BY <2>1 DEF AllFresh, Passing
  <2>3. \A j \in Links : pc'[1][j] = "failing" =>
          j # 0 /\ pc[1][j] = "failing" /\ copied'[1][j] = copied[1][j]
    BY <2>1, Bounds
  <2>4. AllFresh'
    BY <2>1, <2>2, <2>3, FreshShown
  <2>5. \/ IsPrefix(itemImages, itemImages')
        \/ <<1, 0>> \in overtaken /\ <<1, 0>> \notin overtaken'
    BY <2>1, <2>2, CompletionFresh
  <2> QED
    BY <2>4, <2>5
<1> QED
  BY <1>2, <1>3

(* What the screen shows are first pictures of the array, whenever and on   *)
(* whatever thread completions run.                                         *)
LEMMA FirstShownStep ==
    ASSUME Basis, AllInTurn, FirstShown, [Next]_vars
    PROVE  FirstShown'
<1> SUFFICES ASSUME client' = "screen"
             PROVE  /\ \A k \in Calls : imageUrls'[k] > 0 => k = 1
                    /\ Entries(mainQ') \subseteq {1} /\ running' \in {0, 1}
                    /\ ~raced' => AllFresh'
  BY DEF FirstShown
<1>1. mainQ \in Seq(Calls)
  BY DEF Basis, Calling
<1>2. ASSUME client = "screen"
      PROVE  /\ \A k \in Calls : imageUrls[k] > 0 => k = 1
             /\ Entries(mainQ) \subseteq {1} /\ running \in {0, 1}
             /\ ~raced => AllFresh /\ ArrayInTurn(1)
  BY <1>2, Bounds DEF FirstShown, AllInTurn
<1>3. ASSUME NEW k \in Calls, NEW i \in Links, Download(k, i)
      PROVE  /\ \A l \in Calls : imageUrls'[l] > 0 => l = 1
             /\ Entries(mainQ') \subseteq {1} /\ running' \in {0, 1}
             /\ ~raced' => AllFresh'
  <2>1. client = "screen" /\ imageUrls' = imageUrls /\ running' = running
    BY <1>3, DownloadEffect DEF Basis
  <2>2. k = 1
    BY <1>3, <2>1, ScreenThread
  <2>3. Entries(mainQ') \subseteq {1}
    <3>1. mainQ' = mainQ \/ mainQ' = Append(mainQ, k)
      BY <1>3, DownloadEffect DEF Basis
    <3>2. Entries(Append(mainQ, k)) = Entries(mainQ) \cup {k}
      BY <1>1, EntriesOf
    <3> QED
      BY <1>2, <2>1, <2>2, <3>1, <3>2
  <2>4. ~raced' => ~raced
    BY <1>3, DownloadEffect DEF Basis
  <2>5. Download(1, i)
    BY <1>3, <2>2
  <2> QED
    BY <1>2, <2>1, <2>3, <2>4, <2>5, FreshDownload
<1>4. ASSUME NEW n \in Links, ScreenLoads(n)
      PROVE  /\ \A l \in Calls : imageUrls'[l] > 0 => l = 1
             /\ Entries(mainQ') \subseteq {1} /\ running' \in {0, 1}
             /\ ~raced' => AllFresh'
  <2>1. /\ client = "screen" /\ imageUrls[1] = 0 /\ DownloadImages(1, n, NoImage)
        /\ UNCHANGED <<mainQ, running, passed, itemImages, overtaken, imageArray, copied, raced>>
    BY <1>4 DEF ScreenLoads
  <2>2. /\ \A l \in Calls : l # 1 => imageUrls'[l] = imageUrls[l]
        /\ \A j \in Links : pc'[1][j] # "failing"
    BY <2>1, NewCall, Bounds DEF Basis
  <2>3. imageArray[1] \in Seq(Links) /\ Begins(imageArray[1], imageArray[1])
    BY Bounds, BeginsGrows DEF Basis, Threads
  <2>4. AllFresh => AllFresh'
    BY <2>1, <2>2, <2>3, FreshKept
  <2> QED
    BY <1>2, <2>1, <2>2, <2>4
<1>5. ASSUME NEW x \in Items, GenerateCell(x)
      PROVE  FALSE
  BY <1>5 DEF GenerateCell
<1>6. CASE RunMain
  <2>1. client = "screen" /\ UNCHANGED imageUrls /\ (raced => raced')
    BY <1>6, MainEffect DEF Basis
  <2>2. running' = 1 /\ Entries(mainQ') \subseteq {1}
    BY <1>6, <2>1, ScreenCompletion
  <2> QED
    BY <1>2, <1>6, <2>1, <2>2, FreshMain DEF Basis, Flag
<1>9. CASE MainShows
  <2>1. client = "screen" /\ UNCHANGED <<imageUrls, mainQ, raced>> /\ running' = 0
    BY <1>9, ShowEffect DEF Basis
  <2> QED
    BY <1>2, <1>9, <2>1, FreshMain
<1>7. ASSUME NEW k \in Calls, Corrupted(k)
      PROVE  FALSE
  BY <1>7 DEF Corrupted
<1>8. CASE UNCHANGED vars
  <2>1. UNCHANGED <<client, imageUrls, mainQ, running, raced>>
    BY <1>8 DEF vars
  <2>2. UNCHANGED <<pc, copied, imageArray, passed, itemImages, overtaken>>
    BY <1>8 DEF vars
  <2>3. imageArray[1] \in Seq(Links) /\ Begins(imageArray[1], imageArray[1])
    BY Bounds, BeginsGrows DEF Basis, Threads
  <2>4. AllFresh => AllFresh'
    BY <2>1, <2>2, <2>3, FreshKept
  <2> QED
    BY <1>2, <2>1, <2>4
<1> QED
  BY <1>3, <1>4, <1>5, <1>6, <1>7, <1>8, <1>9 DEF Next

(* AllInTurn and FirstShown, from the start. *)
LEMMA ScreenInductive ==
    /\ Init => AllInTurn /\ FirstShown
    /\ Basis /\ AllInTurn /\ FirstShown /\ [Next]_vars => AllInTurn' /\ FirstShown'
<1>1. Init => AllInTurn
  BY InTurnInit
<1>2. ASSUME Init
      PROVE  FirstShown
  <2>1. /\ itemImages = <<>> /\ imageArray[1] = <<>> /\ mainQ = <<>> /\ running = 0
        /\ \A k \in Calls : imageUrls[k] = 0
        /\ \A i \in Links : pc[1][i] = "none"
    BY <1>2, Bounds DEF Init
  <2> QED
    BY <2>1 DEF FirstShown, AllFresh, Begins, Entries
<1> QED
  BY <1>1, <1>2, InTurnStep, FirstShownStep

(* Pictures neither leave an item's screen nor change places, although      *)
(* completions run early, late, and on more than one thread; a completion   *)
(* may take some away only when two threads met, or when another changed    *)
(* the screen between its reading of the array and its showing of it.       *)
THEOREM PicturesRemain == Spec => PicturesStay
<1>1. Basis /\ AllInTurn /\ FirstShown /\ [Next]_vars
        => [\/ raced'
            \/ IsPrefix(itemImages, itemImages')
            \/ ~ (overtaken \subseteq overtaken')]_vars
  <2> SUFFICES ASSUME Basis, AllInTurn, FirstShown, Next, ~raced'
               PROVE  \/ IsPrefix(itemImages, itemImages')
                      \/ ~ (overtaken \subseteq overtaken')
    OBVIOUS
  <2>1. itemImages \in Seq(Links)
    BY DEF Basis, Shows
  <2>2. ASSUME itemImages' = itemImages
        PROVE  IsPrefix(itemImages, itemImages')
    BY <2>1, <2>2, BeginsGrows
  <2>3. ASSUME client = "screen", ~raced
        PROVE  AllFresh /\ ArrayInTurn(1) /\ running \in {0, 1}
    BY <2>3, Bounds DEF FirstShown, AllInTurn
  <2>4. ASSUME NEW k \in Calls, NEW i \in Links, Download(k, i)
        PROVE  IsPrefix(itemImages, itemImages') \/ ~ (overtaken \subseteq overtaken')
    <3>1. ~raced
      BY <2>4, DownloadEffect DEF Basis
    <3>2. CASE client = "screen"
      <4>1. Download(1, i)
        BY <2>4, <3>2, ScreenThread
      <4> QED
        BY <2>2, <2>3, <3>1, <3>2, <4>1, FreshDownload
    <3>3. CASE client # "screen"
      <4>1. UNCHANGED outcome \/ Completion(k, i, copied[k][i])
        BY <2>4, DownloadEffect DEF Basis
      <4>2. copied[k][i] \in Seq(Links)
        BY DEF Basis, Threads
      <4> QED
        BY <2>2, <3>3, <4>1, <4>2, CompletionEffect DEF Basis
    <3> QED
      BY <3>2, <3>3
  <2>5. ASSUME (\E n \in Links : ScreenLoads(n)) \/ (\E x \in Items : GenerateCell(x))
        PROVE  itemImages' = itemImages
    BY <2>5, CallerEffect DEF Basis
  <2>6. CASE RunMain \/ MainShows
    <3>1. ~raced
      BY <2>6, MainEffect, ShowEffect DEF Basis
    <3>2. CASE client = "screen"
      BY <2>2, <2>3, <2>6, <3>1, <3>2, FreshMain
    <3>3. CASE client # "screen"
      BY <2>2, <2>6, <3>3, MainEffect, ShowEffect, CompletionEffect DEF Basis
    <3> QED
      BY <3>2, <3>3
  <2>7. ASSUME NEW k \in Calls, Corrupted(k)
        PROVE  itemImages' = itemImages
    BY <2>7 DEF Corrupted
  <2> QED
    BY <2>2, <2>4, <2>5, <2>6, <2>7 DEF Next
<1> QED
  BY <1>1, BasisInductive, ScreenInductive, PTL DEF Spec, PicturesStay

(* When the array has a picture for every link, every download has begun.  *)
LEMMA AllBegun ==
    ASSUME Basis, CounterInTurn(1), ArrayInTurn(1), Len(imageArray[1]) = imageUrls[1]
    PROVE  /\ Entries(imageArray[1]) = 1..imageUrls[1]
           /\ downloadCounter[1] = imageUrls[1]
<1> DEFINE n == imageUrls[1]
           E == Entries(imageArray[1])
<1>1. n \in Nat /\ n <= MaxLinks /\ imageArray[1] \in Seq(Links) /\ 1 \in Calls
  BY Bounds DEF Basis, Calling, Threads
<1>2. E \in SUBSET Links /\ IsFiniteSet(E) /\ Cardinality(E) = n
  BY <1>1, EntriesOf, InjectiveLength DEF ArrayInTurn
<1>3. \A i \in E : pc[1][i] \in Appended
  BY DEF ArrayInTurn
<1>4. E \subseteq Begun(1)
  BY <1>2, <1>3 DEF Begun, Appended
<1>5. Begun(1) \subseteq 1..n
  <2> SUFFICES ASSUME NEW i \in Links, pc[1][i] # "none"
               PROVE  i \in 1..n
    BY DEF Begun
  <2>1. i \in Nat \ {0} /\ ~ (i > n)
    BY <1>1, Bounds DEF Basis, ThreadPerLink
  <2> QED
    BY <1>1, <2>1
<1>6. IsFiniteSet(1..n) /\ Cardinality(1..n) = n
  BY <1>1, FS_Interval
<1> HIDE DEF n, E
<1>7. E = 1..n
  BY <1>2, <1>4, <1>5, <1>6, FS_Subset
<1>8. Begun(1) = 1..n
  BY <1>4, <1>5, <1>7
<1>9. downloadCounter[1] = n
  BY <1>6, <1>8 DEF CounterInTurn
<1> QED
  BY <1>7, <1>9 DEF n, E

(* Whoever appends the last picture sees that it is the last, and nobody    *)
(* takes that back.                                                         *)
LEMMA LastShownStep ==
    ASSUME Basis, AllInTurn, FirstShown, LastShown, [Next]_vars
    PROVE  LastShown'
<1> SUFFICES ASSUME client' = "screen", ~raced', failed' = {}, imageUrls'[1] > 0,
                    Len(imageArray'[1]) = imageUrls'[1]
             PROVE  \/ \E i \in Links : AboutToSee(i)'
                    \/ mainQ' # <<>>
                    \/ running' # 0 /\ passed' = imageArray'[1]
                    \/ running' = 0 /\ itemImages' = imageArray'[1]
  BY DEF LastShown
<1>1. imageArray[1] \in Seq(Links) /\ mainQ \in Seq(Calls) /\ imageUrls[1] \in Nat
  BY Bounds DEF Basis, Threads, Calling
<1>2. ASSUME client = "screen", ~raced, failed = {}, imageUrls' = imageUrls,
             imageArray'[1] = imageArray[1]
      PROVE  \/ \E i \in Links : AboutToSee(i)
             \/ mainQ # <<>>
             \/ running # 0 /\ passed = imageArray[1]
             \/ running = 0 /\ itemImages = imageArray[1]
  BY <1>2 DEF LastShown
<1>3. ASSUME NEW k \in Calls, NEW i \in Links, Download(k, i)
      PROVE  \/ \E j \in Links : AboutToSee(j)'
             \/ mainQ' # <<>>
             \/ running' # 0 /\ passed' = imageArray'[1]
             \/ running' = 0 /\ itemImages' = imageArray'[1]
  <2>1. client = "screen" /\ imageUrls' = imageUrls
    BY <1>3, DownloadEffect DEF Basis
  <2>2. k = 1
    BY <1>3, <2>1, ScreenThread
  <2>3. ~raced
    BY <1>3, DownloadEffect DEF Basis
  <2>4. CounterInTurn(1) /\ ArrayInTurn(1)
    BY <2>3, Bounds DEF AllInTurn
  <2>5. ASSUME NEW j \in Links, j # i, AboutToSee(j)
        PROVE  AboutToSee(j)'
    <3>1. pc'[1][j] = pc[1][j] /\ counted'[1][j] = counted[1][j]
      BY <1>3, <2>2, <2>5, Bounds, DownloadEffect DEF Basis, Moves, Reads
    <3> QED
      BY <2>1, <2>5, <3>1 DEF AboutToSee
  <2>6. CASE /\ \/ Moves(k, i, "queued", "counting") \/ Moves(k, i, "counting", "loading")
                \/ Moves(k, i, "loading", "loaded") \/ Moves(k, i, "loaded", "appending")
             /\ UNCHANGED <<imageArray, mainQ, running, passed, itemImages, failed>>
    <3>1. ~ AboutToSee(i)
      BY <2>2, <2>6 DEF Moves, AboutToSee
    <3> QED
      BY <1>2, <2>1, <2>3, <2>5, <2>6, <3>1
  <2>7. CASE \/ failed' = failed \cup {k}
             \/ Moves(k, i, "failing", "ended") /\ UNCHANGED failed
    BY <2>7 DEF Basis, ThreadPerLink, Moves
  <2>8. CASE Moves(k, i, "appending", "appended")
    BY <2>2, <2>8 DEF Moves, AboutToSee
  <2>9. CASE /\ Moves(k, i, "appended", "comparing") /\ Reads(k, i, downloadCounter[k])
             /\ UNCHANGED imageArray
    <3>1. downloadCounter[1] = imageUrls[1]
      BY <2>1, <2>4, <2>9, AllBegun
    <3> QED
      BY <2>1, <2>2, <2>9, <3>1 DEF Moves, Reads, AboutToSee
  <2>10. CASE /\ Moves(k, i, "comparing", "ended")
              /\ mainQ' = IF counted[k][i] = Len(imageArray[k]) THEN Append(mainQ, k) ELSE mainQ
              /\ UNCHANGED <<imageArray, running, passed, itemImages, failed>>
    <3>1. Append(mainQ, k) # <<>>
      BY <1>1, EntriesOf, AppendEntries, EmptySeq
    <3>2. ASSUME AboutToSee(i)
          PROVE  mainQ' # <<>>
      BY <2>1, <2>2, <2>10, <3>1, <3>2 DEF Moves, AboutToSee
    <3> QED
      BY <1>2, <2>1, <2>3, <2>5, <2>10, <3>1, <3>2
  <2> QED
    BY <1>3, <2>6, <2>7, <2>8, <2>9, <2>10, DownloadEffect DEF Basis
<1>4. ASSUME NEW n \in Links, ScreenLoads(n)
      PROVE  FALSE
  <2>1. /\ imageUrls[1] = 0 /\ UNCHANGED <<imageArray, raced>>
        /\ DownloadImages(1, n, NoImage)
    BY <1>4 DEF ScreenLoads
  <2>2. ArrayInTurn(1) /\ \A i \in Links : pc[1][i] = "none"
    BY <2>1, NewCall, Bounds DEF Basis, AllInTurn
  <2>3. Entries(imageArray[1]) \in SUBSET Links
    BY <1>1, EntriesOf
  <2>4. imageArray[1] = <<>>
    BY <1>1, <2>2, <2>3, EntriesOf DEF ArrayInTurn, Appended
  <2>5. Len(imageArray'[1]) = 0
    BY <2>1, <2>4
  <2>6. imageUrls'[1] = n /\ n # 0
    BY <2>1, NewCall, Bounds DEF Basis
  <2> QED
    BY <2>5, <2>6
<1>5. ASSUME NEW x \in Items, GenerateCell(x)
      PROVE  FALSE
  BY <1>5 DEF GenerateCell
<1>6. CASE RunMain
  <2>1. client = "screen" /\ UNCHANGED imageArray
    BY <1>6, MainEffect DEF Basis
  <2>2. running' = 1 /\ passed' = imageArray'[1]
    BY <1>6, <2>1, MainEffect, ScreenCompletion DEF Basis
  <2> QED
    BY <2>2
<1>9. CASE MainShows
  <2>1. /\ client = "screen" /\ ~raced /\ failed = {} /\ running # 0 /\ running' = 0
        /\ UNCHANGED <<imageUrls, pc, counted, imageArray, mainQ>>
    BY <1>9, ShowEffect, Bounds DEF Basis
  <2>2. \A i \in Links : AboutToSee(i)' <=> AboutToSee(i)
    BY <2>1 DEF AboutToSee
  <2>3. ASSUME passed = imageArray[1]
        PROVE  itemImages' = imageArray'[1]
    <3>1. imageArray[1] # <<>>
      BY <1>1, <2>1
    <3> QED
      BY <1>9, <2>1, <2>3, <3>1, ShowEffect, CompletionEffect DEF Basis
  <2> QED
    BY <1>2, <2>1, <2>2, <2>3
<1>7. ASSUME NEW k \in Calls, Corrupted(k)
      PROVE  FALSE
  BY <1>7 DEF Corrupted
<1>8. CASE UNCHANGED vars
  <2>1. \A i \in Links : AboutToSee(i)' <=> AboutToSee(i)
    BY <1>8 DEF vars, AboutToSee
  <2>2. UNCHANGED <<client, raced, failed, imageUrls, imageArray, mainQ, running, passed,
                    itemImages>>
    BY <1>8 DEF vars
  <2> QED
    BY <1>2, <2>1, <2>2
<1> QED
  BY <1>3, <1>4, <1>5, <1>6, <1>7, <1>8, <1>9 DEF Next

(* Nobody having met and nothing having failed, an item's screen is at rest *)
(* only with all of its pictures.                                           *)
THEOREM ShowsAll == Spec => []AllPicturesShown
<1>1. Init => LastShown
  <2> SUFFICES ASSUME Init
               PROVE  ~ (imageUrls[1] > 0)
    BY DEF LastShown
  <2> QED
    BY Bounds DEF Init
<1>2. Basis /\ AllInTurn /\ FirstShown /\ LastShown => AllPicturesShown
  <2> SUFFICES ASSUME Basis, AllInTurn, FirstShown, LastShown,
                      AtRest, client = "screen", ~raced, failed = {}
               PROVE  Len(itemImages) = imageUrls[1]
    BY DEF AllPicturesShown
  <2> DEFINE n == imageUrls[1]
             E == Entries(imageArray[1])
  <2>1. /\ imageArray[1] \in Seq(Links) /\ itemImages \in Seq(Links)
        /\ n \in Nat /\ n <= MaxLinks /\ 1 \in Calls
    BY Bounds DEF Basis, Threads, Shows, Calling
  <2>2. ArrayInTurn(1) /\ Begins(itemImages, imageArray[1])
    BY <2>1 DEF AllInTurn, FirstShown, AllFresh
  <2>3. mainQ = <<>> /\ running = 0 /\ \A i \in Links : pc[1][i] \in {"none", "ended"}
    BY <2>1 DEF AtRest
  <2>4. /\ E \in SUBSET Links /\ \A i \in E : pc[1][i] \in Appended
        /\ \A i \in Links : pc[1][i] = "ended" => i \in E
    BY <2>1, <2>2, EntriesOf DEF ArrayInTurn
  <2>5. \A i \in Links : i \in E <=> ~ (i > n)
    BY <2>1, <2>3, <2>4 DEF Basis, ThreadPerLink, Appended
  <2>6. IsInjective(imageArray[1])
    BY <2>2 DEF ArrayInTurn
  <2>7. Cardinality(E) = Len(imageArray[1])
    BY <2>1, <2>6, InjectiveLength
  <2>8. Len(imageArray[1]) = n
    <3> HIDE DEF n, E
    <3>1. E = 1..n
      <4>1. \A i \in Links : i \in E <=> i \in 1..n
        BY <2>1, <2>5, Bounds
      <4>2. 1..n \subseteq Links
        BY <2>1, Bounds DEF Links
      <4> QED
        BY <2>4, <4>1, <4>2
    <3>2. Cardinality(1..n) = n
      BY <2>1, FS_Interval
    <3> QED
      BY <2>7, <3>1, <3>2
  <2>9. CASE n = 0
    BY <2>1, <2>2, <2>8, <2>9 DEF Begins
  <2>10. CASE n > 0
    <3>1. \A i \in Links : ~ AboutToSee(i)
      BY <2>3 DEF AboutToSee
    <3>2. itemImages = imageArray[1]
      BY <2>3, <2>8, <2>10, <3>1 DEF LastShown
    <3> QED
      BY <2>8, <3>2
  <2> QED
    BY <2>1, <2>9, <2>10
<1> QED
  BY <1>1, <1>2, BasisInductive, ScreenInductive, LastShownStep, PTL DEF Spec

-----------------------------------------------------------------------------
(* The cells of a table.                                                    *)

(* A cell's call has one link. *)
LEMMA CellThread ==
    ASSUME Basis, CellCalls, client = "cell",
           NEW k \in Calls, NEW i \in Links, Download(k, i)
    PROVE  i = 1 /\ OneThread(k)
<1>1. pc[k][i] # "none"
  BY DownloadEffect DEF Basis, Moves
<1>2. imageUrls[k] \in 0..MaxLinks /\ i \in Nat \ {0}
  BY Bounds DEF Basis, Calling
<1>3. ~ (i > imageUrls[k]) /\ imageUrls[k] <= 1
  BY <1>1 DEF Basis, ThreadPerLink, CellCalls, OneThread
<1> QED
  BY <1>2, <1>3 DEF CellCalls

(* The cell makes its next call, or none. *)
LEMMA CellCaller ==
    ASSUME Basis, NEW x \in Items, GenerateCell(x)
    PROVE  /\ UNCHANGED <<client, counted, copied, shared, main, itemImages, image, failed,
                          raced, overtaken, answered>>
           /\ item' = x
           /\ x \notin Pictured => UNCHANGED <<call, pc>>
           /\ x \in Pictured => /\ Latest + 1 \in Calls /\ imageUrls[Latest + 1] = 0
                                /\ DownloadImages(Latest + 1, 1, x)
<1>1. /\ Latest \in 0..MaxCalls
      /\ \A j \in Calls : imageUrls[j] > 0 => j <= Latest
  BY LatestIs DEF Latest, LatestOf, Basis, Calling
<1>2. ASSUME x \in Pictured
      PROVE  /\ Latest + 1 \in Calls /\ imageUrls[Latest + 1] = 0
             /\ DownloadImages(Latest + 1, 1, x)
  <2>1. Latest < MaxCalls /\ DownloadImages(Latest + 1, 1, x)
    BY <1>2 DEF GenerateCell
  <2>2. Latest + 1 \in Calls /\ ~ (Latest + 1 <= Latest)
    BY <1>1, <2>1, Bounds DEF Calls
  <2>3. imageUrls[Latest + 1] \in 0..MaxLinks
    BY <2>2 DEF Basis, Calling
  <2> QED
    BY <1>1, <2>1, <2>2, <2>3, Bounds
<1> QED
  BY <1>2 DEF GenerateCell

(* What a call of a cell is in, nobody else changes. *)
LEMMA OneThreadKept ==
    ASSUME NEW l \in Calls, OneThread(l), imageUrls'[l] = imageUrls[l], pc'[l][1] = pc[l][1],
           downloadCounter'[l] = downloadCounter[l], imageArray'[l] = imageArray[l],
           counted'[l][1] = counted[l][1], copied'[l][1] = copied[l][1],
           l \in failed' <=> l \in failed
    PROVE  OneThread(l)'
  BY DEF OneThread

(* Alone, a thread counts one download and appends one picture. *)
LEMMA CellCallsStep ==
    ASSUME Basis, CellCalls, [Next]_vars
    PROVE  CellCalls'
<1> SUFFICES ASSUME client' = "cell", NEW l \in Calls
             PROVE  OneThread(l)'
  BY DEF CellCalls
<1>1. client = "cell" => OneThread(l)
  BY DEF CellCalls
<1>2. ASSUME NEW k \in Calls, NEW i \in Links, Download(k, i)
      PROVE  OneThread(l)'
  <2>1. client = "cell" /\ UNCHANGED call
    BY <1>2, DownloadEffect DEF Basis
  <2>2. i = 1 /\ OneThread(k)
    BY <1>2, <2>1, CellThread
  <2>3. CASE l # k
    <3>1. /\ \/ UNCHANGED downloadCounter
             \/ downloadCounter' = [downloadCounter EXCEPT ![k] = counted[k][i] + 1]
          /\ \/ UNCHANGED imageArray
             \/ imageArray' = [imageArray EXCEPT ![k] = Append(copied[k][i], i)]
          /\ UNCHANGED failed \/ failed' = failed \cup {k}
      BY <1>2, DownloadEffect DEF Basis
    <3>2. /\ downloadCounter'[l] = downloadCounter[l] /\ imageArray'[l] = imageArray[l]
          /\ l \in failed' <=> l \in failed
      BY <2>3, <3>1 DEF Basis, Threads
    <3>3. pc'[l][1] = pc[l][1]
      BY <1>2, <2>3, Bounds, DownloadEffect DEF Basis, Moves
    <3>4. counted'[l][1] = counted[l][1]
      BY <1>2, <2>3, Bounds, DownloadEffect DEF Basis, Reads
    <3>5. copied'[l][1] = copied[l][1]
      BY <1>2, <2>3, Bounds, DownloadEffect DEF Basis, Copies
    <3> QED
      BY <1>1, <2>1, <3>2, <3>3, <3>4, <3>5, OneThreadKept
  <2>4. CASE l = k
    <3>1. /\ downloadCounter[k] \in 0..MaxLinks /\ imageArray[k] \in Seq(Links)
          /\ imageUrls'[k] = imageUrls[k]
      BY <2>1 DEF Basis, Threads
    <3>2. CASE /\ Moves(k, i, "queued", "counting") /\ Reads(k, i, downloadCounter[k])
               /\ UNCHANGED <<copied, shared, failed>>
      BY <2>2, <2>4, <3>1, <3>2 DEF OneThread, Moves, Reads, Appended
    <3>3. CASE /\ Moves(k, i, "counting", "loading")
               /\ downloadCounter' = [downloadCounter EXCEPT ![k] = counted[k][i] + 1]
               /\ UNCHANGED <<counted, copied, imageArray, failed>>
      <4>1. downloadCounter'[k] = 1
        BY <2>2, <3>3 DEF OneThread, Moves, Basis, Threads
      <4> QED
        BY <2>2, <2>4, <3>1, <3>3, <4>1 DEF OneThread, Moves, Appended
    <3>4. CASE /\ Moves(k, i, "loading", "loaded")
               /\ UNCHANGED <<counted, copied, shared, failed>>
      BY <2>2, <2>4, <3>1, <3>4 DEF OneThread, Moves, Appended
    <3>5. CASE /\ Moves(k, i, "loading", "failing") /\ failed' = failed \cup {k}
               /\ Copies(k, i, imageArray[k]) /\ UNCHANGED <<counted, shared>>
      BY <2>2, <2>4, <3>1, <3>5 DEF OneThread, Moves, Copies, Appended
    <3>10. CASE /\ Moves(k, i, "failing", "ended")
                /\ UNCHANGED <<counted, copied, shared, failed>>
      <4>1. k \in failed
        BY <3>10 DEF Basis, ThreadPerLink, Moves
      <4> QED
        BY <2>2, <2>4, <3>1, <3>10, <4>1 DEF OneThread, Moves, Appended
    <3>6. CASE /\ Moves(k, i, "loaded", "appending") /\ Copies(k, i, imageArray[k])
               /\ UNCHANGED <<counted, shared, failed>>
      BY <2>2, <2>4, <3>1, <3>6 DEF OneThread, Moves, Copies, Appended
    <3>7. CASE /\ Moves(k, i, "appending", "appended")
               /\ imageArray' = [imageArray EXCEPT ![k] = Append(copied[k][i], i)]
               /\ UNCHANGED <<counted, copied, downloadCounter, failed>>
      <4>1. copied[k][i] = <<>>
        BY <2>2, <3>7 DEF OneThread, Moves
      <4>2. imageArray'[k] = <<1>>
        BY <2>2, <3>7, <4>1, OnlyEntry DEF Basis, Threads
      <4> QED
        BY <2>2, <2>4, <3>1, <3>7, <4>2 DEF OneThread, Moves, Appended
    <3>8. CASE /\ Moves(k, i, "appended", "comparing") /\ Reads(k, i, downloadCounter[k])
               /\ UNCHANGED <<copied, shared, failed>>
      BY <2>2, <2>4, <3>1, <3>8 DEF OneThread, Moves, Reads, Appended
    <3>9. CASE /\ Moves(k, i, "comparing", "ended")
               /\ UNCHANGED <<counted, copied, shared, failed>>
      BY <2>2, <2>4, <3>1, <3>9 DEF OneThread, Moves, Appended
    <3> QED
      BY <1>2, <3>2, <3>3, <3>4, <3>5, <3>6, <3>7, <3>8, <3>9, <3>10, DownloadEffect DEF Basis
  <2> QED
    BY <2>3, <2>4
<1>3. ASSUME NEW x \in Items, GenerateCell(x)
      PROVE  OneThread(l)'
  <2>1. client = "cell" /\ UNCHANGED <<counted, copied, shared, failed>>
    BY <1>3, CellCaller
  <2>2. CASE x \notin Pictured
    BY <1>1, <1>3, <2>1, <2>2, CellCaller, OneThreadKept
  <2>3. CASE x \in Pictured
    <3>1. PICK k \in Calls : imageUrls[k] = 0 /\ DownloadImages(k, 1, x)
      BY <1>3, <2>3, CellCaller
    <3>2. /\ imageUrls'[k] = 1 /\ pc[k][1] = "none" /\ pc'[k][1] = "queued"
          /\ l # k => imageUrls'[l] = imageUrls[l] /\ pc'[l] = pc[l]
      BY <3>1, NewCall, Bounds DEF Basis
    <3>3. CASE l # k
      BY <1>1, <2>1, <3>2, <3>3, OneThreadKept
    <3>4. CASE l = k
      BY <1>1, <2>1, <3>2, <3>4 DEF OneThread, Appended
    <3> QED
      BY <3>3, <3>4
  <2> QED
    BY <2>2, <2>3
<1>4. ASSUME NEW n \in Links, ScreenLoads(n)
      PROVE  FALSE
  BY <1>4 DEF ScreenLoads
<1>5. ASSUME NEW k \in Calls, Corrupted(k)
      PROVE  FALSE
  BY <1>5 DEF Corrupted
<1>6. CASE RunMain \/ MainShows \/ UNCHANGED vars
  <2>1. UNCHANGED <<client, call, thread, shared, failed>>
    BY <1>6 DEF RunMain, MainShows, vars
  <2> QED
    BY <1>1, <2>1, OneThreadKept
<1> QED
  BY <1>2, <1>3, <1>4, <1>5, <1>6 DEF Next

(* A completion is posted, or runs at once, only when the thread ends, and  *)
(* is run once.                                                             *)
LEMMA CellAnswersStep ==
    ASSUME Basis, CellCalls, CellAnswers, [Next]_vars
    PROVE  CellAnswers'
<1> SUFFICES ASSUME client' = "cell"
             PROVE  AnswersOf(mainQ', running', answered', failed', pc')
  BY DEF CellAnswers
<1>1. mainQ \in Seq(Calls) /\ answered \in Seq(Calls) /\ failed \in SUBSET Calls
  BY DEF Basis, Calling
<1>2. client = "cell" => AnswersOf(mainQ, running, answered, failed, pc)
  BY DEF CellAnswers
<1>3. PICK M \in SUBSET Calls, A \in SUBSET Calls : M = Entries(mainQ) /\ A = Entries(answered)
  BY <1>1, EntriesOf
<1>4. client = "cell" => /\ IsInjective(mainQ) /\ IsInjective(answered)
                         /\ M \cap A = {} /\ M \cap failed = {}
                         /\ running \notin M \cup A \cup failed
                         /\ \A k \in Calls : pc[k][1] = "ended" <=> k \in M \cup {running} \cup A
  BY <1>2, <1>3 DEF AnswersOf
<1>5. ASSUME UNCHANGED <<client, mainQ, running, answered>>,
             \/ UNCHANGED failed
             \/ \E k \in Calls : failed' = failed \cup {k} /\ pc[k][1] # "ended",
             \A k \in Calls : pc'[k][1] = "ended" <=> pc[k][1] = "ended"
      PROVE  AnswersOf(mainQ', running', answered', failed', pc')
  BY <1>3, <1>4, <1>5 DEF AnswersOf
<1>12. running \in Calls \cup {0} /\ 0 \notin Calls
  BY Bounds DEF Basis, Calling
<1>6. ASSUME NEW k \in Calls, NEW i \in Links, Download(k, i)
      PROVE  AnswersOf(mainQ', running', answered', failed', pc')
  <2>1. client = "cell" /\ UNCHANGED client
    BY <1>6, DownloadEffect DEF Basis
  <2>2. i = 1 /\ OneThread(k)
    BY <1>6, <2>1, CellThread
  <2>3. CASE /\ \/ Moves(k, i, "queued", "counting") \/ Moves(k, i, "counting", "loading")
                \/ Moves(k, i, "loading", "loaded") \/ Moves(k, i, "loaded", "appending")
                \/ Moves(k, i, "appending", "appended") \/ Moves(k, i, "appended", "comparing")
             /\ UNCHANGED <<mainQ, running, answered, failed>>
    <3>1. \A l \in Calls : pc'[l][1] = "ended" <=> pc[l][1] = "ended"
      BY <2>2, <2>3 DEF Moves
    <3> QED
      BY <1>5, <2>1, <2>3, <3>1
  <2>6. CASE /\ Moves(k, i, "loading", "failing") /\ failed' = failed \cup {k}
             /\ UNCHANGED <<mainQ, running, answered>>
    <3>1. /\ pc[k][1] # "ended"
          /\ \A l \in Calls : pc'[l][1] = "ended" <=> pc[l][1] = "ended"
      BY <2>2, <2>6 DEF Moves
    <3> QED
      BY <1>5, <2>1, <2>6, <3>1
  <2>4. CASE /\ Moves(k, i, "failing", "ended") /\ Completion(k, i, copied[k][i])
             /\ UNCHANGED <<mainQ, running, failed>>
    <3>1. answered' = Append(answered, k)
      BY <2>4 DEF Completion
    <3>6. k \in failed
      BY <2>4 DEF Basis, ThreadPerLink, Moves
    <3>2. k \notin M \cup {running} \cup A
      BY <1>4, <2>1, <2>2, <2>4 DEF Moves
    <3>3. Entries(answered') = A \cup {k} /\ IsInjective(answered')
      BY <1>1, <1>3, <1>4, <2>1, <3>1, <3>2, EntriesOf, InjectiveAppend
    <3>4. \A l \in Calls : pc'[l][1] = "ended" <=> l = k \/ pc[l][1] = "ended"
      BY <2>2, <2>4, Bounds DEF Moves
    <3>5. Entries(mainQ') = M /\ IsInjective(mainQ')
      BY <1>3, <1>4, <2>1, <2>4
    <3> QED
      BY <1>4, <2>1, <2>4, <3>2, <3>3, <3>4, <3>5, <3>6 DEF AnswersOf
  <2>5. CASE /\ Moves(k, i, "comparing", "ended")
             /\ mainQ' = IF counted[k][i] = Len(imageArray[k]) THEN Append(mainQ, k) ELSE mainQ
             /\ UNCHANGED <<running, answered, failed>>
    <3>1. counted[k][1] = 1 /\ imageArray[k] = <<1>> /\ k \notin failed
      BY <2>2, <2>5 DEF Moves, OneThread
    <3>2. mainQ' = Append(mainQ, k)
      BY <2>2, <2>5, <3>1
    <3>3. k \notin M \cup {running} \cup A
      BY <1>4, <2>1, <2>2, <2>5 DEF Moves
    <3>4. Entries(mainQ') = M \cup {k} /\ IsInjective(mainQ')
      BY <1>1, <1>3, <1>4, <2>1, <3>2, <3>3, EntriesOf, InjectiveAppend
    <3>5. \A l \in Calls : pc'[l][1] = "ended" <=> l = k \/ pc[l][1] = "ended"
      BY <2>2, <2>5, Bounds DEF Moves
    <3>6. Entries(answered') = A /\ IsInjective(answered')
      BY <1>3, <1>4, <2>1, <2>5
    <3> QED
      BY <1>4, <2>1, <2>5, <3>1, <3>3, <3>4, <3>5, <3>6 DEF AnswersOf
  <2> QED
    BY <1>6, <2>3, <2>4, <2>5, <2>6, DownloadEffect DEF Basis
<1>7. ASSUME NEW x \in Items, GenerateCell(x)
      PROVE  AnswersOf(mainQ', running', answered', failed', pc')
  <2>1. UNCHANGED <<client, mainQ, running, answered, failed>>
    BY <1>7, CellCaller
  <2>2. \A k \in Calls : pc'[k][1] = "ended" <=> pc[k][1] = "ended"
    <3>1. CASE x \notin Pictured
      BY <1>7, <3>1, CellCaller
    <3>2. CASE x \in Pictured
      <4>1. PICK k \in Calls : imageUrls[k] = 0 /\ DownloadImages(k, 1, x)
        BY <1>7, <3>2, CellCaller
      <4>2. /\ pc[k][1] = "none" /\ pc'[k][1] = "queued"
            /\ \A l \in Calls : l # k => pc'[l] = pc[l]
        BY <4>1, NewCall, Bounds DEF Basis
      <4> QED
        BY <4>2
    <3> QED
      BY <3>1, <3>2
  <2> QED
    BY <1>5, <2>1, <2>2
<1>8. ASSUME NEW n \in Links, ScreenLoads(n)
      PROVE  FALSE
  BY <1>8 DEF ScreenLoads
<1>9. ASSUME NEW k \in Calls, Corrupted(k)
      PROVE  FALSE
  BY <1>9 DEF Corrupted
<1>10. CASE RunMain
  <2>1. /\ client = "cell" /\ mainQ # <<>> /\ mainQ' = Tail(mainQ) /\ running' = Head(mainQ)
        /\ running = 0 /\ UNCHANGED <<pc, failed, answered>>
    BY <1>10, MainEffect DEF Basis
  <2>2. PICK h \in Calls : h = Head(mainQ)
    BY <1>1, <2>1, TailEntries
  <2>3. PICK T \in SUBSET Calls : T = Entries(Tail(mainQ))
    BY <1>1, <2>1, TailEntries, EntriesOf
  <2>4. M = T \cup {h} /\ h \notin T /\ IsInjective(mainQ')
    BY <1>1, <1>3, <1>4, <2>1, <2>2, <2>3, EntriesOf, InjectiveTail
  <2>5. h \notin A \cup failed
    BY <1>4, <2>1, <2>4
  <2>6. Entries(mainQ') = T /\ Entries(answered') = A /\ IsInjective(answered')
    BY <1>3, <1>4, <2>1, <2>3
  <2>7. \A k \in Calls : pc'[k][1] = "ended" <=> k \in T \cup {h} \cup A
    BY <1>4, <1>12, <2>1, <2>4
  <2> QED
    BY <1>4, <2>1, <2>2, <2>4, <2>5, <2>6, <2>7 DEF AnswersOf
<1>13. CASE MainShows
  <2>1. /\ client = "cell" /\ running \in Calls /\ running' = 0
        /\ UNCHANGED <<pc, failed, mainQ>> /\ answered' = Append(answered, running)
    BY <1>13, ShowEffect DEF Basis, Completion
  <2>2. Entries(answered') = A \cup {running} /\ IsInjective(answered')
    BY <1>1, <1>3, <1>4, <2>1, EntriesOf, InjectiveAppend
  <2>3. Entries(mainQ') = M /\ IsInjective(mainQ')
    BY <1>3, <1>4, <2>1
  <2>4. 0 \notin M \cup A \cup {running} \cup failed
    BY <1>1, <1>3, <1>12, <2>1
  <2> QED
    BY <1>4, <1>12, <2>1, <2>2, <2>3, <2>4 DEF AnswersOf
<1>11. CASE UNCHANGED vars
  <2>1. UNCHANGED <<client, mainQ, running, answered, failed, pc>>
    BY <1>11 DEF vars
  <2> QED
    BY <1>5, <2>1
<1> QED
  BY <1>6, <1>7, <1>8, <1>9, <1>10, <1>11, <1>13 DEF Next

(* CellCalls and CellAnswers, from the start. *)
LEMMA CellInductive ==
    /\ Init => CellCalls /\ CellAnswers
    /\ Basis /\ CellCalls /\ CellAnswers /\ [Next]_vars => CellCalls' /\ CellAnswers'
<1>1. ASSUME Init
      PROVE  CellCalls /\ CellAnswers
  <2>1. mainQ = <<>> /\ running = 0 /\ answered = <<>> /\ failed = {} /\ 0 \notin Calls
    BY <1>1, Bounds DEF Init
  <2>2. \A k \in Calls : /\ imageUrls[k] = 0 /\ pc[k][1] = "none" /\ downloadCounter[k] = 0
                         /\ imageArray[k] = <<>>
    BY <1>1, Bounds DEF Init
  <2>3. CellCalls
    BY <2>1, <2>2 DEF CellCalls, OneThread, Appended
  <2>4. CellAnswers
    BY <2>1, <2>2 DEF CellAnswers, AnswersOf, Entries, IsInjective
  <2> QED
    BY <2>3, <2>4
<1> QED
  BY <1>1, CellCallsStep, CellAnswersStep

(* A cell's call is answered at most once, and once when all is at rest.    *)
THEOREM AnswersOnce == Spec => []AnsweredOnce
<1>1. Basis /\ CellCalls /\ CellAnswers => AnsweredOnce
  <2> SUFFICES ASSUME Basis, CellAnswers, client = "cell"
               PROVE  /\ IsInjective(answered)
                      /\ AtRest => \A k \in Calls : imageUrls[k] > 0 => Contains(answered, k)
    BY DEF AnsweredOnce
  <2>1. ASSUME AtRest, NEW k \in Calls, imageUrls[k] > 0
        PROVE  Contains(answered, k)
    <3>1. mainQ = <<>> /\ running = 0 /\ k # 0 /\ pc[k][1] \in {"none", "ended"}
      BY <2>1, Bounds DEF AtRest
    <3>2. pc[k][1] # "none"
      <4>1. imageUrls[k] \in 0..MaxLinks
        BY DEF Basis, Calling
      <4> QED
        BY <2>1, <4>1, Bounds DEF Basis, ThreadPerLink
    <3>3. Entries(mainQ) = {}
      BY <3>1 DEF Entries
    <3>4. k \in Entries(answered)
      BY <3>1, <3>2, <3>3 DEF CellAnswers, AnswersOf
    <3>5. answered \in Seq(Calls)
      BY DEF Basis, Calling
    <3> QED
      BY <3>4, <3>5 DEF Entries, Contains
  <2>2. IsInjective(answered)
    BY DEF CellAnswers, AnswersOf
  <2> QED
    BY <2>1, <2>2
<1> QED
  BY <1>1, BasisInductive, CellInductive, PTL DEF Spec

(* The last answer. *)
LEMMA LastOf ==
    ASSUME NEW S, NEW q \in Seq(S)
    PROVE  /\ q # <<>> => Last(q) \in Entries(q)
           /\ \A e \in S : Last(Append(q, e)) = e
<1>1. Len(q) \in Nat /\ DOMAIN q = 1..Len(q)
  OBVIOUS
<1>2. ASSUME q # <<>>
      PROVE  Last(q) \in Entries(q)
  <2>1. Len(q) \in DOMAIN q
    BY <1>1, <1>2, EmptySeq
  <2> QED
    BY <2>1 DEF Last, Entries
<1>3. ASSUME NEW e \in S
      PROVE  Last(Append(q, e)) = e
  BY <1>1 DEF Last
<1> QED
  BY <1>2, <1>3

(* What the cell shows when nothing is called, answered or shown.           *)
LEMMA CellShowsKept ==
    ASSUME CellShows, UNCHANGED <<client, call, item, image, answered>>,
           running' # 0 => running # 0 /\ passed' = passed,
           \/ UNCHANGED failed
           \/ \E k \in Calls : failed' = failed \cup {k} /\ (answered # <<>> => Last(answered) # k)
    PROVE  CellShows'
<1>1. Latest' = Latest
  BY DEF Latest
<1> QED
  BY <1>1 DEF CellShows

(* The cell's picture is of the call that was answered last, its name of    *)
(* the call that was made last.                                             *)
LEMMA CellShowsStep ==
    ASSUME Basis, CellCalls, CellAnswers, CellShows, [Next]_vars
    PROVE  CellShows'
<1>1. answered \in Seq(Calls) /\ Latest' = LatestOf(imageUrls')
  BY DEF Basis, Calling, Latest, LatestOf
<1>2. /\ client = "screen" => item = NoImage
      /\ client = "cell" /\ item \in Pictured => Latest \in Calls /\ wanted[Latest] = item
      /\ client = "cell" /\ answered # <<>> =>
           image = IF Last(answered) \in failed THEN NoImage ELSE wanted[Last(answered)]
      /\ client = "cell" /\ running # 0 => passed # <<>>
  BY DEF CellShows
<1>10. ASSUME client = "cell", answered # <<>>
       PROVE  Last(answered) \in Calls /\ pc[Last(answered)][1] = "ended"
  <2>1. Last(answered) \in Entries(answered) /\ Entries(answered) \in SUBSET Calls
    BY <1>1, <1>10, LastOf, EntriesOf
  <2> QED
    BY <1>10, <2>1 DEF CellAnswers, AnswersOf
<1>3. ASSUME NEW k \in Calls, NEW a, NEW images, Completion(k, a, images),
             UNCHANGED <<client, call, failed>>,
             running' # 0 => running # 0 /\ passed' = passed,
             client = "cell" => (images = <<>> <=> k \in failed)
      PROVE  CellShows'
  <2>1. Latest' = Latest
    BY <1>3 DEF Latest
  <2>2. /\ answered' = Append(answered, k) /\ item' = item
        /\ client = "cell" => image' = IF images = <<>> THEN NoImage ELSE wanted[k]
    BY <1>3 DEF Completion
  <2>3. Last(answered') = k
    BY <1>1, <2>2, LastOf
  <2>4. UNCHANGED <<client, wanted>>
    BY <1>3
  <2> QED
    BY <1>2, <1>3, <2>1, <2>2, <2>3, <2>4 DEF CellShows
<1>4. ASSUME NEW k \in Calls, NEW i \in Links, Download(k, i)
      PROVE  CellShows'
  <2>1. UNCHANGED <<client, call>>
    BY <1>4, DownloadEffect DEF Basis
  <2>2. CASE /\ Moves(k, i, "failing", "ended") /\ Completion(k, i, copied[k][i])
             /\ UNCHANGED <<running, passed, failed>>
    <3>1. ASSUME client = "cell"
          PROVE  copied[k][i] = <<>> /\ k \in failed
      BY <1>4, <2>2, <3>1, CellThread DEF OneThread, Moves, Basis, ThreadPerLink
    <3> QED
      BY <1>3, <2>1, <2>2, <3>1
  <2>3. CASE UNCHANGED <<screen, running, passed, failed, answered>>
    BY <2>1, <2>3, CellShowsKept
  <2>4. CASE /\ Moves(k, i, "loading", "failing") /\ failed' = failed \cup {k}
             /\ UNCHANGED <<screen, running, passed, answered>>
    <3>1. ASSUME client = "cell", answered # <<>>
          PROVE  Last(answered) # k
      BY <1>4, <1>10, <2>4, <3>1, CellThread DEF Moves
    <3>2. CASE client = "cell"
      BY <2>1, <2>4, <3>1, <3>2, CellShowsKept
    <3>3. CASE client # "cell"
      BY <1>2, <2>1, <2>4, <3>3 DEF CellShows
    <3> QED
      BY <3>2, <3>3
  <2> QED
    BY <1>4, <2>2, <2>3, <2>4, DownloadEffect DEF Basis
<1>5. ASSUME NEW x \in Items, GenerateCell(x)
      PROVE  CellShows'
  <2>1. /\ UNCHANGED <<client, running, passed, image, failed, answered>>
        /\ item' = x /\ client = "cell"
    BY <1>5, CellCaller DEF GenerateCell
  <2>2. CASE x \notin Pictured
    <3>1. UNCHANGED <<imageUrls, wanted>>
      BY <1>5, <2>2, CellCaller
    <3> QED
      BY <1>2, <2>1, <2>2, <3>1 DEF CellShows
  <2>3. CASE x \in Pictured
    <3>1. PICK k \in Calls : k = Latest + 1 /\ imageUrls[k] = 0 /\ DownloadImages(k, 1, x)
      BY <1>5, <2>3, CellCaller
    <3>2. /\ imageUrls' \in [Calls -> 0..MaxLinks] /\ imageUrls'[k] = 1 /\ wanted'[k] = x
          /\ pc[k][1] = "none"
          /\ \A l \in Calls : l # k => imageUrls'[l] = imageUrls[l] /\ wanted'[l] = wanted[l]
      BY <3>1, NewCall, Bounds DEF Basis
    <3>3. Latest' = k
      <4>1. /\ LatestOf(imageUrls') \in 0..MaxCalls
            /\ LatestOf(imageUrls') # 0 =>
                 LatestOf(imageUrls') \in Calls /\ imageUrls'[LatestOf(imageUrls')] > 0
            /\ \A j \in Calls : imageUrls'[j] > 0 => j <= LatestOf(imageUrls')
        BY <3>2, LatestIs
      <4>2. PICK m \in 0..MaxCalls : m = Latest'
        BY <1>1, <4>1
      <4>3. /\ m # 0 => m \in Calls /\ imageUrls'[m] > 0
            /\ \A j \in Calls : imageUrls'[j] > 0 => j <= m
        BY <1>1, <4>1, <4>2
      <4>4. k <= m /\ k \in Nat \ {0} /\ m \in Nat
        BY <3>2, <4>3, Bounds
      <4>5. m \in Calls /\ imageUrls'[m] > 0
        BY <4>3, <4>4
      <4>6. ASSUME m # k
            PROVE  FALSE
        <5>1. imageUrls[m] > 0
          BY <3>2, <4>5, <4>6
        <5>2. m <= Latest /\ Latest \in 0..MaxCalls
          BY <4>5, <5>1, LatestIs DEF Latest, LatestOf, Basis, Calling
        <5> QED
          BY <3>1, <4>4, <5>2, Bounds
      <4> QED
        BY <4>2, <4>6
    <3>4. ASSUME answered # <<>>
          PROVE  Last(answered) \in Calls /\ Last(answered) # k
      BY <1>10, <2>1, <3>2, <3>4
    <3> QED
      BY <1>2, <2>1, <3>2, <3>3, <3>4 DEF CellShows
  <2> QED
    BY <2>2, <2>3
<1>6. ASSUME NEW n \in Links, ScreenLoads(n)
      PROVE  CellShows'
  BY <1>2, <1>6 DEF ScreenLoads, CellShows
<1>7. ASSUME NEW k \in Calls, Corrupted(k)
      PROVE  CellShows'
  BY <1>7 DEF Corrupted, CellShows
<1>8. CASE RunMain
  <2>1. /\ mainQ # <<>> /\ Head(mainQ) \in Calls /\ running' = Head(mainQ)
        /\ passed' = imageArray[running'] /\ UNCHANGED <<client, call, failed, outcome>>
    BY <1>8, MainEffect DEF Basis
  <2>2. PICK k \in Calls : k = Head(mainQ)
    BY <2>1
  <2>3. ASSUME client = "cell"
        PROVE  passed' # <<>>
    <3>1. k \in Entries(mainQ)
      BY <2>1, <2>2, EntriesOf DEF Basis, Calling
    <3>2. k \notin failed /\ pc[k][1] = "ended"
      BY <2>3, <3>1 DEF CellAnswers, AnswersOf
    <3>3. imageArray[k] = <<1>>
      BY <2>3, <3>2 DEF CellCalls, OneThread
    <3> QED
      BY <2>1, <2>2, <3>3
  <2>4. Latest' = Latest
    BY <2>1 DEF Latest
  <2>5. UNCHANGED <<client, wanted, item, image, failed, answered>>
    BY <2>1
  <2> QED
    BY <1>2, <2>3, <2>4, <2>5 DEF CellShows
<1>11. CASE MainShows
  <2>1. /\ running \in Calls /\ Completion(running, 0, passed) /\ running' = 0
        /\ UNCHANGED <<client, call, failed>>
    BY <1>11, ShowEffect DEF Basis
  <2>2. ASSUME client = "cell"
        PROVE  passed # <<>> /\ running \notin failed
    BY <1>2, <2>1, <2>2, Bounds DEF CellAnswers, AnswersOf
  <2> QED
    BY <1>3, <2>1, <2>2
<1>9. CASE UNCHANGED vars
  BY <1>9, CellShowsKept DEF vars
<1> QED
  BY <1>4, <1>5, <1>6, <1>7, <1>8, <1>9, <1>11 DEF Next

(* A cell at rest whose latest call was answered last, and had data, has    *)
(* the picture of the item it names, however often it was reused.           *)
THEOREM ShowsTheItem == Spec => []CellShowsItem
<1>1. Init => CellShows
  BY PicturedAssumption, NoImageAssumption DEF Init, CellShows
<1>2. Basis /\ CellShows => CellShowsItem
  <2> SUFFICES ASSUME Basis, CellShows, AtRest, item \in Pictured,
                      answered # <<>>, Last(answered) = Latest, Latest \notin failed
               PROVE  image = item
    BY DEF CellShowsItem
  <2>1. client = "cell"
    BY PicturedAssumption, NoImageAssumption DEF AtRest, CellShows, Basis, Calling
  <2> QED
    BY <2>1 DEF CellShows
<1> QED
  BY <1>1, <1>2, BasisInductive, CellInductive, CellShowsStep, PTL DEF Spec

=============================================================================
