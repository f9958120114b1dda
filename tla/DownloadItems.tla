---------------------------- MODULE DownloadItems ----------------------------
(***************************************************************************)
(* One call of downloadItems: a read per item, counted as they come.       *)
(*                                                                         *)
(* Firestore answers the reads in any order, on the main queue.  The       *)
(* callbacks share count and itemArray; each may call completion.  Items   *)
(* are named by their position in withIds, which stands for its length.    *)
(***************************************************************************)
EXTENDS Naturals, Sequences, FiniteSets

CONSTANTS
    NotCalled,   \* the call has not been made
    MaxIds       \* bound: items of the call

ASSUME NotCalledAssumption == NotCalled \notin Nat
ASSUME MaxIdsAssumption == MaxIds \in Nat

VARIABLES
    withIds,     \* the number of ids
    waiting,     \* the reads without an answer
    itemArray,
    count,
    answers      \* history: the lists completion was called with

vars == <<withIds, waiting, itemArray, count, answers>>

Positions == 1..MaxIds

TypeOK ==
    /\ withIds \in 0..MaxIds \cup {NotCalled}
    /\ waiting \in SUBSET Positions
    /\ itemArray \in Seq(Positions)
    /\ count \in Nat
    /\ answers \in Seq(Seq(Positions))

Init ==
    /\ withIds = NotCalled
    /\ waiting = {}
    /\ itemArray = <<>>
    /\ count = 0
    /\ answers = <<>>

\* Mutant: the loop runs once too often.
CallFromZero(n) ==
    /\ withIds = NotCalled
    /\ withIds' = n
    /\ waiting' = 0..n
    /\ answers' = IF n = 0 THEN Append(answers, itemArray) ELSE answers
    /\ UNCHANGED <<itemArray, count>>

\* downloadItems: without ids completion is called at once.
Call(n) ==
    /\ withIds = NotCalled
    /\ withIds' = n
    /\ waiting' = 1..n
    /\ answers' = IF n = 0 THEN Append(answers, itemArray) ELSE answers
    /\ UNCHANGED <<itemArray, count>>

-----------------------------------------------------------------------------
(* The completion of getDocument, by what the snapshot is.                  *)

Answer(i) == i \in waiting /\ waiting' = waiting \ {i} /\ UNCHANGED withIds

\* Mutants: a missing item is counted; the count is compared before it is raised.
NotThereCounted(i) ==
    /\ Answer(i)
    /\ count' = count + 1
    /\ answers' = Append(answers, itemArray) \o
                  (IF count' = withIds THEN <<itemArray>> ELSE <<>>)
    /\ UNCHANGED itemArray
ThereLate(i) ==
    /\ Answer(i)
    /\ itemArray' = Append(itemArray, i)
    /\ answers' = IF count = withIds THEN Append(answers, itemArray') ELSE answers
    /\ count' = count + 1

\* snapshot.exists
There(i) ==
    /\ Answer(i)
    /\ itemArray' = Append(itemArray, i)
    /\ count' = count + 1
    /\ answers' = IF count' = withIds THEN Append(answers, itemArray') ELSE answers

\* There is no such document: completion, then the same comparison.
NotThere(i) ==
    /\ Answer(i)
    /\ answers' = Append(answers, itemArray) \o
                  (IF count = withIds THEN <<itemArray>> ELSE <<>>)
    /\ UNCHANGED <<itemArray, count>>

\* The read failed: completion and return.
NoSnapshot(i) ==
    /\ Answer(i)
    /\ answers' = Append(answers, itemArray)
    /\ UNCHANGED <<itemArray, count>>

GotDocument(i) == There(i) \/ NotThere(i) \/ NoSnapshot(i)

Next == (\E n \in 0..MaxIds : Call(n)) \/ (\E i \in Positions : GotDocument(i))

Spec == Init /\ [][Next]_vars

\* Firestore answers every read: from the server, the cache, or with an error.
FairSpec == Spec /\ \A i \in Positions : WF_vars(GotDocument(i))

-----------------------------------------------------------------------------
(* Properties.                                                              *)

\* Every read is waiting, or its item is in the array, or completion was
\* called for its absence; once all items are there completion was called
\* exactly once.  In particular a caller gets as many lists as items are
\* missing, and one if none is.
ReadsAccounted ==
    withIds # NotCalled =>
        IF count = withIds
        THEN waiting = {} /\ Len(answers) = 1
        ELSE Cardinality(waiting) + count + Len(answers) = withIds

\* The call keeps the promise of Delivery: all items once, or growing lists
\* that lack some, and always an answer.
Promise == INSTANCE Delivery
Delivers == Promise!FairSpec

=============================================================================
