------------------------------ MODULE Publish ------------------------------
(***************************************************************************)
(* What the Add Item form promises about the items it is asked to publish. *)
(*                                                                         *)
(* An item asked for without pictures is published at once.  One with      *)
(* pictures is published later or never, and if it is, then once, with a   *)
(* link to each of its pictures, in any order.                             *)
(***************************************************************************)
EXTENDS SequencesExt

CONSTANTS
    Presses,     \* the presses of Done, each of which asks for an item
    Pictures,
    NotAsked,
    NotSaved

VARIABLES
    pictures,    \* the pictures an item was asked for with
    published    \* the links of an item, or NotSaved

vars == <<pictures, published>>

Init ==
    /\ pictures = [p \in Presses |-> NotAsked]
    /\ published = [p \in Presses |-> NotSaved]

Ask(p) ==
    /\ pictures[p] = NotAsked
    /\ \E s \in SUBSET Pictures :
          /\ pictures' = [pictures EXCEPT ![p] = s]
          /\ published' = [published EXCEPT ![p] = IF s = {} THEN <<>> ELSE NotSaved]

PublishItem(p) ==
    /\ pictures[p] # NotAsked
    /\ published[p] = NotSaved
    /\ \E links \in SetToSeqs(pictures[p]) : published' = [published EXCEPT ![p] = links]
    /\ UNCHANGED pictures

Next == \E p \in Presses : Ask(p) \/ PublishItem(p)

Spec == Init /\ [][Next]_vars

=============================================================================
