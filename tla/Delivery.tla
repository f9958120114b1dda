------------------------------ MODULE Delivery ------------------------------
(***************************************************************************)
(* What a caller of downloadItems can count on.                            *)
(*                                                                         *)
(* A call for a number of items is answered either once, with all of them  *)
(* in any order, or with lists that lack some, each at least as long as    *)
(* the one before.  Items are named by their position in the call.         *)
(***************************************************************************)
EXTENDS Naturals, Sequences, Functions

CONSTANTS
    NotCalled,   \* the call has not been made
    MaxIds       \* bound: items of a call

VARIABLES
    withIds,     \* the number of items called for
    answers      \* the lists the caller was given

vars == <<withIds, answers>>

\* The lists of k of the n items, without repetition.
Lists(k, n) == Injection(1..k, 1..n)

\* A list that starts with another one.
Extends(t, s) == Len(s) <= Len(t) /\ \A i \in 1..Len(s) : s[i] = t[i]

Init == withIds = NotCalled /\ answers = <<>>

Call(n) ==
    /\ withIds = NotCalled
    /\ withIds' = n
    /\ answers' = IF n = 0 THEN << <<>> >> ELSE <<>>

AnswerAll ==
    /\ withIds \in 1..MaxIds
    /\ answers = <<>>
    /\ \E s \in Lists(withIds, withIds) : answers' = <<s>>
    /\ UNCHANGED withIds

AnswerSome ==
    /\ withIds \in 1..MaxIds
    /\ Len(answers) < withIds
    /\ \A i \in DOMAIN answers : Len(answers[i]) < withIds
    /\ \E k \in 0..(withIds - 1) : \E s \in Lists(k, withIds) :
          /\ \A i \in DOMAIN answers : Extends(s, answers[i])
          /\ answers' = Append(answers, s)
    /\ UNCHANGED withIds

FirstAnswer == answers = <<>> /\ (AnswerAll \/ AnswerSome)

Next == (\E n \in 0..MaxIds : Call(n)) \/ AnswerAll \/ AnswerSome

Spec == Init /\ [][Next]_vars

\* A call that was made is answered.
FairSpec == Spec /\ WF_vars(FirstAnswer)

=============================================================================
