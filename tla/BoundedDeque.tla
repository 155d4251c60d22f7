----------------------------- MODULE BoundedDeque -----------------------------
(***************************************************************************)
(* What a mailbox promises: a double-ended queue of bounded capacity.      *)
(* Ordinary messages enter at the back, urgent ones at the front, and      *)
(* messages leave at the front, each exactly once.                         *)
(***************************************************************************)
EXTENDS Integers, Sequences

CONSTANTS Mailbox, Message

VARIABLES queue, capacity

Init ==
  /\ queue = [m \in Mailbox |-> <<>>]
  /\ capacity \in [Mailbox -> Nat]

Full(m) == Len(queue[m]) >= capacity[m]
Empty(m) == queue[m] = <<>>

PushBack(m, x) ==
  /\ ~Full(m)
  /\ queue' = [queue EXCEPT ![m] = Append(@, x)]

PushFront(m, x) ==
  /\ ~Full(m)
  /\ queue' = [queue EXCEPT ![m] = <<x>> \o @]

PopFront(m) ==
  /\ ~Empty(m)
  /\ queue' = [queue EXCEPT ![m] = Tail(@)]

Next ==
  /\ \E m \in Mailbox :
       \/ \E x \in Message : PushBack(m, x) \/ PushFront(m, x)
       \/ PopFront(m)
  /\ UNCHANGED capacity

Spec == Init /\ [][Next]_<<queue, capacity>>
=============================================================================
