----------------------------- MODULE EventQueue -----------------------------
(***************************************************************************)
(* What a TaskScheduler promises to those who post events: a bounded queue *)
(* whose events are run one by one, in the order in which they were        *)
(* posted, each once.                                                      *)
(***************************************************************************)
EXTENDS Naturals, Sequences

CONSTANTS
  Events,    \* what can be posted
  NoEvent,   \* nothing is run yet
  Capacity   \* how many events wait at most

VARIABLES
  queue,    \* the events that wait
  current   \* the event run last

Init == queue = <<>> /\ current = NoEvent

Post == /\ Len(queue) < Capacity
        /\ \E e \in Events : queue' = Append(queue, e)
        /\ UNCHANGED current

Take == /\ queue # <<>>
        /\ current' = Head(queue)
        /\ queue' = Tail(queue)

Spec == Init /\ [][Post \/ Take]_<<queue, current>>
=============================================================================
