------------------------------ MODULE EventFifo ------------------------------
(***************************************************************************)
(* What EventQueue promises its users: events pushed by any thread are     *)
(* dispatched once each, in the order in which they were pushed, by the    *)
(* one thread that processes them.  Once the queue is being destroyed the  *)
(* events it still holds are discarded, also in order.                     *)
(***************************************************************************)
EXTENDS Sequences

CONSTANT Event

VARIABLES
    waiting,   \* events pushed and not yet dispatched
    taken,     \* events dispatched, in order
    closed     \* destruction has begun

fifoVars == <<waiting, taken, closed>>

Init == waiting = <<>> /\ taken = <<>> /\ closed = FALSE

Push(e) ==
    /\ waiting' = Append(waiting, e)
    /\ UNCHANGED <<taken, closed>>

Take ==
    /\ waiting # <<>> /\ ~closed
    /\ taken' = Append(taken, Head(waiting))
    /\ waiting' = Tail(waiting)
    /\ UNCHANGED closed

Close == ~closed /\ closed' = TRUE /\ UNCHANGED <<waiting, taken>>

Discard ==
    /\ waiting # <<>> /\ closed
    /\ waiting' = Tail(waiting)
    /\ UNCHANGED <<taken, closed>>

Next == Take \/ Close \/ Discard \/ \E e \in Event : Push(e)

Spec == Init /\ [][Next]_fifoVars
=============================================================================
