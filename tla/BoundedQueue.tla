---------------------------- MODULE BoundedQueue ----------------------------
(***************************************************************************)
(* What a SpscRing promises its two users: a FIFO queue that holds at most *)
(* Bound elements.  delivered is the caller's output argument of pop(): it *)
(* keeps the last element the consumer was given.                          *)
(* A push on a full queue and a pop on an empty one return false and       *)
(* change nothing, so they are stuttering steps here.                      *)
(***************************************************************************)
EXTENDS Naturals, Sequences

CONSTANTS Data,   \* the elements
          Zero,   \* what the caller's output argument holds before any pop
          Bound   \* capacityUsable()

VARIABLES queue, delivered

vars == <<queue, delivered>>

Init == /\ queue = <<>>
        /\ delivered = Zero

Enqueue(v) == /\ Len(queue) < Bound
              /\ queue' = Append(queue, v)
              /\ UNCHANGED delivered

Dequeue == /\ queue # <<>>
           /\ delivered' = Head(queue)
           /\ queue' = Tail(queue)

Next == Dequeue \/ \E v \in Data : Enqueue(v)

Spec == Init /\ [][Next]_vars
=============================================================================
