-------------------------------- MODULE TCPQueue --------------------------------
(***************************************************************************)
(* COMMON/TCPQueue.c: a ring of pointers to packets.  The functions are    *)
(* given here as what they do to a queue; in which steps a task does it,   *)
(* and what may happen between the steps, is for the users of the queue.   *)
(***************************************************************************)
EXTENDS Integers, Sequences

CONSTANTS
  MaxPointNumInQueue,  \* the slots of the ring
  NULL                 \* the null pointer

ASSUME QueueAssumption == MaxPointNumInQueue \in Nat \ {0}

Indices == 0 .. MaxPointNumInQueue - 1

\* initQueue.  The pointers are not initialised; none is read before it is set.
initQueue == [pBase |-> [k \in Indices |-> NULL], front |-> 0, rear |-> 0]

\* Fault: the index does not wrap.
Following_NoWrap(k) == k + 1

Following(k) == (k + 1) % MaxPointNumInQueue

isEmpityQueue(q) == q.front = q.rear

\* Fault: the ring may fill up until rear meets front.
isFullQueue_Never(q) == FALSE

\* One slot is left unused.
isFullQueue(q) == Following(q.rear) = q.front

Length(q) == (q.rear - q.front) % MaxPointNumInQueue

\* The pointers in the queue, oldest first.
Items(q) ==
  [k \in 1 .. Length(q) |-> q.pBase[(q.front + k - 1) % MaxPointNumInQueue]]

\* enQueue: the pointer is stored, and later counted in.
Stored(q, p) == [q EXCEPT !.pBase[q.rear] = p]
Pushed(q) == [q EXCEPT !.rear = Following(@)]

\* deQueue: the pointer is counted out.
Popped(q) == [q EXCEPT !.front = Following(@)]

\* destroyQueue.
Destroyed(q) ==
  [pBase |-> [k \in Indices |->
     IF \E d \in 0 .. Length(q) - 1 : k = (q.front + d) % MaxPointNumInQueue
       THEN NULL ELSE q.pBase[k]],
   front |-> 0, rear |-> 0]
=============================================================================
