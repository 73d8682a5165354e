---------------------------- MODULE AtomicQueue ----------------------------
(***************************************************************************)
(* The mutexed queue of src/network/AtomicQueue.{h,cpp}.                   *)
(*                                                                         *)
(* The queue's state is a record: the std::queue it inherits from, and the *)
(* atomic flag _isQueueEmpty that empty() reads without the mutex.  Every  *)
(* operator below is one critical section of the class, so an action of    *)
(* the modules that use a queue applies one operator per step.  What       *)
(* push() does after its critical section, notifying the condition         *)
(* variable, is a step of its own: see PayloadProcessor.                   *)
(***************************************************************************)
EXTENDS Sequences

\* A queue as its constructor leaves it.
EmptyQueue == [items |-> <<>>, isQueueEmpty |-> TRUE]

\* The flag agrees with the queue whenever the mutex is free.
Queues(T) ==
    {q \in [items : Seq(T), isQueueEmpty : BOOLEAN] :
        q.isQueueEmpty <=> q.items = <<>>}

popLeavingFlag(q) == [q EXCEPT !.items = Tail(@)]

popIntoQueueLeavingFlag(q) == [q EXCEPT !.items = <<>>]

\* The locked part of push(): the flag is cleared under the same lock.
push(q, val) == [items |-> Append(q.items, val), isQueueEmpty |-> FALSE]

\* front() and pop() assert that the queue is not empty.
Assertable(q) == q.items # <<>>

front(q) == Head(q.items)

pop(q) == [items |-> Tail(q.items), isQueueEmpty |-> Tail(q.items) = <<>>]

\* popIntoQueue() moves everything out under one lock; the caller gets
\* q.items, the queue is left empty.
popIntoQueue(q) == [items |-> <<>>, isQueueEmpty |-> TRUE]
=============================================================================
