------------------------- MODULE PayloadProcessor -------------------------
(***************************************************************************)
(* The hand-over of payloads between the threads that run an io_context    *)
(* and the thread that called IPayloadProcessor::processPayloadQueue, over *)
(* one AtomicQueue and its condition variable                              *)
(* (src/network/AtomicQueue.cpp, src/network/IPayloadProcessor.cpp).       *)
(*                                                                         *)
(* A push has two steps: the critical section, then notify_all() outside   *)
(* the lock.  The processing thread waits on the condition variable with a *)
(* mutex of its own and without a predicate, so it can go to sleep on a    *)
(* queue that is not empty.                                                *)
(*                                                                         *)
(* The n-th payload pushed is represented by n.                            *)
(***************************************************************************)
EXTENDS Naturals, Sequences, AtomicQueue

CONSTANTS
    Producers,      \* the threads that push into the queue
    MaxPayloads     \* bound: how many payloads are ever pushed

ASSUME MaxPayloadsAssumption == MaxPayloads \in Nat

VARIABLES
    queue,          \* the AtomicQueue
    pushing,        \* the producers between unlock and notify_all()
    pushCount,      \* how many payloads were pushed
    state,          \* where the processing thread is
    payloads,       \* its local queue, filled by popIntoQueue()
    handled,        \* history: the payloads that left the local queue
    dropped,        \* history: those of them the callback never saw
    waitedAt        \* history: pushCount when the last wait began

vars == <<queue, pushing, pushCount, state, payloads, handled, dropped,
          waitedAt>>

\* The processing thread's program counter.
\*   "out"         not inside processPayloadQueue()
\*   "looping"     inside the loop, about to wait
\*   "waiting"     blocked in _cv.wait(lock)
\*   "awake"       the wait has returned, popIntoQueue() is next
\*   "processing"  the local queue is not empty
States == {"out", "looping", "waiting", "awake", "processing"}

Ids == 1..MaxPayloads

TypeOK ==
    /\ queue \in Queues(Ids)
    /\ pushing \subseteq Producers
    /\ pushCount \in 0..MaxPayloads
    /\ state \in States
    /\ payloads \in Seq(Ids)
    /\ handled \in Seq(Ids)
    /\ dropped \subseteq Ids
    /\ waitedAt \in 0..MaxPayloads

Init ==
    /\ queue = EmptyQueue
    /\ pushing = {}
    /\ pushCount = 0
    /\ state = "out"
    /\ payloads = <<>>
    /\ handled = <<>>
    /\ dropped = {}
    /\ waitedAt = 0

-----------------------------------------------------------------------------
(* The producers: AtomicQueue::push.                                       *)

\* A plausible slip: the notification is sent before the payload is in the
\* queue, so that nothing is left to announce once it is.
PushLockedNotifyFirst(p) ==
    /\ p \notin pushing
    /\ pushCount < MaxPayloads
    /\ pushCount' = pushCount + 1
    /\ queue' = push(queue, pushCount + 1)
    /\ UNCHANGED <<pushing, state, payloads, handled, dropped, waitedAt>>

\* The critical section of push().
PushLocked(p) ==
    /\ p \notin pushing
    /\ pushCount < MaxPayloads
    /\ pushCount' = pushCount + 1
    /\ queue' = push(queue, pushCount + 1)
    /\ pushing' = pushing \union {p}
    /\ UNCHANGED <<state, payloads, handled, dropped, waitedAt>>

\* A plausible slip: the waiter is not resumed.
NotifyNobody(p) ==
    /\ p \in pushing
    /\ pushing' = pushing \ {p}
    /\ UNCHANGED <<queue, pushCount, state, payloads, handled, dropped, waitedAt>>

\* _cv.notify_all(): a thread that is not waiting yet misses it.
NotifyAll(p) ==
    /\ p \in pushing
    /\ pushing' = pushing \ {p}
    /\ state' = IF state = "waiting" THEN "awake" ELSE state
    /\ UNCHANGED <<queue, pushCount, payloads, handled, dropped, waitedAt>>

-----------------------------------------------------------------------------
(* The processing thread: IPayloadProcessor::processPayloadQueue.          *)

Call ==
    /\ state = "out"
    /\ state' = "looping"
    /\ UNCHANGED <<queue, pushing, pushCount, payloads, handled, dropped, waitedAt>>

\* waitToBeFilled(): _cv.wait(lock) without looking at the queue.
WaitToBeFilled ==
    /\ state = "looping"
    /\ state' = "waiting"
    /\ waitedAt' = pushCount
    /\ UNCHANGED <<queue, pushing, pushCount, payloads, handled, dropped>>

\* A condition variable may wake its waiter without a notification.
SpuriousWakeup ==
    /\ state = "waiting"
    /\ state' = "awake"
    /\ UNCHANGED <<queue, pushing, pushCount, payloads, handled, dropped, waitedAt>>

\* The inner loop runs while the local queue is not empty.
AfterBatch(rest) == IF rest = <<>> THEN "looping" ELSE "processing"

\* A plausible slip: the payloads are copied and left in the queue.
DrainCopying ==
    /\ state = "awake"
    /\ payloads' = queue.items
    /\ state' = AfterBatch(payloads')
    /\ UNCHANGED <<queue, pushing, pushCount, handled, dropped, waitedAt>>

\* auto payloads = _queue->popIntoQueue()
Drain ==
    /\ state = "awake"
    /\ payloads' = queue.items
    /\ queue' = popIntoQueue(queue)
    /\ state' = AfterBatch(payloads')
    /\ UNCHANGED <<pushing, pushCount, handled, dropped, waitedAt>>

\* processor(payloads.front()) returned false: pop it and go on.
Process ==
    /\ state = "processing"
    /\ handled' = Append(handled, Head(payloads))
    /\ payloads' = Tail(payloads)
    /\ state' = AfterBatch(payloads')
    /\ UNCHANGED <<queue, pushing, pushCount, dropped, waitedAt>>

\* processor(payloads.front()) returned true: processPayloadQueue() returns,
\* and its local queue goes with it.
ProcessAndBreak ==
    /\ state = "processing"
    /\ handled' = handled \o payloads
    /\ dropped' = dropped \union {Tail(payloads)[i] : i \in DOMAIN Tail(payloads)}
    /\ payloads' = <<>>
    /\ state' = "out"
    /\ UNCHANGED <<queue, pushing, pushCount, waitedAt>>

-----------------------------------------------------------------------------
Next ==
    \/ \E p \in Producers : PushLocked(p) \/ NotifyAll(p)
    \/ Call
    \/ WaitToBeFilled
    \/ SpuriousWakeup
    \/ Drain
    \/ Process
    \/ ProcessAndBreak

Spec == Init /\ [][Next]_vars

\* Both threads are scheduled: a push that has left its critical section
\* notifies, a processing thread that can run does.  Nothing is assumed of
\* SpuriousWakeup, of Call, or of what the callback returns.
Fairness ==
    /\ \A p \in Producers : WF_vars(NotifyAll(p))
    /\ WF_vars(WaitToBeFilled)
    /\ WF_vars(Drain)
    /\ WF_vars(Process \/ ProcessAndBreak)

FairSpec == Spec /\ Fairness

-----------------------------------------------------------------------------
(* Safety.                                                                 *)

\* Every payload pushed is in exactly one place, and the places are in the
\* order of the pushes: what the processing thread is done with, then its
\* local queue, then the shared queue.  Nothing is lost, duplicated or
\* overtaken between push(), popIntoQueue() and the processing loop, also
\* when the callback breaks the loop and processPayloadQueue() is called
\* again.
PushOrder == [i \in 1..pushCount |-> i]

InOrder == handled \o payloads \o queue.items = PushOrder

\* The window in which a wake-up is lost is the one before the wait: if the
\* processing thread sleeps although something was pushed after it fell
\* asleep, a notify_all() is still to come.  (A payload pushed earlier can be
\* left in the queue: see EveryPayloadProcessed.)
LaterPushWillNotify ==
    state = "waiting" /\ pushCount > waitedAt => pushing # {}

-----------------------------------------------------------------------------
(* Liveness.                                                               *)

\* The callback was given payload i.
Processed(i) == i \notin dropped /\ \E k \in DOMAIN handled : handled[k] = i

Queued(i) == \E k \in DOMAIN queue.items : queue.items[k] = i

\* What the code guarantees: a notification that finds the processing thread
\* asleep gets everything queued so far processed, payloads stranded by an
\* earlier lost wake-up included, unless the callback stops the processing.
NotifiedQueueDrains ==
    \A i \in Ids :
        (Queued(i) /\ state = "waiting" /\ pushing # {})
            ~> (Processed(i) \/ state = "out")

\* What the network test expects of the code: a payload pushed into the queue
\* is processed once processPayloadQueue() runs (and does not return first).
EveryPayloadProcessed ==
    \A i \in Ids :
        (Queued(i) /\ state # "out") ~> (Processed(i) \/ state = "out")
=============================================================================
