----------------------------- MODULE WorkQueue ------------------------------
(***************************************************************************)
(* httpserver.cpp: the WorkQueue that hands HTTP requests to the RPC       *)
(* worker threads.  A step is a critical section of cs, or the part of a   *)
(* work item between two of them.  The worker threads are detached, so     *)
(* one may start at any time, even when the queue is gone.                 *)
(***************************************************************************)
EXTENDS Naturals, FiniteSets, Sequences, Functions

CONSTANTS Workers, Items, NoItem, maxDepth

ASSUME WorkQueueAssumption == maxDepth \in Nat \ {0} /\ NoItem \notin Items

VARIABLES
    queue, accepting,   \* the deque, and `running'
    numThreads,
    worker,             \* [Workers -> where in Run]
    item,               \* the item a worker runs
    awake,              \* waiting workers that were notified
    answered, refused,  \* requests handled, and refused with HTTP_INTERNAL
    deleted,            \* StopHTTPServer has deleted the queue
    usedAfterDelete

workVars == <<queue, accepting, numThreads, worker, item, awake, answered, refused,
              deleted, usedAfterDelete>>

WorkInit ==
    /\ queue = <<>> /\ accepting = TRUE /\ numThreads = 0
    /\ worker = [w \in Workers |-> "unstarted"]
    /\ item = [w \in Workers |-> NoItem]
    /\ awake = {} /\ answered = {} /\ refused = {}
    /\ deleted = FALSE /\ usedAfterDelete = FALSE

Sleeping == {w \in Workers : worker[w] = "wait"}

Seen == Range(queue) \cup {item[w] : w \in Workers} \cup answered \cup refused

\* http_request_cb: Enqueue, or the answer "Work queue depth exceeded".
Enqueue(i) ==
    /\ ~deleted /\ i \notin Seen
    /\ \/ /\ Len(queue) >= maxDepth
          /\ refused' = refused \cup {i}
          /\ UNCHANGED <<queue, awake>>
       \/ /\ Len(queue) < maxDepth
          /\ queue' = Append(queue, i)
          /\ IF Sleeping \ awake = {} THEN UNCHANGED awake
             ELSE \E w \in Sleeping \ awake : awake' = awake \cup {w}
          /\ UNCHANGED refused
    /\ UNCHANGED <<accepting, numThreads, worker, item, answered, deleted, usedAfterDelete>>

\* HTTPWorkQueueRun: the ThreadCounter is made by the thread itself.
StartWorker(w) ==
    /\ worker[w] = "unstarted"
    /\ IF deleted
       THEN /\ usedAfterDelete' = TRUE
            /\ worker' = [worker EXCEPT ![w] = "undefined"]
            /\ UNCHANGED numThreads
       ELSE /\ numThreads' = numThreads + 1
            /\ worker' = [worker EXCEPT ![w] = "loop"]
            /\ UNCHANGED usedAfterDelete
    /\ UNCHANGED <<queue, accepting, item, awake, answered, refused, deleted>>

\* The loop of Run up to the item: wait, break or take the first item.
Take(w) ==
    /\ awake' = awake \ {w}
    /\ \/ /\ accepting /\ queue = <<>>
          /\ worker' = [worker EXCEPT ![w] = "wait"]
          /\ UNCHANGED <<queue, item>>
       \/ /\ ~accepting
          /\ worker' = [worker EXCEPT ![w] = "break"]
          /\ UNCHANGED <<queue, item>>
       \/ /\ accepting /\ queue # <<>>
          /\ item' = [item EXCEPT ![w] = Head(queue)]
          /\ queue' = Tail(queue)
          /\ worker' = [worker EXCEPT ![w] = "busy"]
    /\ UNCHANGED <<accepting, numThreads, answered, refused, deleted, usedAfterDelete>>

NextItem(w) == worker[w] = "loop" /\ Take(w)

WorkerWoken(w) == worker[w] = "wait" /\ w \in awake /\ Take(w)

WorkerWakesSpuriously(w) == worker[w] = "wait" /\ w \notin awake /\ Take(w)

\* (*i)() returns.
ItemDone(w) ==
    /\ worker[w] = "busy"
    /\ answered' = answered \cup {item[w]}
    /\ item' = [item EXCEPT ![w] = NoItem]
    /\ worker' = [worker EXCEPT ![w] = "loop"]
    /\ UNCHANGED <<queue, accepting, numThreads, awake, refused, deleted, usedAfterDelete>>

\* ~ThreadCounter; the only other waiter is WaitExit, which looks again.
LeaveRun(w) ==
    /\ worker[w] = "break"
    /\ numThreads' = numThreads - 1
    /\ worker' = [worker EXCEPT ![w] = "left"]
    /\ awake' = Sleeping
    /\ UNCHANGED <<queue, accepting, item, answered, refused, deleted, usedAfterDelete>>

\* WorkQueue::Interrupt
InterruptQueue ==
    /\ accepting' = FALSE
    /\ awake' = Sleeping
    /\ UNCHANGED <<queue, numThreads, worker, item, answered, refused, deleted, usedAfterDelete>>

\* Slip: the queue is deleted once nobody takes items any more.
NobodyBusy == \A w \in Workers : worker[w] # "busy"

AllExited == numThreads = 0

\* StopHTTPServer: WaitExit returns and the queue is deleted.
WaitExit ==
    /\ AllExited
    /\ deleted' = TRUE
    /\ UNCHANGED <<queue, accepting, numThreads, worker, item, awake, answered, refused, usedAfterDelete>>

=============================================================================
