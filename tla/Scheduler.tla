----------------------------- MODULE Scheduler ------------------------------
(***************************************************************************)
(* scheduler.cpp: CScheduler, and SingleThreadedSchedulerClient on top of  *)
(* it, which runs the callbacks of the validation interface one at a time  *)
(* and in order although several threads may serve the scheduler.          *)
(*                                                                         *)
(* A step is a critical section of newTaskMutex or m_cs_callbacks_pending. *)
(* Tasks scheduled for "now" are ProcessQueue calls; one scheduleEvery     *)
(* task, "tick", stands for the tasks of the future.                       *)
(***************************************************************************)
EXTENDS Naturals, FiniteSets, Sequences, Functions

CONSTANTS
    Servers,    \* threads that run serviceQueue
    Clients,    \* other threads that call AddToProcessQueue
    Callbacks,
    NoCallback

ASSUME SchedulerAssumption == Servers \cap Clients = {} /\ NoCallback \notin Callbacks

VARIABLES
    taskQueue,      \* of "process" and "tick", by time
    future,         \* the time of the tick in taskQueue has not come
    service,        \* [Servers -> where in serviceQueue]
    notified,       \* waiting servers that were notified
    expired,        \* servers whose wait_until has reached its time
    nThreadsServicingQueue,
    stopRequested, stopWhenEmpty,
    interrupted,    \* thread_group::interrupt_all was called
    pending,        \* m_callbacks_pending
    running,        \* m_are_callbacks_running
    op,             \* [Servers \cup Clients -> where in the client's methods]
    current,        \* the callback a thread runs
    added, finished \* callbacks in the order they were added, and finished

taskVars == <<taskQueue, future>>
loopVars == <<service, notified, expired, nThreadsServicingQueue>>
stopVars == <<stopRequested, stopWhenEmpty, interrupted>>
clientVars == <<pending, running, op, current, added, finished>>
schedulerVars == <<taskVars, loopVars, stopVars, clientVars>>

Threads == Servers \cup Clients

SchedulerInit ==
    /\ taskQueue = <<"tick">> /\ future = TRUE
    /\ service = [t \in Servers |-> "unstarted"]
    /\ notified = {} /\ expired = {} /\ nThreadsServicingQueue = 0
    /\ stopRequested = FALSE /\ stopWhenEmpty = FALSE /\ interrupted = FALSE
    /\ pending = <<>> /\ running = FALSE
    /\ op = [th \in Threads |-> "none"]
    /\ current = [th \in Threads |-> NoCallback]
    /\ added = <<>> /\ finished = <<>>

-----------------------------------------------------------------------------
(* CScheduler.                                                             *)

shouldStop == stopRequested \/ (stopWhenEmpty /\ taskQueue = <<>>)

\* The time of the first task has come.
FirstIsDue == taskQueue # <<>> /\ (Head(taskQueue) = "tick" => ~future)

Waiting == {t \in Servers : service[t] \in {"wait", "until"}}

\* Slip: nobody is notified.
NotifyNone(waiting) == notified' = notified \cap waiting

\* notify_one: some thread that waits and is not awake yet, if there is one.
NotifyOne(waiting) ==
    IF waiting \ notified = {} THEN notified' = notified \cap waiting
    ELSE \E w \in waiting \ notified : notified' = (notified \cap waiting) \cup {w}

\* Where t goes when it holds the mutex and looks at the queue, as one of n
\* threads: it leaves, or waits; an interrupted thread leaves at the wait, and
\* tells nobody.
Proceed(t, n) ==
    \/ /\ shouldStop
       /\ service' = [service EXCEPT ![t] = "left"]
       /\ nThreadsServicingQueue' = n - 1
       /\ expired' = expired \ {t}
       /\ NotifyOne(Waiting \ {t})
    \/ /\ interrupted /\ (shouldStop => t \in Waiting)
       /\ service' = [service EXCEPT ![t] = "left"]
       /\ nThreadsServicingQueue' = n - 1
       /\ expired' = expired \ {t}
       /\ notified' = notified \ {t}
    \/ /\ ~shouldStop /\ ~interrupted
       /\ service' = [service EXCEPT ![t] = IF taskQueue = <<>> THEN "wait" ELSE "until"]
       /\ expired' = IF FirstIsDue THEN expired \cup {t} ELSE expired \ {t}
       /\ notified' = notified \ {t}
       /\ nThreadsServicingQueue' = n

\* serviceQueue is entered.
StartServer(t) ==
    /\ service[t] = "unstarted"
    /\ Proceed(t, nThreadsServicingQueue + 1)
    /\ UNCHANGED <<taskVars, stopVars, clientVars>>

\* A wait ends.
Wake(t) ==
    /\ t \in Waiting /\ Proceed(t, nThreadsServicingQueue)
    /\ UNCHANGED <<taskVars, stopVars, clientVars>>

WakeNotified(t) == (t \in notified \/ interrupted) /\ Wake(t)

WakeSpuriously(t) == t \notin notified /\ ~interrupted /\ Wake(t)

\* wait_until times out.  The first task of the queue is taken, which need not
\* be the one whose time was waited for.
TimeOut(t) ==
    /\ service[t] = "until" /\ t \in expired /\ ~interrupted
    /\ \/ /\ shouldStop \/ taskQueue = <<>>
          /\ Proceed(t, nThreadsServicingQueue)
          /\ UNCHANGED <<taskQueue, op>>
       \/ /\ ~shouldStop /\ taskQueue # <<>>
          /\ taskQueue' = Tail(taskQueue)
          /\ service' = [service EXCEPT ![t] = Head(taskQueue)]
          /\ op' = IF Head(taskQueue) = "process" THEN [op EXCEPT ![t] = "process"] ELSE op
          /\ expired' = expired \ {t} /\ notified' = notified \ {t}
          /\ UNCHANGED nThreadsServicingQueue
    /\ UNCHANGED <<future, stopVars, pending, running, current, added, finished>>

\* f() has returned and the mutex is locked again.
TaskDone(t) ==
    /\ service[t] = "process" /\ op[t] = "none"
    /\ Proceed(t, nThreadsServicingQueue)
    /\ UNCHANGED <<taskVars, stopVars, clientVars>>

\* Repeat: the periodic task has run and schedules itself again.
Repeat(t) ==
    /\ service[t] = "tick"
    /\ taskQueue' = Append(taskQueue, "tick") /\ future' = TRUE
    /\ service' = [service EXCEPT ![t] = "process"]
    /\ NotifyOne(Waiting)
    /\ UNCHANGED <<expired, nThreadsServicingQueue, stopVars, clientVars>>

\* The clock reaches the time of the periodic task, and so of every wait_until
\* on it.
ClockTick ==
    /\ "tick" \in Range(taskQueue) /\ future /\ future' = FALSE
    /\ expired' = expired \cup {t \in Servers : service[t] = "until"}
    /\ UNCHANGED <<taskQueue, service, notified, nThreadsServicingQueue, stopVars, clientVars>>

Stop(drain) ==
    /\ stopWhenEmpty' = (stopWhenEmpty \/ drain)
    /\ stopRequested' = (stopRequested \/ ~drain)
    /\ notified' = Waiting
    /\ UNCHANGED <<taskVars, service, expired, nThreadsServicingQueue, interrupted, clientVars>>

-----------------------------------------------------------------------------
(* SingleThreadedSchedulerClient.                                          *)

\* AddToProcessQueue up to MaybeScheduleProcessQueue.
AddToProcessQueue(th, c) ==
    /\ op[th] = "none"
    /\ pending' = Append(pending, c)
    /\ added' = Append(added, c)
    /\ op' = [op EXCEPT ![th] = "maybe"]
    /\ UNCHANGED <<taskVars, loopVars, stopVars, running, current, finished>>

\* The early returns of MaybeScheduleProcessQueue.
MaybeScheduleProcessQueue(th) ==
    /\ op[th] = "maybe"
    /\ op' = [op EXCEPT ![th] = IF running \/ pending = <<>> THEN "none" ELSE "schedule"]
    /\ UNCHANGED <<taskVars, loopVars, stopVars, pending, running, current, added, finished>>

\* taskQueue.insert at a time before that of the last task.
BeforeLast(s, task) == SubSeq(s, 1, Len(s) - 1) \o <<task>> \o SubSeq(s, Len(s), Len(s))

\* CScheduler::schedule for now.
Schedule(th) ==
    /\ op[th] = "schedule"
    /\ taskQueue' = IF "tick" \in Range(taskQueue) /\ future
                    THEN BeforeLast(taskQueue, "process")
                    ELSE Append(taskQueue, "process")
    /\ NotifyOne(Waiting)
    /\ op' = [op EXCEPT ![th] = "none"]
    /\ UNCHANGED <<future, service, expired, nThreadsServicingQueue, stopVars,
                   pending, running, current, added, finished>>

\* Slip: ProcessQueue does not look whether a callback runs.
PendingOnly == pending # <<>>

MayProcess == ~running /\ pending # <<>>

\* ProcessQueue up to the call.
ProcessQueue(th) ==
    /\ op[th] = "process"
    /\ IF MayProcess
       THEN /\ running' = TRUE
            /\ current' = [current EXCEPT ![th] = Head(pending)]
            /\ pending' = Tail(pending)
            /\ op' = [op EXCEPT ![th] = "callback"]
       ELSE /\ op' = [op EXCEPT ![th] = "none"]
            /\ UNCHANGED <<running, current, pending>>
    /\ UNCHANGED <<taskVars, loopVars, stopVars, added, finished>>

\* Slip: ProcessQueue does not schedule itself for what came in meanwhile.
AfterCallbackNothing == "none"

AfterCallback == "maybe"

\* The callback returns; ~RAIICallbacksRunning.
CallbackDone(th) ==
    /\ op[th] = "callback"
    /\ running' = FALSE
    /\ finished' = Append(finished, current[th])
    /\ current' = [current EXCEPT ![th] = NoCallback]
    /\ op' = [op EXCEPT ![th] = AfterCallback]
    /\ UNCHANGED <<taskVars, loopVars, stopVars, pending, added>>

=============================================================================
