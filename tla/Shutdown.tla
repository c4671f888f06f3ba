------------------------------ MODULE Shutdown ------------------------------
(***************************************************************************)
(* The scheduler, the HTTP work queue and the sequence that stops them:    *)
(* Interrupt, join_all (bitcoind.cpp) and Shutdown (init.cpp), beside RPC  *)
(* handlers that wait for the validation callbacks (BlockUntilSynced-      *)
(* ToCurrentChain, sendrawtransaction) and a message handler thread that   *)
(* makes callbacks.                                                        *)
(***************************************************************************)
EXTENDS Scheduler, WorkQueue

CONSTANTS
    Net, Main,          \* the message handler thread and the main thread
    NetCallbacks,       \* callbacks of blocks and transactions from peers
    SyncItems,          \* requests whose handler waits for the callbacks
    Best1, Best2,       \* SetBestChain of the two FlushStateToDisk
    Stops               \* the values of drain that stop is called with

ASSUME ShutdownAssumption ==
    /\ Clients = Workers \cup {Net, Main}
    /\ Net # Main /\ {Net, Main} \cap Workers = {}
    /\ IsFiniteSet(Servers) /\ IsFiniteSet(Workers)
    /\ Callbacks = NetCallbacks \cup SyncItems \cup {Best1, Best2}
    /\ SyncItems \subseteq Items /\ Stops \subseteq BOOLEAN

VARIABLES
    phase,          \* how far the main thread is
    assertFailed    \* in EmptyQueue

vars == <<schedulerVars, workVars, phase, assertFailed>>

Init ==
    /\ SchedulerInit /\ WorkInit
    /\ phase = "up" /\ assertFailed = FALSE

Added == Range(added)
Finished == Range(finished)

-----------------------------------------------------------------------------
(* Threads that make callbacks.                                            *)

\* CMainSignals::BlockConnected and the like, until g_connman is stopped.
NetSignal(c) ==
    /\ phase \in {"up", "join", "http", "net"} /\ c \notin Added
    /\ AddToProcessQueue(Net, c)
    /\ UNCHANGED <<workVars, phase, assertFailed>>

\* SyncWithValidationInterfaceQueue: the callback that sets the promise.
RpcSync(w) ==
    /\ worker[w] = "busy" /\ item[w] \in SyncItems \ Added
    /\ AddToProcessQueue(w, item[w])
    /\ UNCHANGED <<workVars, phase, assertFailed>>

\* Slip: the handler does not wait for the promise.
PromiseIgnored(w) == TRUE

PromiseSet(w) == item[w] \in SyncItems => item[w] \in Finished

RpcReturns(w) ==
    /\ op[w] = "none" /\ PromiseSet(w) /\ ItemDone(w)
    /\ UNCHANGED <<schedulerVars, phase, assertFailed>>

-----------------------------------------------------------------------------
(* The main thread.                                                        *)

\* WaitForShutdown: Interrupt(threadGroup)
Interrupt ==
    /\ phase = "up" /\ phase' = "join"
    /\ InterruptQueue
    /\ interrupted' = TRUE
    /\ UNCHANGED <<taskVars, loopVars, stopRequested, stopWhenEmpty, clientVars, assertFailed>>

Joined == \A t \in Servers : service[t] = "left"

JoinAll ==
    /\ phase = "join" /\ Joined /\ phase' = "http"
    /\ UNCHANGED <<schedulerVars, workVars, assertFailed>>

StopHTTPServer ==
    /\ phase = "http" /\ phase' = "net"
    /\ WaitExit
    /\ UNCHANGED <<schedulerVars, assertFailed>>

\* g_connman->Stop() joins the message handler.
StopNet ==
    /\ phase = "net" /\ op[Net] = "none" /\ phase' = "flush"
    /\ UNCHANGED <<schedulerVars, workVars, assertFailed>>

\* FlushStateToDisk before, and again after the callbacks.
FlushStateToDisk ==
    /\ \/ phase = "flush" /\ phase' = "empty" /\ AddToProcessQueue(Main, Best1)
       \/ phase = "again" /\ phase' = "unregister" /\ AddToProcessQueue(Main, Best2)
    /\ UNCHANGED <<workVars, assertFailed>>

\* Slip: one round is enough.
NoMore == FALSE

\* should_continue
should_continue == pending # <<>>

\* EmptyQueue, once per round.
EmptyQueue ==
    /\ op[Main] = "none"
    /\ \/ /\ phase = "empty" /\ phase' = "emptying"
          /\ assertFailed' = (nThreadsServicingQueue # 0)
          /\ op' = [op EXCEPT ![Main] = "process"]
       \/ /\ phase = "emptying" /\ should_continue
          /\ op' = [op EXCEPT ![Main] = "process"]
          /\ UNCHANGED <<phase, assertFailed>>
       \/ /\ phase = "emptying" /\ ~should_continue /\ phase' = "again"
          /\ UNCHANGED <<op, assertFailed>>
    /\ UNCHANGED <<taskVars, loopVars, stopVars, pending, running, current, added, finished, workVars>>

\* UnregisterBackgroundSignalScheduler; later callbacks are dropped.
Unregister ==
    /\ phase = "unregister" /\ op[Main] = "none" /\ phase' = "done"
    /\ UNCHANGED <<schedulerVars, workVars, assertFailed>>

-----------------------------------------------------------------------------

Rest == UNCHANGED <<workVars, phase, assertFailed>>
RestOfWork == UNCHANGED <<schedulerVars, phase, assertFailed>>

ClientStep(th) ==
    MaybeScheduleProcessQueue(th) \/ Schedule(th) \/ ProcessQueue(th) \/ CallbackDone(th)

ServerStep(t) ==
    /\ \/ StartServer(t) \/ WakeNotified(t) \/ TimeOut(t) \/ TaskDone(t) \/ Repeat(t)
       \/ ClientStep(t)
    /\ Rest

WorkerStep(w) ==
    \/ (StartWorker(w) \/ NextItem(w) \/ WorkerWoken(w) \/ LeaveRun(w)) /\ RestOfWork
    \/ RpcSync(w) \/ RpcReturns(w)
    \/ ClientStep(w) /\ Rest

NetStep == ClientStep(Net) /\ Rest

MainStep ==
    \/ JoinAll \/ StopHTTPServer \/ StopNet \/ FlushStateToDisk \/ EmptyQueue \/ Unregister
    \/ ClientStep(Main) /\ Rest

Environment ==
    \/ \E t \in Servers : WakeSpuriously(t) /\ Rest
    \/ \E w \in Workers : WorkerWakesSpuriously(w) /\ RestOfWork
    \/ ClockTick /\ Rest
    \/ \E drain \in Stops : phase = "up" /\ ~stopRequested /\ ~stopWhenEmpty /\ Stop(drain) /\ Rest
    \/ \E i \in Items : Enqueue(i) /\ RestOfWork
    \/ \E c \in NetCallbacks : NetSignal(c)
    \/ Interrupt

Next ==
    \/ \E t \in Servers : ServerStep(t)
    \/ \E w \in Workers : WorkerStep(w)
    \/ NetStep \/ MainStep
    \/ Environment

Spec == Init /\ [][Next]_vars

\* The operating system runs every thread that can run; requests, signals,
\* spurious wake-ups, the clock and the decision to stop are not promised.
FairSpec ==
    /\ Spec
    /\ \A t \in Servers : WF_vars(ServerStep(t))
    /\ \A w \in Workers : WF_vars(WorkerStep(w))
    /\ WF_vars(NetStep) /\ WF_vars(MainStep)

-----------------------------------------------------------------------------
(* Properties.                                                             *)

\* Values of the counters, positions and queues.
TypeOK ==
    /\ taskQueue \in Seq({"process", "tick"}) /\ future \in BOOLEAN
    /\ service \in [Servers -> {"unstarted", "wait", "until", "process", "tick", "left"}]
    /\ notified \subseteq Waiting /\ expired \subseteq Servers
    /\ nThreadsServicingQueue = Cardinality({t \in Servers : service[t] \notin {"unstarted", "left"}})
    /\ pending \in Seq(Callbacks) /\ running \in BOOLEAN
    /\ op \in [Threads -> {"none", "maybe", "schedule", "process", "callback"}]
    /\ numThreads = Cardinality({w \in Workers :
                        worker[w] \notin {"unstarted", "left", "undefined"}})
    /\ Len(queue) <= maxDepth /\ awake \subseteq Sleeping

\* "no two jobs will be executed at the same time" (scheduler.h), and they run
\* in the order in which they were added, on whatever threads.
InOrder ==
    LET inCallback == {th \in Threads : op[th] = "callback"} IN
    /\ \A th \in inCallback : finished \o <<current[th]>> \o pending = added
    /\ inCallback = {} => finished \o pending = added

\* A pending callback is never forgotten: a callback runs, a ProcessQueue is
\* in the scheduler, or a thread is about to schedule one.
NeverStranded ==
    pending # <<>> /\ ~running =>
        "process" \in Range(taskQueue) \/ \E th \in Threads : op[th] \in {"maybe", "schedule", "process"}

\* A handler that waits for the callbacks answers only after every callback
\* added before its own has finished.
AnswersAreSynced ==
    \A i \in SyncItems \cap answered : \E k \in DOMAIN finished :
        finished[k] = i /\ SubSeq(finished, 1, k) = SubSeq(added, 1, k)

\* "After there are no more peers/RPC left ... flush them" (init.cpp): when the
\* queue has been emptied only callbacks of the second flush are dropped.
NoneLostAtShutdown ==
    phase \in {"again", "unregister", "done"} => Added \ Finished \subseteq {Best2}

\* EmptyQueue "Must be called after the CScheduler has no remaining processing
\* threads!" (scheduler.h): its assert holds, and stays true.  "Precondition:
\* worker threads have all stopped" (~WorkQueue), of those that have begun to run.
ThreadsGone ==
    /\ ~assertFailed
    /\ phase \in {"empty", "emptying", "again", "unregister", "done"} => nThreadsServicingQueue = 0
    /\ deleted => \A w \in Workers : worker[w] \in {"unstarted", "left", "undefined"}

\* While nobody stops the scheduler every callback runs and every accepted
\* request is answered, those that wait for callbacks too: no notify_one is
\* lost or spent on a thread that does not need it.
AllHandled == Added = Finished /\ Seen = answered \cup refused \cup {NoItem}

Stopping == interrupted \/ stopRequested \/ stopWhenEmpty

WorkGetsDone == ~AllHandled ~> (AllHandled \/ Stopping)

\* StopHTTPServer waits "for HTTP worker threads to exit" and the handlers
\* "wait for the queue to drain": a shutdown that has begun ends.
ShutdownCompletes == (phase # "up") ~> (phase = "done")

=============================================================================
