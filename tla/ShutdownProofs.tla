--------------------------- MODULE ShutdownProofs ---------------------------
(***************************************************************************)
(* For any numbers of scheduler threads, RPC workers, requests and         *)
(* callbacks: callbacks run one at a time and in order, none is forgotten, *)
(* an RPC that waits for them answers after those added before its own,    *)
(* and an orderly shutdown leaves no thread in a queue and loses nothing.  *)
(***************************************************************************)
EXTENDS Shutdown, FiniteSetTheorems, SequenceTheorems, TLAPS

Tasks == {"process", "tick"}

Types ==
    /\ taskQueue \in Seq(Tasks)
    /\ service \in [Servers -> {"unstarted", "wait", "until", "process", "tick", "left"}]
    /\ pending \in Seq(Callbacks) /\ added \in Seq(Callbacks) /\ finished \in Seq(Callbacks)
    /\ running \in BOOLEAN
    /\ op \in [Threads -> {"none", "maybe", "schedule", "process", "callback"}]
    /\ current \in [Threads -> Callbacks \cup {NoCallback}]
    /\ worker \in [Workers -> {"unstarted", "loop", "wait", "break", "busy", "left", "undefined"}]

Stopped == {"unstarted", "left", "undefined"}

\* The methods of the client are run by a server in a task, by a worker in a
\* request, by the message handler until it is stopped, and by the main thread.
Where ==
    /\ \A t \in Servers : service[t] # "process" => op[t] = "none"
    /\ \A w \in Workers : op[w] # "none" => worker[w] = "busy"
    /\ \A w \in Workers \cup {Net} : op[w] \in {"none", "maybe", "schedule"}
    /\ op[Main] # "none" => phase \in {"empty", "emptying", "unregister"}

\* How far the shutdown is, and what has ended by then.
Progress ==
    /\ phase \in {"up", "join", "http", "net", "flush", "empty", "emptying", "again",
                  "unregister", "done"}
    /\ phase \notin {"up", "join"} => Joined
    /\ deleted = (phase \notin {"up", "join", "http"})
    /\ deleted => \A w \in Workers : worker[w] \in Stopped
    /\ phase \notin {"up", "join", "http", "net"} => op[Net] = "none"

InService == {t \in Servers : service[t] \notin {"unstarted", "left"}}
AtWork == {w \in Workers : worker[w] \notin Stopped}

Counts ==
    /\ nThreadsServicingQueue = Cardinality(InService)
    /\ numThreads = Cardinality(AtWork)
    /\ ~assertFailed

InCallback == {th \in Threads : op[th] = "callback"}

\* m_are_callbacks_running is the lock of the callbacks.
OneCallback ==
    /\ running = (InCallback # {})
    /\ \A th1, th2 \in InCallback : th1 = th2
    /\ \A th \in InCallback : current[th] \in Callbacks

-----------------------------------------------------------------------------
(* What a step is to the client of the scheduler.                          *)

\* A thread turns to ProcessQueue.
Enters(th) ==
    /\ op[th] = "none" /\ op' = [op EXCEPT ![th] = "process"]
    /\ UNCHANGED <<pending, running, current, added, finished>>

Adds(th, c) ==
    /\ op[th] = "none" /\ op' = [op EXCEPT ![th] = "maybe"]
    /\ pending' = Append(pending, c) /\ added' = Append(added, c)
    /\ UNCHANGED <<running, current, finished>>

\* The steps of the scheduler's threads do to the client nothing but enter
\* ProcessQueue, and callbacks are added one at a time.
LEMMA ClientView ==
    ASSUME Types, Where, [Next]_vars
    PROVE  \/ UNCHANGED clientVars
           \/ \E th \in Threads : ClientStep(th)
           \/ \E th \in Servers \cup {Main} : Enters(th)
           \/ \E th \in Clients, c \in Callbacks : Adds(th, c)
<1>. USE ShutdownAssumption DEF Threads
<1>. DEFINE Goal == \/ UNCHANGED clientVars
                    \/ \E th \in Threads : ClientStep(th)
                    \/ \E th \in Servers \cup {Main} : Enters(th)
                    \/ \E th \in Clients, c \in Callbacks : Adds(th, c)
<1>1. ASSUME NEW t \in Servers, ServerStep(t) PROVE Goal
  <2>1. CASE StartServer(t) \/ WakeNotified(t) \/ TaskDone(t) \/ Repeat(t)
    BY <2>1, Zenon DEF StartServer, WakeNotified, Wake, TaskDone, Repeat
  <2>2. CASE TimeOut(t)
    BY <2>2, Zenon DEF TimeOut, Enters, Where, clientVars
  <2>. QED  BY <1>1, <2>1, <2>2, Zenon DEF ServerStep
<1>2. ASSUME NEW w \in Workers, WorkerStep(w) PROVE Goal
  <2>1. CASE RpcSync(w)
    BY <2>1, Zenon DEF RpcSync, AddToProcessQueue, Adds
  <2>. QED  BY <1>2, <2>1, Zenon DEF WorkerStep, RestOfWork, RpcReturns, schedulerVars
<1>3. CASE NetStep
  BY <1>3, Zenon DEF NetStep
<1>4. CASE MainStep
  <2>1. CASE FlushStateToDisk
    BY <2>1, Zenon DEF FlushStateToDisk, AddToProcessQueue, Adds
  <2>2. CASE EmptyQueue
    BY <2>2, Zenon DEF EmptyQueue, Enters, clientVars
  <2>. QED  BY <1>4, <2>1, <2>2, Zenon DEF MainStep, JoinAll, StopHTTPServer, StopNet, Unregister, schedulerVars
<1>5. CASE Environment
  <2>1. ASSUME NEW c \in NetCallbacks, NetSignal(c) PROVE Goal
    BY <2>1, Zenon DEF NetSignal, AddToProcessQueue, Adds
  <2>2. ASSUME NEW t \in Servers, WakeSpuriously(t) PROVE Goal
    BY <2>2, Zenon DEF WakeSpuriously, Wake
  <2>3. CASE ClockTick \/ Interrupt \/ \E drain \in Stops : Stop(drain)
    BY <2>3, Zenon DEF ClockTick, Interrupt, Stop
  <2>. QED  BY <1>5, <2>1, <2>2, <2>3, Zenon DEF Environment, RestOfWork, schedulerVars
<1>6. CASE UNCHANGED vars
  BY <1>6, Zenon DEF vars, schedulerVars
<1>. QED  BY <1>1, <1>2, <1>3, <1>4, <1>5, <1>6, Zenon DEF Next

-----------------------------------------------------------------------------
(* Sequences.                                                              *)

\* Taking the first of those that wait for the one to run keeps the order.
LEMMA TakeFirst ==
    ASSUME NEW S, NEW s \in Seq(S), NEW t \in Seq(S), t # <<>>
    PROVE  (s \o <<Head(t)>>) \o Tail(t) = s \o t
  OBVIOUS

\* Adding at the end of what waits is adding at the end of all.
LEMMA AppendLast ==
    ASSUME NEW S, NEW s \in Seq(S), NEW t \in Seq(S), NEW c \in S
    PROVE  s \o Append(t, c) = Append(s \o t, c)
  OBVIOUS

\* A member stays when another is taken from the front.
LEMMA StaysInTail ==
    ASSUME NEW S, NEW s \in Seq(S), s # <<>>, NEW x \in Range(s), Head(s) # x
    PROVE  x \in Range(Tail(s))
<1>1. PICK i \in 1 .. Len(s) : s[i] = x
  BY DEF Range
<1>2. i # 1
  BY <1>1
<1>3. i - 1 \in 1 .. Len(Tail(s)) /\ Tail(s)[i - 1] = x
  BY <1>1, <1>2
<1>4. DOMAIN Tail(s) = 1 .. Len(Tail(s))
  OBVIOUS
<1>. QED  BY <1>3, <1>4, Zenon DEF Range

\* What is appended is a member, beside the members before.
LEMMA StaysInAppend ==
    ASSUME NEW S, NEW s \in Seq(S), NEW e \in S
    PROVE  Range(s) \cup {e} \subseteq Range(Append(s, e))
<1>1. ASSUME NEW i \in DOMAIN s PROVE i \in DOMAIN Append(s, e) /\ Append(s, e)[i] = s[i]
  OBVIOUS
<1>2. Len(s) + 1 \in DOMAIN Append(s, e) /\ Append(s, e)[Len(s) + 1] = e
  OBVIOUS
<1>. QED  BY <1>1, <1>2, Zenon DEF Range

\* Nothing else is.
LEMMA AppendAddsOne ==
    ASSUME NEW S, NEW s \in Seq(S), NEW e \in S
    PROVE  Range(Append(s, e)) \subseteq Range(s) \cup {e}
<1>. SUFFICES ASSUME NEW i \in DOMAIN Append(s, e), Append(s, e)[i] # e
              PROVE  Append(s, e)[i] \in Range(s)
  BY Zenon DEF Range
<1>1. i \in 1 .. Len(s) + 1 /\ i # Len(s) + 1
  OBVIOUS
<1>2. i \in DOMAIN s /\ Append(s, e)[i] = s[i]
  BY <1>1
<1>. QED  BY <1>2, Zenon DEF Range

\* A task scheduled for now, before the last task or at the end, is in the queue,
\* which is a queue of tasks.
LEMMA InsertBeforeLast ==
    ASSUME NEW S, NEW s \in Seq(S), NEW e \in S, s # <<>>
    PROVE  BeforeLast(s, e) \in Seq(S) /\ e \in Range(BeforeLast(s, e))
<1>. DEFINE front == SubSeq(s, 1, Len(s) - 1)
            back == SubSeq(s, Len(s), Len(s))
<1>0. Len(s) \in Nat /\ Len(s) >= 1 /\ \A i \in 1 .. Len(s) : s[i] \in S
  BY ElementOfSeq
<1>1. front \in Seq(S) /\ Len(front) = Len(s) - 1 /\ back \in Seq(S)
  <2>1. front \in Seq(S) /\ back \in Seq(S)
    BY <1>0, SubSeqProperties
  <2>2. CASE Len(s) = 1
    BY <1>0, <2>1, <2>2
  <2>3. CASE Len(s) > 1
    BY <1>0, <2>1, <2>3
  <2>4. \A n \in Nat : n >= 1 => n = 1 \/ n > 1
    OBVIOUS
  <2>. QED  BY <1>0, <2>2, <2>3, <2>4, Zenon
<1>2. BeforeLast(s, e) = (front \o <<e>>) \o back
  BY Zenon DEF BeforeLast
<1>. HIDE DEF front, back
<1>3. (front \o <<e>>) \o back \in Seq(S)
  BY <1>0, <1>1
<1>4. Len(s) \in DOMAIN ((front \o <<e>>) \o back) /\ ((front \o <<e>>) \o back)[Len(s)] = e
  BY <1>0, <1>1
<1>. QED  BY <1>2, <1>3, <1>4, Zenon DEF Range

-----------------------------------------------------------------------------
(* What a step is to the threads of the scheduler.                         *)

\* Server t goes to x in serviceQueue.
Moves(t, x) ==
    /\ service[t] # "left" /\ op[t] = "none"
    /\ service' = [service EXCEPT ![t] = x]
    /\ x \in {"wait", "until", "process", "tick", "left"}
    /\ nThreadsServicingQueue' = nThreadsServicingQueue
            + (IF service[t] = "unstarted" THEN 1 ELSE 0) - (IF x = "left" THEN 1 ELSE 0)

\* serviceQueue counts a thread in when it enters and out when it leaves, and a
\* thread moves only between tasks.
LEMMA ServiceView ==
    ASSUME Types, Where, nThreadsServicingQueue \in Nat, [Next]_vars
    PROVE  \/ UNCHANGED <<service, nThreadsServicingQueue>>
           \/ \E t \in Servers : \E x : Moves(t, x)
<1>. DEFINE Goal == \/ UNCHANGED <<service, nThreadsServicingQueue>>
                    \/ \E t \in Servers : \E x : Moves(t, x)
<1>1. ASSUME NEW t \in Servers, NEW n, Proceed(t, n), op[t] = "none",
             service[t] \notin {"left", "tick"},
             n = nThreadsServicingQueue + (IF service[t] = "unstarted" THEN 1 ELSE 0)
      PROVE  Goal
  <2>1. CASE service' = [service EXCEPT ![t] = "left"] /\ nThreadsServicingQueue' = n - 1
    <3>1. Moves(t, "left")
      BY <1>1, <2>1 DEF Moves
    <3>. QED  BY <3>1, Zenon
  <2>2. ASSUME NEW x \in {"wait", "until"}, service' = [service EXCEPT ![t] = x],
               nThreadsServicingQueue' = n
        PROVE  Goal
    <3>1. Moves(t, x)
      BY <1>1, <2>2 DEF Moves
    <3>. QED  BY <3>1, Zenon
  <2>. QED  BY <1>1, <2>1, <2>2, Zenon DEF Proceed
<1>2. ASSUME NEW t \in Servers, StartServer(t) \/ Wake(t) \/ TaskDone(t) PROVE Goal
  BY <1>1, <1>2 DEF StartServer, Wake, TaskDone, Waiting, Where
<1>3. ASSUME NEW t \in Servers, TimeOut(t) PROVE Goal
  <2>1. CASE Proceed(t, nThreadsServicingQueue)
    BY <1>1, <1>3, <2>1 DEF TimeOut, Where
  <2>2. ASSUME service' = [service EXCEPT ![t] = Head(taskQueue)], taskQueue # <<>>,
               UNCHANGED nThreadsServicingQueue
        PROVE  Goal
    <3>1. Moves(t, Head(taskQueue))
      BY <1>3, <2>2 DEF Moves, TimeOut, Where, Types, Tasks
    <3>. QED  BY <3>1, Zenon
  <2>. QED  BY <1>3, <2>1, <2>2, Zenon DEF TimeOut
<1>4. ASSUME NEW t \in Servers, Repeat(t) PROVE Goal
  <2>1. Moves(t, "process")
    BY <1>4 DEF Moves, Repeat, Where
  <2>. QED  BY <2>1, Zenon
<1>5. ASSUME NEW th, ClientStep(th) PROVE Goal
  BY <1>5, Zenon DEF ClientStep, MaybeScheduleProcessQueue, Schedule, ProcessQueue, CallbackDone, loopVars
<1>6. ASSUME NEW t \in Servers, ServerStep(t) PROVE Goal
  BY <1>2, <1>3, <1>4, <1>5, <1>6, Zenon DEF ServerStep, WakeNotified
<1>7. ASSUME NEW w \in Workers, WorkerStep(w) PROVE Goal
  BY <1>5, <1>7, Zenon DEF WorkerStep, RpcSync, RpcReturns, RestOfWork, schedulerVars, AddToProcessQueue, loopVars
<1>8. CASE NetStep \/ MainStep
  BY <1>5, <1>8, Zenon DEF NetStep, MainStep, JoinAll, StopHTTPServer, StopNet, FlushStateToDisk,
     EmptyQueue, Unregister, schedulerVars, AddToProcessQueue, loopVars
<1>9. CASE Environment
  <2>1. ASSUME NEW t \in Servers, WakeSpuriously(t) PROVE Goal
    BY <1>2, <2>1, Zenon DEF WakeSpuriously
  <2>. QED  BY <1>9, <2>1, Zenon DEF Environment, RestOfWork, ClockTick, Stop, NetSignal, Interrupt,
            schedulerVars, AddToProcessQueue, loopVars
<1>10. CASE UNCHANGED vars
  BY <1>10, Zenon DEF vars, schedulerVars, loopVars
<1>. QED  BY <1>6, <1>7, <1>8, <1>9, <1>10, Zenon DEF Next

-----------------------------------------------------------------------------
(* What a step is to the workers.                                          *)

\* Worker w goes to x in Run, between requests.
Works(w, x) ==
    /\ worker[w] \notin {"left", "undefined"} /\ op[w] = "none"
    /\ worker' = [worker EXCEPT ![w] = x]
    /\ worker[w] = "unstarted" => x = IF deleted THEN "undefined" ELSE "loop"
    /\ worker[w] # "unstarted" => x \in {"loop", "wait", "break", "busy", "left"}
    /\ numThreads' = numThreads + (IF x \notin Stopped /\ worker[w] \in Stopped THEN 1 ELSE 0)
                                - (IF x = "left" THEN 1 ELSE 0)

\* A worker counts itself in and out, and one that starts on the deleted queue
\* does neither.
LEMMA WorkView ==
    ASSUME Types, Where, numThreads \in Nat, [Next]_vars
    PROVE  \/ UNCHANGED <<worker, numThreads>>
           \/ \E w \in Workers : \E x : Works(w, x)
<1>. DEFINE Goal == \/ UNCHANGED <<worker, numThreads>>
                    \/ \E w \in Workers : \E x : Works(w, x)
<1>1. ASSUME NEW w \in Workers, WorkerStep(w) PROVE Goal
  <2>1. CASE StartWorker(w)
    <3>1. Works(w, IF deleted THEN "undefined" ELSE "loop")
      BY <2>1 DEF Works, StartWorker, Where, Stopped
    <3>. QED  BY <3>1, Zenon
  <2>2. ASSUME Take(w), worker[w] \in {"loop", "wait"} PROVE Goal
    <3>1. PICK x \in {"wait", "break", "busy"} : worker' = [worker EXCEPT ![w] = x]
      BY <2>2, Zenon DEF Take
    <3>2. Works(w, x)
      BY <2>2, <3>1 DEF Works, Take, Where, Stopped
    <3>. QED  BY <3>2, Zenon
  <2>3. CASE LeaveRun(w)
    <3>1. Works(w, "left")
      BY <2>3 DEF Works, LeaveRun, Where, Stopped
    <3>. QED  BY <3>1, Zenon
  <2>4. CASE RpcReturns(w)
    <3>1. Works(w, "loop")
      BY <2>4 DEF Works, RpcReturns, ItemDone, Stopped
    <3>. QED  BY <3>1, Zenon
  <2>. QED  BY <1>1, <2>1, <2>2, <2>3, <2>4, Zenon DEF WorkerStep, NextItem, WorkerWoken, RpcSync, Rest, workVars
<1>2. ASSUME NEW t \in Servers, ServerStep(t) PROVE Goal
  BY <1>2, Zenon DEF ServerStep, Rest, workVars
<1>3. CASE NetStep \/ MainStep
  BY <1>3, Zenon DEF NetStep, MainStep, JoinAll, StopHTTPServer, WaitExit, StopNet, FlushStateToDisk,
     EmptyQueue, Unregister, Rest, workVars
<1>4. CASE Environment
  <2>1. ASSUME NEW w \in Workers, WorkerWakesSpuriously(w) PROVE Goal
    <3>1. PICK x \in {"wait", "break", "busy"} : worker' = [worker EXCEPT ![w] = x]
      BY <2>1, Zenon DEF WorkerWakesSpuriously, Take
    <3>2. Works(w, x)
      BY <2>1, <3>1 DEF Works, WorkerWakesSpuriously, Take, Where, Stopped
    <3>. QED  BY <3>2, Zenon
  <2>. QED  BY <1>4, <2>1, Zenon DEF Environment, Enqueue, NetSignal, Interrupt, InterruptQueue, Rest, workVars
<1>5. CASE UNCHANGED vars
  BY <1>5, Zenon DEF vars, workVars
<1>. QED  BY <1>1, <1>2, <1>3, <1>4, <1>5, Zenon DEF Next

-----------------------------------------------------------------------------
(* What a step is to the queue of tasks.                                   *)

\* A task leaves the queue for the thread that runs it.
LEMMA TaskView ==
    ASSUME Types, Where, [Next]_vars
    PROVE  \/ UNCHANGED taskQueue
           \/ taskQueue' = Append(taskQueue, "tick")
           \/ \E th \in Threads : Schedule(th)
           \/ \E t \in Servers : /\ taskQueue # <<>> /\ taskQueue' = Tail(taskQueue)
                                 /\ Head(taskQueue) = "process" => op'[t] = "process"
<1>. USE ShutdownAssumption DEF Threads
<1>. DEFINE Goal == \/ UNCHANGED taskQueue
                    \/ taskQueue' = Append(taskQueue, "tick")
                    \/ \E th \in Threads : Schedule(th)
                    \/ \E t \in Servers : /\ taskQueue # <<>> /\ taskQueue' = Tail(taskQueue)
                                          /\ Head(taskQueue) = "process" => op'[t] = "process"
<1>1. ASSUME NEW th \in Threads, ClientStep(th) PROVE Goal
  BY <1>1, Zenon DEF ClientStep, MaybeScheduleProcessQueue, ProcessQueue, CallbackDone, taskVars
<1>2. ASSUME NEW t \in Servers, ServerStep(t) PROVE Goal
  <2>1. CASE TimeOut(t)
    BY <2>1, Zenon DEF TimeOut, Types
  <2>. QED  BY <1>1, <1>2, <2>1, Zenon DEF ServerStep, StartServer, WakeNotified, Wake, TaskDone, Repeat, taskVars
<1>3. ASSUME NEW w \in Workers, WorkerStep(w) PROVE Goal
  BY <1>1, <1>3, Zenon DEF WorkerStep, RpcSync, RpcReturns, RestOfWork, schedulerVars, AddToProcessQueue, taskVars
<1>4. CASE NetStep \/ MainStep
  BY <1>1, <1>4, Zenon DEF NetStep, MainStep, JoinAll, StopHTTPServer, StopNet, FlushStateToDisk,
     EmptyQueue, Unregister, schedulerVars, AddToProcessQueue, taskVars
<1>5. CASE Environment
  BY <1>5, Zenon DEF Environment, RestOfWork, WakeSpuriously, Wake, ClockTick, Stop, NetSignal, Interrupt,
     schedulerVars, AddToProcessQueue, taskVars
<1>6. CASE UNCHANGED vars
  BY <1>6, Zenon DEF vars, schedulerVars, taskVars
<1>. QED  BY <1>2, <1>3, <1>4, <1>5, <1>6, Zenon DEF Next

-----------------------------------------------------------------------------
(* The invariant.                                                          *)

\* The values the queues and positions have.
LEMMA TypesKept ==
    ASSUME Types, Where, OneCallback, nThreadsServicingQueue \in Nat, numThreads \in Nat, [Next]_vars
    PROVE  Types'
<1>. USE ShutdownAssumption DEF Threads, Tasks
<1>1. service' \in [Servers -> {"unstarted", "wait", "until", "process", "tick", "left"}]
  BY ServiceView, Zenon DEF Types, Moves
<1>2. worker' \in [Workers -> {"unstarted", "loop", "wait", "break", "busy", "left", "undefined"}]
  BY WorkView, Zenon DEF Types, Works
<1>. DEFINE ClientTypes ==
        /\ pending \in Seq(Callbacks) /\ added \in Seq(Callbacks) /\ finished \in Seq(Callbacks)
        /\ running \in BOOLEAN
        /\ op \in [Threads -> {"none", "maybe", "schedule", "process", "callback"}]
        /\ current \in [Threads -> Callbacks \cup {NoCallback}]
<1>3. ClientTypes'
  <2>. USE DEF Types
  <2>1. CASE UNCHANGED clientVars
    BY <2>1, Zenon DEF clientVars
  <2>2. ASSUME NEW th \in Threads, ClientStep(th) PROVE ClientTypes'
    <3>1. CASE MaybeScheduleProcessQueue(th) \/ Schedule(th)
      BY <3>1, Zenon DEF MaybeScheduleProcessQueue, Schedule
    <3>2. CASE ProcessQueue(th)
      <4>1. CASE MayProcess
        <5>1. Head(pending) \in Callbacks /\ Tail(pending) \in Seq(Callbacks)
          BY <4>1 DEF MayProcess
        <5>2. pending' \in Seq(Callbacks) /\ UNCHANGED <<added, finished>> /\ running' \in BOOLEAN
          BY <3>2, <4>1, <5>1, Zenon DEF ProcessQueue
        <5>3. op' \in [Threads -> {"none", "maybe", "schedule", "process", "callback"}]
          BY <3>2, <4>1, Zenon DEF ProcessQueue
        <5>4. current' \in [Threads -> Callbacks \cup {NoCallback}]
          <6>1. current' = [current EXCEPT ![th] = Head(pending)]
            BY <3>2, <4>1, Zenon DEF ProcessQueue
          <6>. QED  BY <5>1, <6>1, Zenon
        <5>. QED  BY <5>2, <5>3, <5>4, Zenon
      <4>. QED  BY <3>2, <4>1, Zenon DEF ProcessQueue
    <3>3. CASE CallbackDone(th)
      <4>1. current[th] \in Callbacks
        BY <3>3, Zenon DEF CallbackDone, OneCallback, InCallback
      <4>2. finished' \in Seq(Callbacks) /\ UNCHANGED <<pending, added>>
        BY <3>3, <4>1 DEF CallbackDone
      <4>. QED  BY <3>3, <4>2, Zenon DEF CallbackDone, AfterCallback
    <3>. QED  BY <2>2, <3>1, <3>2, <3>3, Zenon DEF ClientStep
  <2>3. ASSUME NEW th \in Servers \cup {Main}, Enters(th) PROVE ClientTypes'
    BY <2>3, Zenon DEF Enters
  <2>4. ASSUME NEW th \in Clients, NEW c \in Callbacks, Adds(th, c) PROVE ClientTypes'
    BY <2>4 DEF Adds
  <2>. QED  BY <2>1, <2>2, <2>3, <2>4, ClientView, Zenon
<1>4. taskQueue' \in Seq(Tasks)
  <2>1. ASSUME NEW th \in Threads, Schedule(th) PROVE taskQueue' \in Seq(Tasks)
    <3>1. CASE "tick" \in Range(taskQueue)
      <4>1. taskQueue # <<>>
        BY <3>1 DEF Range, Types
      <4>2. BeforeLast(taskQueue, "process") \in Seq(Tasks)
        BY <4>1, InsertBeforeLast, Zenon DEF Types
      <4>. QED  BY <2>1, <4>2 DEF Schedule, Types
    <3>. QED  BY <2>1, <3>1 DEF Schedule, Types
  <2>2. ASSUME taskQueue # <<>>, taskQueue' = Tail(taskQueue) PROVE taskQueue' \in Seq(Tasks)
    BY <2>2 DEF Types
  <2>3. Append(taskQueue, "tick") \in Seq(Tasks)
    BY DEF Types
  <2>. QED  BY <2>1, <2>2, <2>3, TaskView, Zenon DEF Types
<1>. QED  BY <1>1, <1>2, <1>3, <1>4, Zenon DEF Types

\* Inside the client's methods a thread stays there until it is through, and turns to
\* a callback only from ProcessQueue.
LEMMA ClientStepPlace ==
    ASSUME NEW th \in Threads, ClientStep(th), Types
    PROVE  /\ op[th] # "none" /\ UNCHANGED service
           /\ op' = [op EXCEPT ![th] = op'[th]]
           /\ op[th] \in {"maybe", "schedule"} => op'[th] \in {"none", "maybe", "schedule"}
<1>. USE DEF Types, taskVars, loopVars
<1>1. CASE MaybeScheduleProcessQueue(th)
  BY <1>1, Zenon DEF MaybeScheduleProcessQueue
<1>2. CASE Schedule(th)
  BY <1>2, Zenon DEF Schedule
<1>3. CASE ProcessQueue(th)
  BY <1>3, Zenon DEF ProcessQueue
<1>4. CASE CallbackDone(th)
  BY <1>4, Zenon DEF CallbackDone
<1>. QED  BY <1>1, <1>2, <1>3, <1>4, Zenon DEF ClientStep

\* Who is where in the client's methods.
LEMMA WhereKept ==
    ASSUME Types, Where, Progress, [Next]_vars
    PROVE  Where'
<1>. USE ShutdownAssumption, SchedulerAssumption DEF Threads
<1>1. ASSUME NEW t \in Servers, ServerStep(t) PROVE Where'
  <2>1. CASE StartServer(t) \/ Wake(t) \/ TaskDone(t)
    <3>1. op[t] = "none" /\ UNCHANGED op
      BY <2>1, Zenon DEF StartServer, Wake, TaskDone, Waiting, Where, clientVars
    <3>2. \E x : service' = [service EXCEPT ![t] = x]
      BY <2>1, Zenon DEF StartServer, Wake, TaskDone, Proceed
    <3>. QED  BY <1>1, <3>1, <3>2, Zenon DEF ServerStep, Rest, workVars, Where, Types
  <2>2. CASE TimeOut(t)
    <3>1. op[t] = "none"
      BY <2>2, Zenon DEF TimeOut, Where
    <3>2. CASE Proceed(t, nThreadsServicingQueue) /\ UNCHANGED op
      <4>1. \E x : service' = [service EXCEPT ![t] = x]
        BY <3>2, Zenon DEF Proceed
      <4>. QED  BY <1>1, <3>1, <3>2, <4>1, Zenon DEF ServerStep, Rest, workVars, Where, Types
    <3>3. CASE /\ service' = [service EXCEPT ![t] = Head(taskQueue)]
               /\ op' = IF Head(taskQueue) = "process" THEN [op EXCEPT ![t] = "process"] ELSE op
      BY <1>1, <3>1, <3>3 DEF ServerStep, Rest, workVars, Where, Types
    <3>. QED  BY <2>2, <3>2, <3>3, Zenon DEF TimeOut
  <2>3. CASE Repeat(t)
    BY <1>1, <2>3, Zenon DEF ServerStep, Repeat, Rest, workVars, clientVars, Where, Types
  <2>4. CASE ClientStep(t)
    <3>1. op[t] # "none" /\ UNCHANGED service
      BY <2>4, ClientStepPlace, Zenon
    <3>2. op' = [op EXCEPT ![t] = op'[t]]
      BY <2>4, ClientStepPlace, Zenon
    <3>3. op[t] \in {"maybe", "schedule"} => op'[t] \in {"none", "maybe", "schedule"}
      BY <2>4, ClientStepPlace, Zenon
    <3>. QED  BY <1>1, <3>1, <3>2, <3>3 DEF ServerStep, Rest, workVars, Where, Types
  <2>. QED  BY <1>1, <2>1, <2>2, <2>3, <2>4, Zenon DEF ServerStep, WakeNotified
<1>2. ASSUME NEW w \in Workers, WorkerStep(w) PROVE Where'
  <2>1. CASE ClientStep(w) /\ Rest
    <3>1. op[w] # "none" /\ UNCHANGED service
      BY <2>1, ClientStepPlace, Zenon
    <3>2. op' = [op EXCEPT ![w] = op'[w]]
      BY <2>1, ClientStepPlace, Zenon
    <3>3. op[w] \in {"maybe", "schedule"} => op'[w] \in {"none", "maybe", "schedule"}
      BY <2>1, ClientStepPlace, Zenon
    <3>. QED  BY <2>1, <3>1, <3>2, <3>3, Zenon DEF Rest, workVars, Where, Types
  <2>2. CASE RpcSync(w)
    BY <2>2, SMTT(30) DEF RpcSync, AddToProcessQueue, workVars, loopVars, Where, Types
  <2>3. ASSUME op[w] = "none", UNCHANGED <<op, service, phase>>,
               \E x : worker' = [worker EXCEPT ![w] = x]
        PROVE  Where'
    <3>1. \A v \in Workers \ {w} : worker'[v] = worker[v]
      BY <2>3, Zenon DEF Types
    <3>. QED  BY <2>3, <3>1, Zenon DEF Where
  <2>4. CASE RpcReturns(w)
    <3>1. UNCHANGED <<op, service, phase>>
      BY <2>4, Zenon DEF RpcReturns, schedulerVars, loopVars, clientVars
    <3>2. op[w] = "none" /\ \E x : worker' = [worker EXCEPT ![w] = x]
      BY <2>4, Zenon DEF RpcReturns, ItemDone
    <3>. QED  BY <2>3, <3>1, <3>2, Zenon
  <2>5. CASE (StartWorker(w) \/ NextItem(w) \/ WorkerWoken(w) \/ LeaveRun(w)) /\ RestOfWork
    <3>1. UNCHANGED <<op, service, phase>>
      BY <2>5, Zenon DEF RestOfWork, schedulerVars, loopVars, clientVars
    <3>2. worker[w] # "busy" /\ \E x : worker' = [worker EXCEPT ![w] = x]
      BY <2>5, Zenon DEF StartWorker, NextItem, WorkerWoken, LeaveRun, Take
    <3>. QED  BY <2>3, <3>1, <3>2, Zenon DEF Where
  <2>. QED  BY <1>2, <2>1, <2>2, <2>4, <2>5, Zenon DEF WorkerStep
<1>3. CASE NetStep
  <2>1. op[Net] # "none" /\ UNCHANGED service
    BY <1>3, ClientStepPlace, Zenon DEF NetStep
  <2>2. op' = [op EXCEPT ![Net] = op'[Net]]
    BY <1>3, ClientStepPlace, Zenon DEF NetStep
  <2>3. op[Net] \in {"maybe", "schedule"} => op'[Net] \in {"none", "maybe", "schedule"}
    BY <1>3, ClientStepPlace, Zenon DEF NetStep
  <2>. QED  BY <1>3, <2>1, <2>2, <2>3, Zenon DEF NetStep, Rest, workVars, Where, Types
<1>4. CASE MainStep
  <2>1. CASE ClientStep(Main) /\ Rest
    <3>1. op[Main] # "none" /\ UNCHANGED service
      BY <2>1, ClientStepPlace, Zenon
    <3>2. op' = [op EXCEPT ![Main] = op'[Main]]
      BY <2>1, ClientStepPlace, Zenon
    <3>3. op[Main] \in {"maybe", "schedule"} => op'[Main] \in {"none", "maybe", "schedule"}
      BY <2>1, ClientStepPlace, Zenon
    <3>. QED  BY <2>1, <3>1, <3>2, <3>3, Zenon DEF Rest, workVars, Where, Types
  <2>2. CASE JoinAll \/ StopHTTPServer \/ StopNet \/ Unregister
    BY <2>2, Zenon DEF JoinAll, StopHTTPServer, WaitExit, StopNet, Unregister, schedulerVars, workVars,
       loopVars, clientVars, Where
  <2>3. CASE FlushStateToDisk
    BY <2>3, SMTT(30) DEF FlushStateToDisk, AddToProcessQueue, workVars, loopVars, Where, Types
  <2>4. CASE EmptyQueue
    BY <2>4, SMTT(30) DEF EmptyQueue, workVars, loopVars, Where, Types
  <2>. QED  BY <1>4, <2>1, <2>2, <2>3, <2>4, Zenon DEF MainStep
<1>5. CASE Environment
  <2>1. ASSUME NEW t \in Servers, WakeSpuriously(t), Rest PROVE Where'
    <3>1. op[t] = "none" /\ UNCHANGED op
      BY <2>1, Zenon DEF WakeSpuriously, Wake, Waiting, Where, clientVars
    <3>2. \E x : service' = [service EXCEPT ![t] = x]
      BY <2>1, Zenon DEF WakeSpuriously, Wake, Proceed
    <3>. QED  BY <2>1, <3>1, <3>2, Zenon DEF Rest, workVars, Where, Types
  <2>2. ASSUME NEW w \in Workers, WorkerWakesSpuriously(w), RestOfWork PROVE Where'
    BY <2>2, SMTT(30) DEF WorkerWakesSpuriously, Take, RestOfWork, schedulerVars, loopVars, clientVars, Where, Types
  <2>3. CASE ClockTick /\ Rest
    BY <2>3, Zenon DEF ClockTick, Rest, workVars, clientVars, Where
  <2>4. ASSUME NEW drain \in Stops, Stop(drain), Rest PROVE Where'
    BY <2>4, Zenon DEF Stop, Rest, workVars, clientVars, Where
  <2>5. ASSUME NEW j \in Items, Enqueue(j), RestOfWork PROVE Where'
    BY <2>5, Zenon DEF Enqueue, RestOfWork, schedulerVars, loopVars, clientVars, Where
  <2>6. ASSUME NEW c \in NetCallbacks, NetSignal(c) PROVE Where'
    BY <2>6, Zenon DEF NetSignal, AddToProcessQueue, workVars, loopVars, Where, Types
  <2>7. CASE Interrupt
    BY <2>7, Zenon DEF Interrupt, InterruptQueue, loopVars, clientVars, Where
  <2>. QED  BY <1>5, <2>1, <2>2, <2>3, <2>4, <2>5, <2>6, <2>7, Zenon DEF Environment
<1>6. CASE UNCHANGED vars
  BY <1>6, Zenon DEF vars, schedulerVars, workVars, loopVars, clientVars, Where
<1>. QED  BY <1>1, <1>2, <1>3, <1>4, <1>5, <1>6, Zenon DEF Next

PhaseStep ==
    \/ Interrupt \/ JoinAll \/ StopHTTPServer \/ StopNet \/ FlushStateToDisk \/ EmptyQueue \/ Unregister

\* Only the main thread takes the shutdown on, deletes the work queue and asserts,
\* and the message handler adds no callback once it is stopped.
LEMMA PhaseView ==
    ASSUME Types, [Next]_vars
    PROVE  /\ UNCHANGED <<phase, deleted, assertFailed>> \/ PhaseStep
           /\ \/ op[Net] # "none" \/ op'[Net] = op[Net]
              \/ phase \in {"up", "join", "http", "net"} /\ UNCHANGED phase
<1>. USE ShutdownAssumption, SchedulerAssumption DEF Threads
<1>. DEFINE Goal == /\ UNCHANGED <<phase, deleted, assertFailed>> \/ PhaseStep
                    /\ \/ op[Net] # "none" \/ op'[Net] = op[Net]
                       \/ phase \in {"up", "join", "http", "net"} /\ UNCHANGED phase
<1>1. ASSUME NEW th \in Threads, ClientStep(th), Rest PROVE Goal
  <2>1. op[th] # "none" /\ op' = [op EXCEPT ![th] = op'[th]]
    BY <1>1, ClientStepPlace, Zenon
  <2>. QED  BY <1>1, <2>1, Zenon DEF Rest, workVars, Types
<1>2. ASSUME NEW t \in Servers, ServerStep(t) PROVE Goal
  <2>1. CASE TimeOut(t)
    <3>1. t # Net
      BY Zenon
    <3>2. op' = op \/ op' = [op EXCEPT ![t] = "process"]
      BY <2>1, Zenon DEF TimeOut
    <3>3. op'[Net] = op[Net]
      BY <3>1, <3>2, Zenon DEF Types
    <3>. QED  BY <1>2, <3>3, Zenon DEF ServerStep, Rest, workVars
  <2>. QED  BY <1>1, <1>2, <2>1, Zenon DEF ServerStep, StartServer, WakeNotified, Wake, TaskDone, Repeat,
            clientVars, Rest, workVars
<1>3. ASSUME NEW w \in Workers, WorkerStep(w) PROVE Goal
  <2>1. CASE RpcSync(w)
    BY <2>1, Zenon DEF RpcSync, AddToProcessQueue, workVars, Types
  <2>. QED  BY <1>1, <1>3, <2>1, Zenon DEF WorkerStep, StartWorker, NextItem, WorkerWoken, LeaveRun, Take,
            RpcReturns, ItemDone, RestOfWork, schedulerVars, clientVars
<1>4. CASE NetStep
  BY <1>1, <1>4, Zenon DEF NetStep
<1>5. CASE MainStep
  <2>1. CASE JoinAll \/ StopHTTPServer \/ StopNet \/ FlushStateToDisk \/ EmptyQueue \/ Unregister
    BY <2>1, Zenon DEF PhaseStep, JoinAll, StopHTTPServer, StopNet, FlushStateToDisk, EmptyQueue, Unregister,
       AddToProcessQueue, schedulerVars, clientVars, Types
  <2>. QED  BY <1>1, <1>5, <2>1, Zenon DEF MainStep
<1>6. CASE Environment
  <2>1. ASSUME NEW c \in NetCallbacks, NetSignal(c) PROVE Goal
    BY <2>1, Zenon DEF NetSignal, workVars
  <2>2. CASE Interrupt
    BY <2>2, Zenon DEF Interrupt, PhaseStep, clientVars
  <2>. QED  BY <1>6, <2>1, <2>2, Zenon DEF Environment, WakeSpuriously, Wake, WorkerWakesSpuriously, Take,
            ClockTick, Stop, Enqueue, Rest, RestOfWork, workVars, schedulerVars, clientVars
<1>7. CASE UNCHANGED vars
  BY <1>7, Zenon DEF vars, schedulerVars, workVars, clientVars
<1>. QED  BY <1>2, <1>3, <1>4, <1>5, <1>6, <1>7, Zenon DEF Next

\* The counters are natural numbers.
LEMMA CountTypes == Counts => nThreadsServicingQueue \in Nat /\ numThreads \in Nat
<1>1. IsFiniteSet(InService) /\ IsFiniteSet(AtWork)
  BY ShutdownAssumption, FS_Subset, Zenon DEF InService, AtWork
<1>. QED  BY <1>1, FS_CardinalityType, Zenon DEF Counts

\* What has ended stays ended.
LEMMA ProgressKept ==
    ASSUME Types, Where, Progress, Counts, [Next]_vars
    PROVE  Progress'
<1>. USE CountTypes
<1>1. Joined => Joined'
  BY ServiceView, Zenon DEF Joined, Moves, Types
<1>2. (\A w \in Workers : worker[w] \in Stopped) /\ deleted => \A w \in Workers : worker'[w] \in Stopped
  BY WorkView, Zenon DEF Works, Stopped, Types
<1>3. CASE UNCHANGED <<phase, deleted>>
  BY <1>1, <1>2, <1>3, PhaseView, Zenon DEF Progress
<1>4. CASE StopHTTPServer
  <2>1. AtWork = {}
    BY <1>4, FS_Subset, FS_EmptySet, ShutdownAssumption, Zenon DEF StopHTTPServer, WaitExit, AllExited, Counts, AtWork
  <2>2. UNCHANGED worker /\ deleted' /\ phase' = "net"
    BY <1>4, Zenon DEF StopHTTPServer, WaitExit
  <2>3. \A w \in Workers : worker'[w] \in Stopped
    BY <2>1, <2>2, Zenon DEF AtWork
  <2>. QED  BY <1>1, <1>4, <2>2, <2>3, Zenon DEF Progress, StopHTTPServer
<1>5. CASE JoinAll
  BY <1>1, <1>2, <1>5, Zenon DEF JoinAll, Progress, schedulerVars, workVars
<1>6. CASE StopNet
  BY <1>1, <1>2, <1>6, Zenon DEF StopNet, Progress, schedulerVars, clientVars, workVars
<1>7. CASE Interrupt
  BY <1>1, <1>2, <1>7, Zenon DEF Interrupt, InterruptQueue, Progress
<1>8. CASE FlushStateToDisk \/ EmptyQueue \/ Unregister
  BY <1>1, <1>2, <1>8, PhaseView, Zenon DEF FlushStateToDisk, EmptyQueue, Unregister, Progress, workVars
<1>. QED  BY <1>3, <1>4, <1>5, <1>6, <1>7, <1>8, PhaseView, Zenon DEF PhaseStep

\* The counters of the two queues are exact, and EmptyQueue finds no server.
LEMMA CountsKept ==
    ASSUME Types, Where, Progress, Counts, [Next]_vars
    PROVE  Counts'
<1>. USE CountTypes
<1>0. IsFiniteSet(InService) /\ IsFiniteSet(AtWork)
  BY ShutdownAssumption, FS_Subset, Zenon DEF InService, AtWork
<1>1. nThreadsServicingQueue' = Cardinality(InService')
  <2>1. CASE UNCHANGED <<service, nThreadsServicingQueue>>
    BY <2>1, Zenon DEF Counts, InService
  <2>2. ASSUME NEW t \in Servers, NEW x, Moves(t, x) PROVE nThreadsServicingQueue' = Cardinality(InService')
    <3>1. CASE service[t] = "unstarted" /\ x # "left"
      <4>1. InService' = InService \cup {t} /\ t \notin InService
        BY <2>2, <3>1, Zenon DEF Moves, InService, Types
      <4>2. Cardinality(InService \cup {t}) = Cardinality(InService) + 1
        BY <1>0, <4>1, FS_AddElement, Zenon
      <4>3. nThreadsServicingQueue' = nThreadsServicingQueue + 1
        BY <2>2, <3>1, <4>1 DEF Moves
      <4>. QED  BY <4>1, <4>2, <4>3, Zenon DEF Counts
    <3>2. CASE service[t] # "unstarted" /\ x = "left"
      <4>1. InService' = InService \ {t} /\ t \in InService
        BY <2>2, <3>2, Zenon DEF Moves, InService, Types
      <4>2. Cardinality(InService \ {t}) = Cardinality(InService) - 1
        BY <1>0, <4>1, FS_RemoveElement, Zenon
      <4>3. nThreadsServicingQueue' = nThreadsServicingQueue - 1
        BY <2>2, <3>2, <4>1 DEF Moves
      <4>. QED  BY <4>1, <4>2, <4>3, Zenon DEF Counts
    <3>3. CASE (service[t] = "unstarted") = (x = "left")
      <4>1. InService' = InService
        BY <2>2, <3>3, Zenon DEF Moves, InService, Types
      <4>. QED  BY <2>2, <3>3, <4>1 DEF Moves, Counts
    <3>. QED  BY <3>1, <3>2, <3>3, Zenon
  <2>. QED  BY <2>1, <2>2, ServiceView, Zenon
<1>2. numThreads' = Cardinality(AtWork')
  <2>1. CASE UNCHANGED <<worker, numThreads>>
    BY <2>1, Zenon DEF Counts, AtWork
  <2>2. ASSUME NEW w \in Workers, NEW x, Works(w, x) PROVE numThreads' = Cardinality(AtWork')
    <3>1. CASE worker[w] \in Stopped /\ x \notin Stopped
      <4>1. AtWork' = AtWork \cup {w} /\ w \notin AtWork
        BY <2>2, <3>1, Zenon DEF Works, AtWork, Types, Stopped
      <4>2. Cardinality(AtWork \cup {w}) = Cardinality(AtWork) + 1
        BY <1>0, <4>1, FS_AddElement, Zenon
      <4>3. numThreads' = numThreads + 1
        BY <2>2, <3>1, <4>1 DEF Works, Stopped
      <4>. QED  BY <4>1, <4>2, <4>3, Zenon DEF Counts
    <3>2. CASE worker[w] \notin Stopped /\ x \in Stopped
      <4>1. AtWork' = AtWork \ {w} /\ w \in AtWork /\ x = "left"
        BY <2>2, <3>2, Zenon DEF Works, AtWork, Types, Stopped
      <4>2. Cardinality(AtWork \ {w}) = Cardinality(AtWork) - 1
        BY <1>0, <4>1, FS_RemoveElement, Zenon
      <4>3. numThreads' = numThreads - 1
        BY <2>2, <3>2, <4>1 DEF Works, Stopped
      <4>. QED  BY <4>1, <4>2, <4>3, Zenon DEF Counts
    <3>3. CASE (worker[w] \in Stopped) = (x \in Stopped)
      <4>1. AtWork' = AtWork /\ x # "left"
        BY <2>2, <3>3, Zenon DEF Works, AtWork, Types, Stopped
      <4>. QED  BY <2>2, <3>3, <4>1 DEF Works, Counts
    <3>. QED  BY <3>1, <3>2, <3>3
  <2>. QED  BY <2>1, <2>2, WorkView, Zenon
<1>3. ~assertFailed'
  <2>1. CASE EmptyQueue
    <3>1. phase \notin {"up", "join"} => InService = {}
      BY Zenon DEF Progress, Joined, InService
    <3>2. phase \notin {"up", "join"} => nThreadsServicingQueue = 0
      BY <3>1, FS_EmptySet, Zenon DEF Counts
    <3>. QED  BY <2>1, <3>2, Zenon DEF EmptyQueue, Counts
  <2>. QED
    BY <2>1, PhaseView, Zenon DEF PhaseStep, Interrupt, JoinAll, StopHTTPServer, StopNet, FlushStateToDisk,
       Unregister, Counts
<1>. QED  BY <1>1, <1>2, <1>3, Zenon DEF Counts

\* Two threads never run callbacks, and m_are_callbacks_running tells whether one does.
LEMMA OneCallbackKept ==
    ASSUME Types, Where, OneCallback, [Next]_vars
    PROVE  OneCallback'
<1>. USE DEF Types, OneCallback, InCallback
<1>1. CASE UNCHANGED clientVars
  BY <1>1, Zenon DEF clientVars
<1>2. ASSUME NEW th \in Threads, MaybeScheduleProcessQueue(th) \/ Schedule(th) PROVE OneCallback'
  BY <1>2, SMTT(30) DEF MaybeScheduleProcessQueue, Schedule
<1>3. ASSUME NEW th \in Threads, ProcessQueue(th) PROVE OneCallback'
  <2>1. CASE MayProcess
    <3>1. Head(pending) \in Callbacks
      BY <2>1 DEF MayProcess
    <3>2. InCallback' = {th} /\ running' /\ current'[th] = Head(pending)
      BY <1>3, <2>1 DEF ProcessQueue, MayProcess
    <3>. QED  BY <3>1, <3>2, Zenon
  <2>2. CASE ~MayProcess
    BY <1>3, <2>2 DEF ProcessQueue
  <2>. QED  BY <2>1, <2>2, Zenon
<1>4. ASSUME NEW th \in Threads, CallbackDone(th) PROVE OneCallback'
  <2>1. InCallback' = {} /\ running' = FALSE
    BY <1>4 DEF CallbackDone, AfterCallback
  <2>. QED  BY <2>1, Zenon
<1>5. ASSUME NEW th \in Threads, Enters(th) PROVE OneCallback'
  BY <1>5, Zenon DEF Enters
<1>6. ASSUME NEW th \in Threads, NEW c \in Callbacks, Adds(th, c) PROVE OneCallback'
  BY <1>6, Zenon DEF Adds
<1>. QED
  BY <1>1, <1>2, <1>3, <1>4, <1>5, <1>6, ClientView, ShutdownAssumption, Zenon DEF ClientStep, Threads

Base == Types /\ Where /\ Progress /\ Counts /\ OneCallback

\* The node starts with nothing scheduled and nobody in a method.
LEMMA BaseInit == Init => Base /\ InOrder /\ NeverStranded
<1>. SUFFICES ASSUME Init PROVE Base /\ InOrder /\ NeverStranded
  BY Zenon
<1>. USE ShutdownAssumption DEF Init, SchedulerInit, WorkInit
<1>1. Types
  <2>1. taskQueue \in Seq(Tasks)
    BY DEF Tasks
  <2>2. pending \in Seq(Callbacks) /\ added \in Seq(Callbacks) /\ finished \in Seq(Callbacks)
    OBVIOUS
  <2>. QED  BY <2>1, <2>2, Zenon DEF Types
<1>2. Where /\ Progress
  BY Zenon DEF Where, Progress, Threads, Stopped
<1>3. Counts
  <2>1. InService = {} /\ AtWork = {}
    BY Zenon DEF InService, AtWork, Stopped
  <2>. QED  BY <2>1, FS_EmptySet, Zenon DEF Counts
<1>4. InCallback = {}
  BY Zenon DEF InCallback
<1>5. OneCallback
  BY <1>4, Zenon DEF OneCallback
<1>6. finished \o pending = added
  OBVIOUS
<1>7. InOrder
  BY <1>4, <1>6, Zenon DEF InOrder, InCallback
<1>8. NeverStranded
  BY Zenon DEF NeverStranded
<1>. QED  BY <1>1, <1>2, <1>3, <1>5, <1>7, <1>8, Zenon DEF Base

\* Every step of every thread keeps the invariant.
LEMMA BaseKept == Base /\ [Next]_vars => Base'
  BY TypesKept, WhereKept, ProgressKept, CountsKept, OneCallbackKept, CountTypes, Zenon DEF Base

\* What has finished, what runs and what waits is what was added, in that order.
LEMMA OrderKept ==
    ASSUME Base, InOrder, [Next]_vars
    PROVE  InOrder'
<1>. USE DEF Base, Types, InCallback, OneCallback, InOrder
<1>1. CASE UNCHANGED clientVars
  BY <1>1, Zenon DEF clientVars
<1>2. ASSUME NEW th \in Threads, MaybeScheduleProcessQueue(th) \/ Schedule(th) PROVE InOrder'
  <2>1. InCallback' = InCallback /\ UNCHANGED <<pending, current, added, finished>>
    BY <1>2, SMTT(30) DEF MaybeScheduleProcessQueue, Schedule
  <2>. QED  BY <2>1, Zenon
<1>3. ASSUME NEW th \in Threads, ProcessQueue(th) PROVE InOrder'
  <2>1. CASE MayProcess
    <3>1. InCallback = {} /\ InCallback' = {th}
      BY <1>3, <2>1, SMTT(30) DEF ProcessQueue, MayProcess
    <3>2. /\ current'[th] = Head(pending) /\ pending' = Tail(pending) /\ pending # <<>>
          /\ UNCHANGED <<added, finished>>
      BY <1>3, <2>1, Zenon DEF ProcessQueue, MayProcess
    <3>3. finished \o pending = added
      BY <3>1, Zenon
    <3>4. (finished \o <<Head(pending)>>) \o Tail(pending) = finished \o pending
      BY <3>2, TakeFirst, SMTT(30)
    <3>. QED  BY <3>1, <3>2, <3>3, <3>4, Zenon
  <2>2. CASE ~MayProcess
    <3>1. InCallback' = InCallback /\ UNCHANGED <<pending, current, added, finished>>
      BY <1>3, <2>2, SMTT(30) DEF ProcessQueue
    <3>. QED  BY <3>1, Zenon
  <2>. QED  BY <2>1, <2>2, Zenon
<1>4. ASSUME NEW th \in Threads, CallbackDone(th) PROVE InOrder'
  <2>1. InCallback = {th} /\ InCallback' = {}
    BY <1>4 DEF CallbackDone, AfterCallback
  <2>2. finished' = finished \o <<current[th]>> /\ UNCHANGED <<pending, added>>
    BY <1>4, <2>1, SMTT(30) DEF CallbackDone
  <2>. QED  BY <2>1, <2>2, Zenon
<1>5. ASSUME NEW th \in Threads, Enters(th) PROVE InOrder'
  BY <1>5, Zenon DEF Enters
<1>6. ASSUME NEW th \in Threads, NEW c \in Callbacks, Adds(th, c) PROVE InOrder'
  <2>1. InCallback' = InCallback /\ UNCHANGED <<current, finished>>
    BY <1>6, Zenon DEF Adds
  <2>2. pending' = Append(pending, c) /\ added' = Append(added, c)
    BY <1>6, Zenon DEF Adds
  <2>3. CASE InCallback = {}
    <3>1. finished \o Append(pending, c) = Append(finished \o pending, c)
      BY AppendLast
    <3>. QED  BY <2>1, <2>2, <2>3, <3>1, Zenon
  <2>4. ASSUME NEW r \in InCallback
        PROVE  (finished \o <<current[r]>>) \o Append(pending, c) = Append(added, c)
    <3>1. finished \o <<current[r]>> \in Seq(Callbacks)
      OBVIOUS
    <3>2. (finished \o <<current[r]>>) \o Append(pending, c)
            = Append((finished \o <<current[r]>>) \o pending, c)
      BY <3>1, AppendLast
    <3>. QED  BY <3>2, Zenon
  <2>. QED  BY <2>1, <2>2, <2>3, <2>4, Zenon
<1>. QED
  BY <1>1, <1>2, <1>3, <1>4, <1>5, <1>6, ClientView, ShutdownAssumption, Zenon DEF ClientStep, Threads

\* ProcessQueue is scheduled, or about to be, whenever a callback waits and none runs.
LEMMA NeverStrandedKept ==
    ASSUME Base, NeverStranded, [Next]_vars
    PROVE  NeverStranded'
<1>. USE DEF Base, Types, NeverStranded
<1>1. CASE UNCHANGED clientVars
  <2>1. ASSUME "process" \in Range(taskQueue), ~(\E th \in Threads : op'[th] = "process")
        PROVE  "process" \in Range(taskQueue')
    <3>1. CASE taskQueue # <<>> /\ taskQueue' = Tail(taskQueue) /\ Head(taskQueue) # "process"
      BY <2>1, <3>1, StaysInTail, Zenon
    <3>2. CASE taskQueue' = Append(taskQueue, "tick")
      BY <2>1, <3>2, StaysInAppend DEF Tasks
    <3>3. ASSUME NEW th \in Threads, Schedule(th) PROVE FALSE
      BY <1>1, <3>3, Zenon DEF Schedule, clientVars
    <3>. QED  BY <2>1, <3>1, <3>2, <3>3, TaskView, Zenon DEF Threads
  <2>. QED  BY <1>1, <2>1, Zenon DEF clientVars
<1>2. ASSUME NEW th \in Threads, ClientStep(th) PROVE NeverStranded'
  <2>1. CASE MaybeScheduleProcessQueue(th)
    BY <2>1, Zenon DEF MaybeScheduleProcessQueue
  <2>2. CASE Schedule(th)
    <3>1. "process" \in Range(Append(taskQueue, "process"))
      BY StaysInAppend DEF Tasks
    <3>2. ASSUME "tick" \in Range(taskQueue)
          PROVE  "process" \in Range(BeforeLast(taskQueue, "process"))
      <4>1. taskQueue # <<>>
        BY <3>2 DEF Range
      <4>. QED  BY <4>1, InsertBeforeLast DEF Tasks
    <3>. QED  BY <2>2, <3>1, <3>2, Zenon DEF Schedule
  <2>3. CASE ProcessQueue(th)
    BY <2>3, Zenon DEF ProcessQueue, MayProcess
  <2>4. CASE CallbackDone(th)
    BY <2>4, Zenon DEF CallbackDone, AfterCallback
  <2>. QED  BY <1>2, <2>1, <2>2, <2>3, <2>4, Zenon DEF ClientStep
<1>3. ASSUME NEW th \in Threads, Enters(th) PROVE NeverStranded'
  BY <1>3, Zenon DEF Enters
<1>4. ASSUME NEW th \in Threads, NEW c \in Callbacks, Adds(th, c) PROVE NeverStranded'
  BY <1>4, Zenon DEF Adds
<1>. QED
  BY <1>1, <1>2, <1>3, <1>4, ClientView, ShutdownAssumption, Zenon DEF Threads

-----------------------------------------------------------------------------
(* Results.                                                                *)

ClientInv == Base /\ InOrder /\ NeverStranded

\* The invariant holds throughout.
LEMMA AlwaysClientInv == Spec => []ClientInv
<1>1. ClientInv /\ [Next]_vars => ClientInv'
  BY BaseKept, OrderKept, NeverStrandedKept, Zenon DEF ClientInv
<1>. QED  BY <1>1, BaseInit, PTL DEF Spec, ClientInv

\* SingleThreadedSchedulerClient runs callbacks one at a time and in the order they
\* were added, however many threads serve the scheduler.
THEOREM AlwaysInOrder == Spec => []InOrder
<1>1. ClientInv => InOrder
  BY Zenon DEF ClientInv
<1>. QED  BY <1>1, AlwaysClientInv, PTL

\* A pending callback always has a ProcessQueue on its way, in spite of the two
\* mutexes MaybeScheduleProcessQueue takes one after the other.
THEOREM CallbacksNeverStranded == Spec => []NeverStranded
<1>1. ClientInv => NeverStranded
  BY Zenon DEF ClientInv
<1>. QED  BY <1>1, AlwaysClientInv, PTL

\* The assert of EmptyQueue holds and the work queue is deleted only when the
\* workers that began have left, for any numbers of threads.
THEOREM ThreadsAlwaysGone == Spec => []ThreadsGone
<1>1. ClientInv => ThreadsGone
  <2>. SUFFICES ASSUME ClientInv PROVE ThreadsGone
    BY Zenon
  <2>. USE DEF ClientInv, Base, Counts, Progress
  <2>1. phase \notin {"up", "join"} => InService = {}
    BY Zenon DEF Joined, InService
  <2>2. phase \notin {"up", "join"} => nThreadsServicingQueue = 0
    BY <2>1, FS_EmptySet, Zenon
  <2>. QED  BY <2>2, Zenon DEF ThreadsGone, Stopped
<1>. QED  BY <1>1, AlwaysClientInv, PTL

\* Finished callbacks are never forgotten again.
LEMMA FinishedGrows ==
    ASSUME Base, [Next]_vars
    PROVE  Finished \subseteq Finished'
<1>. USE DEF Base, Types
<1>1. ASSUME NEW th \in Threads, CallbackDone(th) PROVE Finished \subseteq Finished'
  <2>1. current[th] \in Callbacks
    BY <1>1, Zenon DEF CallbackDone, OneCallback, InCallback
  <2>. QED  BY <1>1, <2>1, StaysInAppend, Zenon DEF CallbackDone, Finished
<1>2. ASSUME UNCHANGED finished PROVE Finished \subseteq Finished'
  BY <1>2, Zenon DEF Finished
<1>. QED
  BY <1>1, <1>2, ClientView, Zenon DEF ClientStep, MaybeScheduleProcessQueue, Schedule, ProcessQueue,
     clientVars, Enters, Adds

\* An answered request that waited for its promise has its callback finished.
AnsweredFinished == SyncItems \cap answered \subseteq Finished

\* A request is answered only by RpcReturns, which waits for the promise.
LEMMA AnsweredFinishedKept ==
    ASSUME Base, AnsweredFinished, [Next]_vars
    PROVE  AnsweredFinished'
<1>1. ASSUME NEW w \in Workers, RpcReturns(w) PROVE AnsweredFinished'
  BY <1>1, FinishedGrows, Zenon DEF RpcReturns, ItemDone, PromiseSet, AnsweredFinished
<1>2. ASSUME UNCHANGED answered PROVE AnsweredFinished'
  BY <1>2, FinishedGrows, Zenon DEF AnsweredFinished
<1>3. ASSUME NEW w \in Workers, WorkerStep(w) PROVE AnsweredFinished'
  BY <1>1, <1>2, <1>3, Zenon DEF WorkerStep, StartWorker, NextItem, WorkerWoken, LeaveRun, Take, RpcSync,
     Rest, workVars
<1>4. ASSUME NEW t \in Servers, ServerStep(t) PROVE AnsweredFinished'
  BY <1>2, <1>4, Zenon DEF ServerStep, Rest, workVars
<1>5. CASE NetStep \/ MainStep
  BY <1>2, <1>5, Zenon DEF NetStep, MainStep, JoinAll, StopHTTPServer, WaitExit, StopNet, FlushStateToDisk,
     EmptyQueue, Unregister, Rest, workVars
<1>6. CASE Environment
  BY <1>2, <1>6, Zenon DEF Environment, WorkerWakesSpuriously, Take, Enqueue, NetSignal, Interrupt,
     InterruptQueue, Rest, workVars
<1>7. CASE UNCHANGED vars
  BY <1>2, <1>7, Zenon DEF vars, workVars
<1>. QED  BY <1>3, <1>4, <1>5, <1>6, <1>7, Zenon DEF Next

\* finished is the beginning of added.
LEMMA FinishedIsPrefix ==
    ASSUME Base, InOrder, NEW k \in DOMAIN finished
    PROVE  SubSeq(finished, 1, k) = SubSeq(added, 1, k)
<1>. USE DEF Base, Types
<1>1. k \in 1 .. Len(finished) /\ 1 \in 1 .. Len(finished)
  OBVIOUS
<1>2. ASSUME NEW rest \in Seq(Callbacks), finished \o rest = added
      PROVE  SubSeq(finished, 1, k) = SubSeq(added, 1, k)
  BY <1>1, <1>2, SubSeqOfConcat1, Zenon
<1>3. CASE InCallback = {}
  BY <1>2, <1>3, Zenon DEF InOrder, InCallback
<1>4. ASSUME NEW th \in InCallback PROVE SubSeq(finished, 1, k) = SubSeq(added, 1, k)
  <2>1. current[th] \in Callbacks /\ <<current[th]>> \in Seq(Callbacks)
    BY DEF OneCallback
  <2>2. (finished \o <<current[th]>>) \o pending = added
    BY Zenon DEF InOrder, InCallback
  <2>3. (finished \o <<current[th]>>) \o pending = finished \o (<<current[th]>> \o pending)
    BY <2>1, ConcatAssociative
  <2>4. <<current[th]>> \o pending \in Seq(Callbacks)
    BY <2>1
  <2>. QED  BY <1>2, <2>2, <2>3, <2>4, Zenon
<1>. QED  BY <1>3, <1>4, Zenon

\* SyncWithValidationInterfaceQueue returns only after every callback added before
\* its own has finished.
THEOREM AnswersAlwaysSynced == Spec => []AnswersAreSynced
<1>1. Init => AnsweredFinished
  BY Zenon DEF Init, WorkInit, AnsweredFinished
<1>2. ClientInv /\ AnsweredFinished /\ [Next]_vars => AnsweredFinished'
  BY AnsweredFinishedKept, Zenon DEF ClientInv
<1>3. ClientInv /\ AnsweredFinished => AnswersAreSynced
  BY FinishedIsPrefix, Zenon DEF ClientInv, AnsweredFinished, AnswersAreSynced, Finished, Range
<1>. QED  BY <1>1, <1>2, <1>3, AlwaysClientInv, PTL DEF Spec

Late == {"again", "unregister", "done"}

\* Once the queue has been emptied only the second flush adds a callback.
LEMMA LateAdds ==
    ASSUME Base, phase \in Late, [Next]_vars
    PROVE  Added' \subseteq Added \cup {Best2}
<1>. USE DEF Base, Types
<1>1. CASE UNCHANGED added
  BY <1>1, Zenon DEF Added
<1>2. CASE FlushStateToDisk
  <2>1. added' = Append(added, Best2) /\ Best2 \in Callbacks
    BY <1>2, ShutdownAssumption, Zenon DEF FlushStateToDisk, AddToProcessQueue, Late
  <2>. QED  BY <2>1, AppendAddsOne, Zenon DEF Added
<1>3. ASSUME NEW w \in Workers, RpcSync(w) PROVE FALSE
  BY <1>3, Zenon DEF RpcSync, Progress, Late, Stopped
<1>4. ASSUME NEW c \in NetCallbacks, NetSignal(c) PROVE FALSE
  BY <1>4, Zenon DEF NetSignal, Late
<1>5. ASSUME NEW th, ClientStep(th) PROVE UNCHANGED added
  BY <1>5, Zenon DEF ClientStep, MaybeScheduleProcessQueue, Schedule, ProcessQueue, CallbackDone
<1>6. ASSUME NEW t \in Servers, ServerStep(t) PROVE UNCHANGED added
  BY <1>5, <1>6, Zenon DEF ServerStep, StartServer, WakeNotified, Wake, TimeOut, TaskDone, Repeat, clientVars
<1>7. ASSUME NEW w \in Workers, WorkerStep(w) PROVE UNCHANGED added
  BY <1>3, <1>5, <1>7, Zenon DEF WorkerStep, RestOfWork, RpcReturns, schedulerVars, clientVars
<1>8. CASE NetStep \/ MainStep
  BY <1>1, <1>2, <1>5, <1>8, Zenon DEF NetStep, MainStep, JoinAll, StopHTTPServer, StopNet, EmptyQueue,
     Unregister, schedulerVars, clientVars
<1>9. CASE Environment
  BY <1>1, <1>4, <1>9, Zenon DEF Environment, WakeSpuriously, Wake, RestOfWork, ClockTick, Stop, Interrupt,
     schedulerVars, clientVars
<1>10. CASE UNCHANGED vars
  BY <1>1, <1>10, Zenon DEF vars, schedulerVars, clientVars
<1>. QED  BY <1>1, <1>6, <1>7, <1>8, <1>9, <1>10, Zenon DEF Next

\* EmptyQueue ends when nothing is pending, and then nobody is in a callback.
LEMMA EmptiedMeansFinished ==
    ASSUME Base, InOrder, EmptyQueue, phase' = "again"
    PROVE  Added' = Finished'
<1>. USE ShutdownAssumption DEF Base, Types
<1>1. op[Main] = "none" /\ pending = <<>> /\ phase = "emptying" /\ UNCHANGED <<added, finished>>
  BY Zenon DEF EmptyQueue, should_continue
<1>2. InCallback = {}
  <2>1. \A t \in Servers : op[t] = "none"
    BY <1>1, Zenon DEF Progress, Joined, Where
  <2>. QED  BY <1>1, <2>1, Zenon DEF InCallback, Threads, Where
<1>3. finished \o pending = added
  BY <1>2, Zenon DEF InOrder, InCallback
<1>4. finished = added
  BY <1>1, <1>3, ConcatEmptySeq, Zenon
<1>. QED  BY <1>1, <1>4, Zenon DEF Added, Finished

\* An orderly shutdown runs every callback that was added before the queue was
\* emptied; only that of the last flush is dropped.
THEOREM NothingLostAtShutdown == Spec => []NoneLostAtShutdown
<1>1. Init => NoneLostAtShutdown
  BY Zenon DEF Init, NoneLostAtShutdown
<1>2. ASSUME ClientInv, NoneLostAtShutdown, [Next]_vars PROVE NoneLostAtShutdown'
  <2>1. CASE phase \in Late
    BY <1>2, <2>1, LateAdds, FinishedGrows, Zenon DEF ClientInv, NoneLostAtShutdown, Late
  <2>2. CASE phase \notin Late /\ phase' \in Late
    <3>1. EmptyQueue /\ phase' = "again"
      BY <1>2, <2>2, PhaseView, Zenon DEF ClientInv, Base, PhaseStep, Interrupt, JoinAll, StopHTTPServer, StopNet,
         FlushStateToDisk, EmptyQueue, Unregister, Late
    <3>. QED  BY <1>2, <3>1, EmptiedMeansFinished, Zenon DEF ClientInv, NoneLostAtShutdown
  <2>. QED  BY <2>1, <2>2, Zenon DEF NoneLostAtShutdown, Late
<1>3. ClientInv /\ NoneLostAtShutdown /\ [Next]_vars => NoneLostAtShutdown'
  BY <1>2, Zenon
<1>. QED  BY <1>1, <1>3, AlwaysClientInv, PTL DEF Spec

=============================================================================
