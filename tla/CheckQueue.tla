----------------------------- MODULE CheckQueue -----------------------------
(***************************************************************************)
(* CCheckQueue and CCheckQueueControl (checkqueue.h): the script checks of *)
(* a block are pushed by the thread that connects it, the master, and are  *)
(* carried out by worker threads and, at the end, by the master itself.    *)
(*                                                                         *)
(* Every stretch of code that holds the queue's mutex is one step; the     *)
(* mutex is given up while a batch is carried out and inside cond.wait.    *)
(* The queue is a set: "As the order of booleans doesn't matter, it is     *)
(* used as a LIFO".  fQuit is left out: it is initialised to false and no  *)
(* code sets it.                                                           *)
(***************************************************************************)
EXTENDS Integers, FiniteSets

CONSTANTS
    Workers,     \* threads that run ThreadScriptCheck
    Masters,     \* threads that may open a CCheckQueueControl
    Importers,   \* those that belong to the thread group (ThreadImport)
    None,        \* no thread
    Checks,      \* the checks a master may add
    Bad,         \* those that return false
    nBatchSize   \* largest batch

ASSUME QueueAssumption ==
    /\ IsFiniteSet(Checks) /\ Bad \subseteq Checks
    /\ IsFiniteSet(Workers) /\ IsFiniteSet(Masters)
    /\ Importers \subseteq Masters
    /\ Workers \cap Masters = {} /\ None \notin Workers \cup Masters
    /\ nBatchSize \in Nat \ {0}

Threads == Workers \cup Masters

VARIABLES
    queue,         \* checks not yet taken
    nIdle,         \* threads inside cond.wait
    nTotal,        \* threads inside Loop
    fAllOk,        \* the temporary evaluation result
    nTodo,         \* checks that have not completed
    ControlMutex,  \* the master that holds it, or None
    pc,            \* where each thread is
    vChecks,       \* the batch of each thread
    fOk,           \* each thread's fOk when it took its batch
    notified,      \* waiting threads that were notified
    interrupted,   \* threadGroup.interrupt_all() was called
    unwound,       \* threads that thread_interrupted threw out of cond.wait
    inDestructor,  \* masters whose Wait is the one of the control's destructor
    added,         \* history: checks added since ControlMutex was taken
    fRet           \* what Wait returned to each master

vars == <<queue, nIdle, nTotal, fAllOk, nTodo, ControlMutex, pc, vChecks, fOk,
          notified, interrupted, unwound, inDestructor, added, fRet>>

Init ==
    /\ queue = {} /\ nIdle = 0 /\ nTotal = 0 /\ fAllOk = TRUE /\ nTodo = 0
    /\ ControlMutex = None
    /\ pc = [t \in Threads |-> IF t \in Workers THEN "enter" ELSE "outside"]
    /\ vChecks = [t \in Threads |-> {}]
    /\ fOk = [t \in Threads |-> TRUE]
    /\ notified = {} /\ interrupted = FALSE /\ unwound = {} /\ inDestructor = {}
    /\ added = {}
    /\ fRet = [m \in Masters |-> TRUE]

-----------------------------------------------------------------------------
(* The master's side.                                                      *)

\* CCheckQueueControl's constructor.
Control(m) ==
    /\ pc[m] = "outside"
    /\ ControlMutex = None
    /\ ControlMutex' = m
    /\ added' = {}
    /\ pc' = [pc EXCEPT ![m] = "adding"]
    /\ UNCHANGED <<queue, nIdle, nTotal, fAllOk, nTodo, vChecks, fOk, notified,
                   interrupted, unwound, inDestructor, fRet>>

WaitingWorkers == {w \in Workers : pc[w] = "wait"}

\* Sets of workers the end of Add may notify: notify_one wakes some waiting
\* thread if there is one, notify_all every one.
NotifiedByAdd(S) ==
    IF S = {} \/ WaitingWorkers \ notified = {} THEN {{}}
    ELSE IF Cardinality(S) = 1 THEN {{w} : w \in WaitingWorkers \ notified}
    ELSE {WaitingWorkers}

\* Slip: the counter is increased by one.
TodoOneMore(S) == nTodo + 1

TodoAfterAdd(S) == nTodo + Cardinality(S)

Add(m, S) ==
    /\ pc[m] = "adding"
    /\ queue' = queue \cup S
    /\ added' = added \cup S
    /\ nTodo' = TodoAfterAdd(S)
    /\ \E W \in NotifiedByAdd(S) : notified' = notified \cup W
    /\ UNCHANGED <<nIdle, nTotal, fAllOk, ControlMutex, pc, vChecks, fOk,
                   interrupted, unwound, inDestructor, fRet>>

\* Wait is called, by ConnectBlock or, when that returned early, by the
\* control's destructor.
Wait(m) ==
    /\ pc[m] = "adding"
    /\ pc' = [pc EXCEPT ![m] = "enter"]
    /\ inDestructor' \in {inDestructor, inDestructor \cup {m}}
    /\ UNCHANGED <<queue, nIdle, nTotal, fAllOk, nTodo, ControlMutex, vChecks,
                   fOk, notified, interrupted, unwound, added, fRet>>

\* The end of the control's destructor; an interrupted thread ends.
Leave(m) ==
    /\ pc[m] = "returned"
    /\ ControlMutex' = None
    /\ pc' = [pc EXCEPT ![m] = IF m \in unwound THEN "gone" ELSE "outside"]
    /\ inDestructor' = inDestructor \ {m}
    /\ UNCHANGED <<queue, nIdle, nTotal, fAllOk, nTodo, vChecks, fOk, notified,
                   interrupted, unwound, added, fRet>>

-----------------------------------------------------------------------------
(* Loop, which every worker runs and the master joins.                     *)

MaxOf(a, b) == IF a > b THEN a ELSE b
MinOf(a, b) == IF a < b THEN a ELSE b

\* The number of checks to take, given the counters at that moment.
BatchSize(total, idle) ==
    MaxOf(1, MinOf(nBatchSize, Cardinality(queue) \div (total + idle + 1)))

\* Slip: the master leaves as soon as the queue is empty.
QueueEmpty(t, todo) == t \in Masters

MayReturn(t, todo) == t \in Masters /\ todo = 0

\* The three ways out of the while loop, each up to the release of the mutex,
\* with the counters and the result as they are on arrival.
Return(t, total, idle, todo, ok) ==
    /\ queue = {} /\ MayReturn(t, todo)
    /\ nTotal' = total - 1 /\ nIdle' = idle
    /\ fAllOk' = TRUE
    /\ fRet' = [fRet EXCEPT ![t] = ok]
    /\ pc' = [pc EXCEPT ![t] = "returned"]
    /\ vChecks' = [vChecks EXCEPT ![t] = {}]
    /\ UNCHANGED <<queue, fOk>>

\* Slip: only workers count as idle.
IdleWorker(t, idle) == IF t \in Workers THEN idle + 1 ELSE idle

IdleInWait(t, idle) == idle + 1

Sleep(t, total, idle, todo, ok) ==
    /\ queue = {} /\ ~MayReturn(t, todo)
    /\ nTotal' = total /\ nIdle' = IdleInWait(t, idle)
    /\ fAllOk' = ok
    /\ pc' = [pc EXCEPT ![t] = "wait"]
    /\ vChecks' = [vChecks EXCEPT ![t] = {}]
    /\ UNCHANGED <<queue, fOk, fRet>>

Take(t, total, idle, ok) ==
    /\ queue # {}
    /\ nTotal' = total /\ nIdle' = idle
    /\ fAllOk' = ok
    /\ \E B \in SUBSET queue :
          /\ Cardinality(B) = BatchSize(total, idle)
          /\ vChecks' = [vChecks EXCEPT ![t] = B]
          /\ queue' = queue \ B
    /\ fOk' = [fOk EXCEPT ![t] = ok]
    /\ pc' = [pc EXCEPT ![t] = "run"]
    /\ UNCHANGED fRet

TakeOrWait(t, total, idle, todo, ok) ==
    /\ nTodo' = todo
    /\ \/ Return(t, total, idle, todo, ok)
       \/ Sleep(t, total, idle, todo, ok)
       \/ Take(t, total, idle, ok)
    /\ UNCHANGED <<ControlMutex, interrupted, unwound, inDestructor, added>>

\* The first iteration.
Enter(t) ==
    /\ pc[t] = "enter"
    /\ TakeOrWait(t, nTotal + 1, nIdle, nTodo, fAllOk)
    /\ UNCHANGED notified

\* Slip: the last batch's result is not part of the conjunction.
RunResultIgnored(t) == fAllOk

\* fAllOk after the clean-up: checks are skipped once fOk is false.
RunResult(t) == fAllOk /\ fOk[t] /\ vChecks[t] \cap Bad = {}

\* Slip: a worker that finishes the last check goes to sleep silently.
NotifyNobody(t, todo) == {}

\* condMaster.notify_one() by the worker that completed the last check.
NotifyMaster(t, todo) ==
    IF todo = 0 /\ t \in Workers THEN {m \in Masters : pc[m] = "wait"} ELSE {}

\* The batch was carried out; the clean-up of the next round.
FinishBatch(t) ==
    /\ pc[t] = "run"
    /\ LET todo == nTodo - Cardinality(vChecks[t]) IN
       /\ TakeOrWait(t, nTotal, nIdle, todo, RunResult(t))
       /\ notified' = notified \cup NotifyMaster(t, todo)

\* cond.wait returns, notified or spuriously.
Awake(t) ==
    /\ pc[t] = "wait"
    /\ TakeOrWait(t, nTotal, nIdle - 1, nTodo, fAllOk)
    /\ notified' = notified \ {t}

WakeNotified(t) == t \in notified /\ Awake(t)
WakeSpuriously(t) == t \notin notified /\ Awake(t)

\* Shutdown interrupts the threads of the thread group.
InterruptAll ==
    /\ ~interrupted
    /\ interrupted' = TRUE
    /\ UNCHANGED <<queue, nIdle, nTotal, fAllOk, nTodo, ControlMutex, pc, vChecks,
                   fOk, notified, unwound, inDestructor, added, fRet>>

\* cond.wait is the only interruption point, and each thread is interrupted
\* once.  thread_interrupted leaves Loop with nIdle and nTotal still counting
\* the thread.  A worker ends; a master's control is destroyed, which calls
\* Wait again.  An interrupt during the destructor's own Wait is not a step:
\* it ends the process.
Interrupted(t) ==
    /\ interrupted /\ t \in (Workers \cup Importers) \ unwound
    /\ pc[t] = "wait" /\ t \notin inDestructor
    /\ unwound' = unwound \cup {t}
    /\ pc' = [pc EXCEPT ![t] = IF t \in Workers THEN "gone" ELSE "enter"]
    /\ inDestructor' = inDestructor \cup ({t} \cap Masters)
    /\ notified' = notified \ {t}
    /\ UNCHANGED <<queue, nIdle, nTotal, fAllOk, nTodo, ControlMutex, vChecks, fOk,
                   interrupted, added, fRet>>

MasterStep(m) ==
    \/ Control(m) \/ Wait(m) \/ Leave(m)
    \/ \E S \in SUBSET (Checks \ added) : Add(m, S)

LoopStep(t) == Enter(t) \/ FinishBatch(t) \/ WakeNotified(t)

Next ==
    \/ \E m \in Masters : MasterStep(m)
    \/ \E t \in Threads : LoopStep(t) \/ WakeSpuriously(t) \/ Interrupted(t)
    \/ InterruptAll

Spec == Init /\ [][Next]_vars

\* Every thread that is not blocked is scheduled and every check terminates;
\* nothing is assumed of spurious wake-ups, of interrupts and of masters that
\* do not call Wait.
FairSpec == Spec /\ \A t \in Threads : WF_vars(LoopStep(t))

-----------------------------------------------------------------------------
(* Properties.                                                             *)

\* Unsigned counters never wrap and batches are sets of checks.
TypeOK ==
    /\ queue \in SUBSET Checks /\ added \in SUBSET Checks
    /\ nIdle \in Nat /\ nTotal \in Nat /\ nTodo \in Nat
    /\ fAllOk \in BOOLEAN
    /\ ControlMutex \in Masters \cup {None}
    /\ pc \in [Threads -> {"outside", "adding", "enter", "wait", "run", "returned",
                           "gone"}]
    /\ vChecks \in [Threads -> SUBSET Checks]
    /\ fOk \in [Threads -> BOOLEAN] /\ fRet \in [Masters -> BOOLEAN]
    /\ notified \in SUBSET Threads /\ interrupted \in BOOLEAN
    /\ unwound \in SUBSET Threads /\ inDestructor \in SUBSET Masters

InWait == {t \in Threads : pc[t] = "wait"}
InLoop == {t \in Threads : pc[t] \in {"wait", "run"}}

\* nIdle and nTotal count the threads in cond.wait and in Loop, and, beyond
\* those, only the threads that an interrupt threw out.
CountersExact ==
    /\ nIdle = Cardinality(InWait) + Cardinality(unwound)
    /\ nTotal = Cardinality(InLoop) + Cardinality(unwound)

\* The checks that were added and whose result is not yet in fAllOk.
Outstanding == queue \cup UNION {vChecks[t] : t \in Threads}

\* "Number of verifications that haven't completed yet.  This includes
\* elements that are no longer queued, but still in the worker's own batches."
TodoExact == nTodo = Cardinality(Outstanding)

\* Wait returns "whether all evaluations were successful", of this control's
\* checks and of no other's.
WaitExact ==
    \A m \in Masters :
        pc[m] = "returned" => (fRet[m] <=> added \cap Bad = {})

\* CCheckQueueControl "guarantees the passed queue is finished before
\* continuing": no thread still holds a check when Wait has returned, and the
\* next control starts from a clean queue.
FinishedBeforeContinuing ==
    (ControlMutex = None \/ pc[ControlMutex] = "returned") =>
        Outstanding = {} /\ fAllOk

\* No wake-up is lost: a master that called Wait gets its answer, also when
\* the workers are interrupted meanwhile.
WaitReturns ==
    \A m \in Masters : (pc[m] = "enter") ~> (pc[m] = "returned")

=============================================================================
