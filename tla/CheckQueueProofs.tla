-------------------------- MODULE CheckQueueProofs --------------------------
(***************************************************************************)
(* Proofs about CheckQueue for any numbers of workers, masters and checks. *)
(* The inductive invariant QueueInv adds to the checked properties where   *)
(* each thread can be, that every check is held at most once, and what     *)
(* fAllOk and a thread's own fOk are evidence of.                          *)
(***************************************************************************)
EXTENDS CheckQueue, FiniteSetTheorems, TLAPS

\* A control is open and its Wait has not returned.
InSession == ControlMutex # None /\ pc[ControlMutex] # "returned"

Places ==
    /\ \A w \in Workers : pc[w] \in {"enter", "wait", "run", "gone"}
    /\ \A m \in Masters : pc[m] \notin {"outside", "gone"} <=> ControlMutex = m
    /\ \A t \in Threads : pc[t] = "run" <=> vChecks[t] # {}

HeldOnce ==
    \A t \in Threads :
        /\ vChecks[t] \cap queue = {}
        /\ \A u \in Threads \ {t} : vChecks[t] \cap vChecks[u] = {}

Evidence ==
    /\ Outstanding \subseteq added
    /\ InSession /\ fAllOk => (added \ Outstanding) \cap Bad = {}
    /\ ~fAllOk => added \cap Bad # {}
    /\ \A t \in Threads : pc[t] = "run" /\ ~fOk[t] => added \cap Bad # {}

QueueInv ==
    /\ TypeOK /\ CountersExact /\ TodoExact /\ Places /\ HeldOnce /\ Evidence
    /\ WaitExact /\ FinishedBeforeContinuing

\* The outstanding checks but for the batch of thread t.
Rest(t) == queue \cup UNION {vChecks[u] : u \in Threads \ {t}}

-----------------------------------------------------------------------------

\* There are finitely many threads and checks.
LEMMA FiniteThreads ==
    /\ IsFiniteSet(Threads)
    /\ \A S \in SUBSET Threads : IsFiniteSet(S) /\ Cardinality(S) \in Nat
    /\ \A S \in SUBSET Checks : IsFiniteSet(S) /\ Cardinality(S) \in Nat
<1>1. IsFiniteSet(Threads)
  BY QueueAssumption, FS_Union, Zenon DEF Threads
<1>2. ASSUME NEW S \in SUBSET Threads PROVE IsFiniteSet(S) /\ Cardinality(S) \in Nat
  BY <1>1, FS_Subset, FS_CardinalityType, Zenon
<1>3. ASSUME NEW S \in SUBSET Checks PROVE IsFiniteSet(S) /\ Cardinality(S) \in Nat
  BY QueueAssumption, FS_Subset, FS_CardinalityType, Zenon
<1>. QED  BY <1>1, <1>2, <1>3, Zenon

\* A batch is never empty.
LEMMA BatchNotEmpty ==
    ASSUME NEW total \in Nat, NEW idle \in Nat, Cardinality(queue) \in Nat
    PROVE  BatchSize(total, idle) \in Nat /\ BatchSize(total, idle) >= 1
<1>1. Cardinality(queue) \div (total + idle + 1) \in Nat
  OBVIOUS
<1>2. nBatchSize \in Nat
  BY QueueAssumption, Zenon
<1>. QED  BY <1>1, <1>2 DEF BatchSize, MaxOf, MinOf

\* A new queue satisfies the invariant.
LEMMA InitQueueInv == Init => QueueInv
<1>. SUFFICES ASSUME Init PROVE QueueInv  BY Zenon
<1>. USE DEF Init
<1>1. TypeOK
  BY QueueAssumption, Zenon DEF TypeOK, Threads
<1>2. Outstanding = {}
  BY Zenon DEF Outstanding
<1>3. InWait = {} /\ InLoop = {}
  BY Zenon DEF InWait, InLoop, Threads
<1>4. CountersExact /\ TodoExact
  BY <1>2, <1>3, FS_EmptySet DEF CountersExact, TodoExact
<1>5. Places
  BY QueueAssumption, Zenon DEF Places, Threads
<1>6. HeldOnce /\ Evidence /\ WaitExact /\ FinishedBeforeContinuing
  BY <1>2, QueueAssumption, Zenon DEF HeldOnce, Evidence, WaitExact, FinishedBeforeContinuing,
     InSession, Threads
<1>. QED  BY <1>1, <1>4, <1>5, <1>6, Zenon DEF QueueInv

-----------------------------------------------------------------------------
(* What the three ways out of the while loop have in common.               *)

\* What holds for a thread that arrives at the while loop with these values.
Arrives(t, total, idle, todo, ok) ==
    /\ t \in Threads /\ ok \in BOOLEAN
    /\ total = Cardinality(InLoop \cup {t}) + Cardinality(unwound)
    /\ idle = Cardinality(InWait \ {t}) + Cardinality(unwound)
    /\ todo = Cardinality(Rest(t))
    /\ pc[t] \in {"enter", "wait", "run"}
    /\ t \in Masters => InSession /\ ControlMutex = t
    /\ InSession /\ ok => (added \ Rest(t)) \cap Bad = {}
    /\ ~InSession => ok
    /\ ~ok => added \cap Bad # {}

\* The values a thread arrives at the while loop with are natural numbers.
LEMMA ArrivalTypes ==
    ASSUME QueueInv, NEW t, NEW total, NEW idle, NEW todo, NEW ok,
           Arrives(t, total, idle, todo, ok)
    PROVE  /\ total \in Nat /\ idle \in Nat /\ todo \in Nat /\ total >= 1
           /\ Rest(t) \in SUBSET Checks
           /\ Rest(t) \subseteq Outstanding
           /\ Outstanding = Rest(t) \cup vChecks[t]
           /\ Rest(t) \cap vChecks[t] = {}
<1>1. Rest(t) \in SUBSET Checks
  BY DEF Arrives, QueueInv, TypeOK, Rest
<1>2. InLoop \cup {t} \in SUBSET Threads /\ InWait \ {t} \in SUBSET Threads
  BY Zenon DEF Arrives, InLoop, InWait
<1>3. /\ Cardinality(InLoop \cup {t}) \in Nat /\ Cardinality(InWait \ {t}) \in Nat
      /\ Cardinality(unwound) \in Nat /\ todo \in Nat
  BY <1>1, <1>2, FiniteThreads, Zenon DEF Arrives, QueueInv, TypeOK
<1>4. Cardinality(InLoop \cup {t}) # 0
  BY <1>2, FiniteThreads, FS_EmptySet, Zenon
<1>5. Rest(t) \subseteq Outstanding /\ Outstanding = Rest(t) \cup vChecks[t]
  BY Zenon DEF Arrives, Rest, Outstanding
<1>6. Rest(t) \cap vChecks[t] = {}
  BY Zenon DEF Arrives, QueueInv, HeldOnce, Rest
<1>. QED  BY <1>1, <1>3, <1>4, <1>5, <1>6 DEF Arrives

\* Handing thread t a batch from the queue, possibly the empty one, for the
\* batch it has finished.
LEMMA Handover ==
    ASSUME QueueInv, NEW t \in Threads, NEW B \in SUBSET queue,
           vChecks' = [vChecks EXCEPT ![t] = B], queue' = queue \ B
    PROVE  Outstanding' = Rest(t) /\ HeldOnce'
<1>. vChecks \in [Threads -> SUBSET Checks]
  BY Zenon DEF QueueInv, TypeOK
<1>1. Outstanding' = Rest(t)
  <2>1. \A u \in Threads : vChecks'[u] = IF u = t THEN B ELSE vChecks[u]
    BY Zenon
  <2>2. Outstanding' = (queue \ B) \cup B \cup UNION {vChecks[u] : u \in Threads \ {t}}
    BY <2>1, Zenon DEF Outstanding
  <2>. QED  BY <2>2, Zenon DEF Rest
<1>2. HeldOnce'
  BY Zenon DEF QueueInv, HeldOnce
<1>. QED  BY <1>1, <1>2, Zenon

\* Thread t goes to place p.
LEMMA Counting ==
    ASSUME QueueInv, NEW t, NEW total, NEW idle, NEW todo, NEW ok,
           Arrives(t, total, idle, todo, ok),
           NEW p \in {"returned", "wait", "run"}, pc' = [pc EXCEPT ![t] = p],
           nTotal' = IF p = "returned" THEN total - 1 ELSE total,
           nIdle' = IF p = "wait" THEN idle + 1 ELSE idle,
           unwound' = unwound
    PROVE  CountersExact' /\ nTotal' \in Nat /\ nIdle' \in Nat
<1>. t \in Threads /\ pc \in [Threads -> {"outside", "adding", "enter", "wait", "run",
                                          "returned", "gone"}]
  BY Zenon DEF Arrives, QueueInv, TypeOK
<1>1. /\ IsFiniteSet(InLoop \cup {t}) /\ IsFiniteSet(InWait \ {t})
      /\ Cardinality(InLoop \cup {t}) \in Nat /\ Cardinality(InWait \ {t}) \in Nat
      /\ Cardinality(unwound) \in Nat
      /\ total \in Nat /\ idle \in Nat /\ total >= 1
  BY FiniteThreads, ArrivalTypes DEF InLoop, InWait, QueueInv, TypeOK
<1>2. InLoop' = IF p = "returned" THEN (InLoop \cup {t}) \ {t} ELSE InLoop \cup {t}
  BY Zenon DEF InLoop
<1>3. InWait' = IF p = "wait" THEN (InWait \ {t}) \cup {t} ELSE InWait \ {t}
  BY Zenon DEF InWait
<1>4. nTotal' = Cardinality(InLoop') + Cardinality(unwound)
  <2>1. Cardinality((InLoop \cup {t}) \ {t}) = Cardinality(InLoop \cup {t}) - 1
    BY <1>1, FS_RemoveElement, Zenon
  <2>. QED  BY <1>1, <1>2, <2>1 DEF Arrives
<1>5. nIdle' = Cardinality(InWait') + Cardinality(unwound)
  <2>1. Cardinality((InWait \ {t}) \cup {t}) = Cardinality(InWait \ {t}) + 1
    BY <1>1, FS_AddElement, Zenon
  <2>. QED  BY <1>1, <1>3, <2>1 DEF Arrives
<1>. QED  BY <1>1, <1>4, <1>5 DEF CountersExact

\* The master leaves Loop with the result of Wait.
LEMMA ReturnKeepsInv ==
    ASSUME QueueInv, NEW t, NEW total, NEW idle, NEW todo, NEW ok,
           Arrives(t, total, idle, todo, ok), Return(t, total, idle, todo, ok),
           nTodo' = todo, UNCHANGED <<ControlMutex, interrupted, unwound, inDestructor, added>>,
           notified' \in SUBSET Threads
    PROVE  QueueInv'
<1>. USE DEF Return
<1>1. t \in Masters /\ t \in Threads /\ todo = 0 /\ ControlMutex = t /\ InSession /\ t # None
  BY QueueAssumption, Zenon DEF MayReturn, Arrives, Threads
<1>2. Rest(t) = {}
  BY <1>1, ArrivalTypes, FiniteThreads, FS_EmptySet, Zenon DEF Arrives
<1>3. Outstanding' = {} /\ HeldOnce'
  BY <1>1, <1>2, Handover, Zenon
<1>4. CountersExact' /\ nTotal' \in Nat /\ nIdle' \in Nat
  BY Counting, Zenon
<1>5. TypeOK'
  BY <1>1, <1>4 DEF TypeOK, QueueInv, Arrives
<1>6. TodoExact'
  BY <1>1, <1>3, FS_EmptySet, Zenon DEF TodoExact
<1>7. Places'
  BY <1>1, QueueAssumption, Zenon DEF Places, QueueInv, TypeOK, Threads
<1>8. Evidence' /\ FinishedBeforeContinuing'
  <2>1. pc'[ControlMutex'] = "returned" /\ fAllOk'
    BY <1>1, Zenon DEF QueueInv, TypeOK
  <2>2. \A u \in Threads : pc'[u] # "run"
    BY <1>3, <1>7 DEF Places, Outstanding
  <2>. QED  BY <1>3, <2>1, <2>2, Zenon DEF Evidence, FinishedBeforeContinuing, InSession
<1>9. WaitExact'
  <2>1. fRet'[t] = ok
    BY <1>1, Zenon DEF QueueInv, TypeOK
  <2>2. ok <=> added \cap Bad = {}
    BY <1>1, <1>2, Zenon DEF Arrives
  <2>3. \A m \in Masters \ {t} : pc'[m] \in {"outside", "gone"}
    BY <1>1, <1>7, Zenon DEF Places
  <2>. QED  BY <2>1, <2>2, <2>3, Zenon DEF WaitExact
<1>. QED  BY <1>3, <1>4, <1>5, <1>6, <1>7, <1>8, <1>9, Zenon DEF QueueInv

\* A thread with nothing to do waits on the condition variable.
LEMMA SleepKeepsInv ==
    ASSUME QueueInv, NEW t, NEW total, NEW idle, NEW todo, NEW ok,
           Arrives(t, total, idle, todo, ok), Sleep(t, total, idle, todo, ok),
           nTodo' = todo, UNCHANGED <<ControlMutex, interrupted, unwound, inDestructor, added>>,
           notified' \in SUBSET Threads
    PROVE  QueueInv'
<1>. USE DEF Sleep
<1>1. t \in Threads /\ ok \in BOOLEAN
  BY Zenon DEF Arrives
<1>2. Outstanding' = Rest(t) /\ HeldOnce' /\ Rest(t) \subseteq Outstanding
  BY <1>1, Handover, ArrivalTypes, Zenon
<1>3. CountersExact' /\ nTotal' \in Nat /\ nIdle' \in Nat
  BY Counting, Zenon DEF IdleInWait
<1>4. TypeOK'
  BY <1>1, <1>3, ArrivalTypes, Zenon DEF TypeOK, QueueInv
<1>5. TodoExact'
  BY <1>2, Zenon DEF TodoExact, Arrives
<1>6. Places'
  BY <1>1, Zenon DEF Places, QueueInv, TypeOK, Arrives, Threads
<1>7. InSession' <=> InSession
  BY <1>1, QueueAssumption, Zenon DEF InSession, Arrives, QueueInv, TypeOK, Threads
<1>8. Evidence'
  <2>1. Outstanding' \subseteq added'
    BY <1>2, Zenon DEF Evidence, QueueInv
  <2>2. InSession' /\ fAllOk' => (added' \ Outstanding') \cap Bad = {}
    BY <1>2, <1>7, Zenon DEF Arrives
  <2>3. ~fAllOk' => added' \cap Bad # {}
    BY Zenon DEF Arrives
  <2>4. \A u \in Threads : pc'[u] = "run" /\ ~fOk'[u] => added' \cap Bad # {}
    BY <1>1, Zenon DEF Evidence, QueueInv, TypeOK
  <2>. QED  BY <2>1, <2>2, <2>3, <2>4, Zenon DEF Evidence
<1>9. WaitExact'
  BY <1>1 DEF WaitExact, QueueInv, TypeOK
<1>10. FinishedBeforeContinuing'
  <2>1. SUFFICES ASSUME ControlMutex = None \/ pc'[ControlMutex] = "returned"
                 PROVE  Outstanding' = {} /\ fAllOk'
    BY Zenon DEF FinishedBeforeContinuing
  <2>2. ~InSession
    BY <1>7, <2>1, Zenon DEF InSession
  <2>3. Outstanding = {} /\ ok
    BY <2>2, Zenon DEF InSession, FinishedBeforeContinuing, QueueInv, Arrives
  <2>. QED  BY <1>2, <2>3, Zenon
<1>. QED  BY <1>2, <1>3, <1>4, <1>5, <1>6, <1>8, <1>9, <1>10, Zenon DEF QueueInv

\* A thread takes a batch from the queue.
LEMMA TakeKeepsInv ==
    ASSUME QueueInv, NEW t, NEW total, NEW idle, NEW todo, NEW ok,
           Arrives(t, total, idle, todo, ok), Take(t, total, idle, ok),
           nTodo' = todo, UNCHANGED <<ControlMutex, interrupted, unwound, inDestructor, added>>,
           notified' \in SUBSET Threads
    PROVE  QueueInv'
<1>1. t \in Threads /\ ok \in BOOLEAN
  BY Zenon DEF Arrives
<1>2. PICK B \in SUBSET queue : /\ Cardinality(B) = BatchSize(total, idle)
                                /\ vChecks' = [vChecks EXCEPT ![t] = B]
                                /\ queue' = queue \ B
  BY Zenon DEF Take
<1>3. B # {} /\ B \in SUBSET Checks
  <2>1. Cardinality(queue) \in Nat /\ B \in SUBSET Checks
    BY FiniteThreads, Zenon DEF QueueInv, TypeOK
  <2>2. Cardinality(B) >= 1
    BY <1>2, <2>1, BatchNotEmpty, ArrivalTypes, Zenon
  <2>. QED  BY <2>1, <2>2, FS_EmptySet
<1>4. Outstanding' = Rest(t) /\ HeldOnce' /\ Rest(t) \subseteq Outstanding
  BY <1>1, <1>2, Handover, ArrivalTypes, Zenon
<1>5. CountersExact' /\ nTotal' \in Nat /\ nIdle' \in Nat
  BY Counting, Zenon DEF Take
<1>6. TypeOK'
  <2>1. queue' \in SUBSET Checks /\ vChecks' \in [Threads -> SUBSET Checks]
    BY <1>1, <1>2, <1>3, Zenon DEF QueueInv, TypeOK
  <2>. QED  BY <1>1, <1>5, <2>1, ArrivalTypes, Zenon DEF TypeOK, QueueInv, Take
<1>7. TodoExact'
  BY <1>4, Zenon DEF TodoExact, Arrives
<1>8. Places'
  BY <1>1, <1>2, <1>3, Zenon DEF Places, QueueInv, TypeOK, Arrives, Take, Threads
<1>9. InSession' <=> InSession
  BY <1>1, QueueAssumption, Zenon DEF InSession, Arrives, QueueInv, TypeOK, Take, Threads
<1>10. Evidence'
  <2>1. Outstanding' \subseteq added'
    BY <1>4, Zenon DEF Evidence, QueueInv
  <2>2. InSession' /\ fAllOk' => (added' \ Outstanding') \cap Bad = {}
    BY <1>4, <1>9, Zenon DEF Arrives, Take
  <2>3. ~fAllOk' => added' \cap Bad # {}
    BY Zenon DEF Arrives, Take
  <2>4. \A u \in Threads : pc'[u] = "run" /\ ~fOk'[u] => added' \cap Bad # {}
    <3>. SUFFICES ASSUME NEW u \in Threads, pc'[u] = "run", ~fOk'[u]
                  PROVE  added \cap Bad # {}
      BY Zenon
    <3>1. CASE u = t
      BY <1>1, <3>1, Zenon DEF Arrives, Take, QueueInv, TypeOK
    <3>2. CASE u # t
      BY <1>1, <3>2, Zenon DEF Evidence, QueueInv, TypeOK, Take
    <3>. QED  BY <3>1, <3>2, Zenon
  <2>. QED  BY <2>1, <2>2, <2>3, <2>4, Zenon DEF Evidence
<1>11. WaitExact'
  BY <1>1 DEF WaitExact, QueueInv, TypeOK, Take
<1>12. FinishedBeforeContinuing'
  <2>1. SUFFICES ASSUME ControlMutex = None \/ pc'[ControlMutex] = "returned"
                 PROVE  FALSE
    BY Zenon DEF FinishedBeforeContinuing
  <2>2. ~InSession
    BY <1>9, <2>1, Zenon DEF InSession
  <2>3. Outstanding = {}
    BY <2>2, Zenon DEF InSession, FinishedBeforeContinuing, QueueInv
  <2>. QED  BY <2>3, Zenon DEF Outstanding, Take
<1>. QED  BY <1>4, <1>5, <1>6, <1>7, <1>8, <1>10, <1>11, <1>12, Zenon DEF QueueInv

\* Whatever a thread does when it arrives at the while loop.
LEMMA LoopKeepsInv ==
    ASSUME QueueInv, NEW t, NEW total, NEW idle, NEW todo, NEW ok,
           Arrives(t, total, idle, todo, ok), TakeOrWait(t, total, idle, todo, ok),
           notified' \in SUBSET Threads
    PROVE  QueueInv'
BY ReturnKeepsInv, SleepKeepsInv, TakeKeepsInv, Zenon DEF TakeOrWait

-----------------------------------------------------------------------------
(* The steps of Loop arrive with truthful values.                          *)

\* A master in Loop holds ControlMutex, and outside a session no thread runs checks.
LEMMA PlaceInLoop ==
    ASSUME QueueInv, NEW t \in Threads, pc[t] \in {"enter", "wait", "run"}
    PROVE  /\ t \in Masters => InSession /\ ControlMutex = t
           /\ ~InSession => fAllOk /\ pc[t] # "run"
<1>1. t \in Masters => InSession /\ ControlMutex = t
  BY QueueAssumption, Zenon DEF QueueInv, Places, InSession, Threads
<1>2. ASSUME ~InSession PROVE fAllOk /\ pc[t] # "run"
  <2>1. Outstanding = {} /\ fAllOk
    BY <1>2, Zenon DEF InSession, QueueInv, FinishedBeforeContinuing
  <2>2. vChecks[t] = {}
    BY <2>1, Zenon DEF Outstanding
  <2>. QED  BY <2>1, <2>2, Zenon DEF QueueInv, Places
<1>. QED  BY <1>1, <1>2, Zenon

\* A thread enters Loop.
LEMMA EnterKeepsInv ==
    ASSUME QueueInv, NEW t \in Threads, Enter(t)
    PROVE  QueueInv'
<1>1. pc[t] = "enter" /\ vChecks[t] = {}
  BY Zenon DEF Enter, QueueInv, Places
<1>2. Rest(t) = Outstanding
  BY <1>1, Zenon DEF Rest, Outstanding
<1>3. nTotal + 1 = Cardinality(InLoop \cup {t}) + Cardinality(unwound)
  <2>1. /\ t \notin InLoop /\ IsFiniteSet(InLoop) /\ Cardinality(InLoop) \in Nat
        /\ Cardinality(unwound) \in Nat
    BY <1>1, FiniteThreads, Zenon DEF InLoop, QueueInv, TypeOK
  <2>2. Cardinality(InLoop \cup {t}) = Cardinality(InLoop) + 1
    BY <2>1, FS_AddElement, Zenon
  <2>. QED  BY <2>1, <2>2 DEF QueueInv, CountersExact
<1>4. nIdle = Cardinality(InWait \ {t}) + Cardinality(unwound)
  <2>1. InWait \ {t} = InWait
    BY <1>1, Zenon DEF InWait
  <2>. QED  BY <2>1, Zenon DEF QueueInv, CountersExact
<1>5. Arrives(t, nTotal + 1, nIdle, nTodo, fAllOk)
  BY <1>1, <1>2, <1>3, <1>4, PlaceInLoop, Zenon DEF Arrives, QueueInv, TypeOK, TodoExact, Evidence
<1>. QED  BY <1>5, LoopKeepsInv, Zenon DEF Enter, QueueInv, TypeOK

\* cond.wait returns, notified or spuriously.
LEMMA AwakeKeepsInv ==
    ASSUME QueueInv, NEW t \in Threads, Awake(t)
    PROVE  QueueInv'
<1>1. pc[t] = "wait" /\ vChecks[t] = {}
  BY Zenon DEF Awake, QueueInv, Places
<1>2. Rest(t) = Outstanding
  BY <1>1, Zenon DEF Rest, Outstanding
<1>3. nTotal = Cardinality(InLoop \cup {t}) + Cardinality(unwound)
  <2>1. InLoop \cup {t} = InLoop
    BY <1>1, Zenon DEF InLoop
  <2>. QED  BY <2>1, Zenon DEF QueueInv, CountersExact
<1>4. nIdle - 1 = Cardinality(InWait \ {t}) + Cardinality(unwound)
  <2>1. /\ t \in InWait /\ IsFiniteSet(InWait) /\ Cardinality(InWait) \in Nat
        /\ Cardinality(unwound) \in Nat
    BY <1>1, FiniteThreads, Zenon DEF InWait, QueueInv, TypeOK
  <2>2. Cardinality(InWait \ {t}) = Cardinality(InWait) - 1
    BY <2>1, FS_RemoveElement, Zenon
  <2>. QED  BY <2>1, <2>2 DEF QueueInv, CountersExact
<1>5. Arrives(t, nTotal, nIdle - 1, nTodo, fAllOk)
  BY <1>1, <1>2, <1>3, <1>4, PlaceInLoop, Zenon DEF Arrives, QueueInv, TypeOK, TodoExact, Evidence
<1>. QED  BY <1>5, LoopKeepsInv, Zenon DEF Awake, QueueInv, TypeOK

\* A thread reports the result of its batch.
LEMMA FinishBatchKeepsInv ==
    ASSUME QueueInv, NEW t \in Threads, FinishBatch(t)
    PROVE  QueueInv'
<1>. DEFINE todo == nTodo - Cardinality(vChecks[t])
            ok == RunResult(t)
<1>1. pc[t] = "run" /\ InSession
  BY PlaceInLoop, Zenon DEF FinishBatch
<1>2. /\ Outstanding = Rest(t) \cup vChecks[t] /\ Rest(t) \cap vChecks[t] = {}
      /\ Rest(t) \in SUBSET Checks /\ vChecks[t] \in SUBSET Checks
  BY DEF QueueInv, TypeOK, HeldOnce, Rest, Outstanding
<1>3. todo = Cardinality(Rest(t))
  <2>1. IsFiniteSet(Rest(t)) /\ IsFiniteSet(vChecks[t]) /\ Cardinality(Rest(t)) \in Nat
        /\ Cardinality(vChecks[t]) \in Nat
    BY <1>2, FiniteThreads, Zenon
  <2>2. Cardinality(Outstanding) = Cardinality(Rest(t)) + Cardinality(vChecks[t])
    <3>1. Cardinality(Rest(t) \cap vChecks[t]) = 0
      BY <1>2, FS_EmptySet, Zenon
    <3>2. Cardinality(Rest(t) \cup vChecks[t]) =
            Cardinality(Rest(t)) + Cardinality(vChecks[t])
              - Cardinality(Rest(t) \cap vChecks[t])
      BY <2>1, FS_Union, Zenon
    <3>. QED  BY <1>2, <2>1, <3>1, <3>2
  <2>. QED  BY <2>1, <2>2 DEF QueueInv, TodoExact
<1>4. /\ nTotal = Cardinality(InLoop \cup {t}) + Cardinality(unwound)
      /\ nIdle = Cardinality(InWait \ {t}) + Cardinality(unwound)
  <2>1. InLoop \cup {t} = InLoop /\ InWait \ {t} = InWait
    BY <1>1, Zenon DEF InLoop, InWait
  <2>. QED  BY <2>1, Zenon DEF QueueInv, CountersExact
<1>5. ok \in BOOLEAN
  BY Zenon DEF RunResult
<1>6. ok => (added \ Rest(t)) \cap Bad = {}
  BY <1>1, <1>2, Zenon DEF RunResult, QueueInv, Evidence
<1>7. ~ok => added \cap Bad # {}
  BY <1>1, <1>2, Zenon DEF RunResult, QueueInv, Evidence
<1>8. Arrives(t, nTotal, nIdle, todo, ok)
  <2>. HIDE DEF todo, ok
  <2>. QED  BY <1>1, <1>3, <1>4, <1>5, <1>6, <1>7, PlaceInLoop, Zenon DEF Arrives
<1>9. TakeOrWait(t, nTotal, nIdle, todo, ok)
  BY Zenon DEF FinishBatch
<1>10. notified' \in SUBSET Threads
  BY Zenon DEF FinishBatch, NotifyMaster, QueueInv, TypeOK, Threads
<1>. HIDE DEF todo, ok
<1>. QED  BY <1>8, <1>9, <1>10, LoopKeepsInv, Zenon

-----------------------------------------------------------------------------
(* The master's steps and interrupts.                                      *)

\* The master adds checks to the queue.
LEMMA AddKeepsInv ==
    ASSUME QueueInv, NEW m \in Masters, NEW S \in SUBSET (Checks \ added), Add(m, S)
    PROVE  QueueInv'
<1>. USE DEF Add
<1>1. ControlMutex = m /\ InSession
  BY QueueAssumption, Zenon DEF QueueInv, Places, InSession
<1>2. Outstanding' = Outstanding \cup S /\ Outstanding \cap S = {}
  BY DEF Outstanding, QueueInv, Evidence
<1>3. Outstanding \in SUBSET Checks /\ S \in SUBSET Checks
  BY DEF QueueInv, TypeOK, Outstanding
<1>4. TodoExact' /\ nTodo' \in Nat
  <2>1. /\ IsFiniteSet(Outstanding) /\ Cardinality(Outstanding) \in Nat
        /\ IsFiniteSet(S) /\ Cardinality(S) \in Nat
    BY <1>3, FiniteThreads, Zenon
  <2>2. Cardinality(Outstanding \cap S) = 0
    BY <1>2, FS_EmptySet, Zenon
  <2>3. Cardinality(Outstanding \cup S) =
          Cardinality(Outstanding) + Cardinality(S) - Cardinality(Outstanding \cap S)
    BY <2>1, FS_Union, Zenon
  <2>4. nTodo' = Cardinality(Outstanding')
    BY <1>2, <2>1, <2>2, <2>3 DEF QueueInv, TodoExact, TodoAfterAdd
  <2>. QED  BY <1>2, <2>1, <2>2, <2>3, <2>4 DEF TodoExact
<1>5. TypeOK'
  <2>1. notified' \in SUBSET Threads
    BY DEF NotifiedByAdd, WaitingWorkers, QueueInv, TypeOK, Threads
  <2>. QED  BY <1>4, <2>1, Zenon DEF QueueInv, TypeOK
<1>6. CountersExact' /\ Places'
  BY Zenon DEF QueueInv, CountersExact, InWait, InLoop, Places
<1>7. HeldOnce'
  <2>1. \A t \in Threads : vChecks[t] \cap S = {}
    BY <1>2 DEF Outstanding
  <2>. QED  BY <2>1, Zenon DEF QueueInv, HeldOnce
<1>8. Evidence'
  <2>1. added' \ Outstanding' = added \ Outstanding
    BY <1>2, Zenon
  <2>2. InSession' <=> InSession
    BY Zenon DEF InSession
  <2>3. Outstanding' \subseteq added'
    BY <1>2, Zenon DEF QueueInv, Evidence
  <2>. QED  BY <2>1, <2>2, <2>3, Zenon DEF QueueInv, Evidence
<1>9. WaitExact' /\ FinishedBeforeContinuing'
  <2>1. \A u \in Masters : pc[u] # "returned"
    BY <1>1, Zenon DEF QueueInv, Places
  <2>. QED  BY <1>1, <2>1, Zenon DEF WaitExact, FinishedBeforeContinuing, InSession
<1>. QED  BY <1>4, <1>5, <1>6, <1>7, <1>8, <1>9, Zenon DEF QueueInv

\* A CCheckQueueControl is constructed.
LEMMA ControlKeepsInv ==
    ASSUME QueueInv, NEW m \in Masters, Control(m)
    PROVE  QueueInv'
<1>. USE DEF Control
<1>1. m \in Threads /\ m # None /\ m \notin Workers
  BY QueueAssumption, Zenon DEF Threads
<1>2. Outstanding' = {} /\ Outstanding = {} /\ fAllOk
  BY Zenon DEF QueueInv, FinishedBeforeContinuing, Outstanding
<1>3. TypeOK'
  BY <1>1, Zenon DEF QueueInv, TypeOK
<1>4. InWait' = InWait /\ InLoop' = InLoop
  BY <1>1, Zenon DEF InWait, InLoop, QueueInv, TypeOK
<1>5. CountersExact' /\ TodoExact'
  BY <1>2, <1>4, Zenon DEF QueueInv, CountersExact, TodoExact
<1>6. Places'
  BY <1>1, QueueAssumption, Zenon DEF QueueInv, Places, TypeOK, Threads
<1>7. HeldOnce'
  BY Zenon DEF QueueInv, HeldOnce
<1>8. Evidence'
  <2>1. \A t \in Threads : pc'[t] # "run"
    BY <1>2, <1>6 DEF Places, Outstanding
  <2>. QED  BY <1>2, <2>1, Zenon DEF Evidence
<1>9. WaitExact' /\ FinishedBeforeContinuing'
  <2>1. \A u \in Masters : pc'[u] # "returned"
    BY <1>6, <1>1 DEF Places, QueueInv, TypeOK
  <2>. QED  BY <1>2, <2>1, Zenon DEF WaitExact, FinishedBeforeContinuing
<1>. QED  BY <1>3, <1>5, <1>6, <1>7, <1>8, <1>9, Zenon DEF QueueInv

\* The master calls Wait.
LEMMA WaitKeepsInv ==
    ASSUME QueueInv, NEW m \in Masters, Wait(m)
    PROVE  QueueInv'
<1>. USE DEF Wait
<1>1. m \in Threads /\ m # None /\ m \notin Workers /\ ControlMutex = m
  BY QueueAssumption, Zenon DEF Threads, QueueInv, Places
<1>2. Outstanding' = Outstanding /\ InWait' = InWait /\ InLoop' = InLoop
  BY <1>1 DEF Outstanding, InWait, InLoop, QueueInv, TypeOK
<1>3. TypeOK' /\ CountersExact' /\ TodoExact' /\ HeldOnce'
  BY <1>1, <1>2, Zenon DEF QueueInv, TypeOK, CountersExact, TodoExact, HeldOnce
<1>4. Places'
  BY <1>1 DEF QueueInv, Places, TypeOK
<1>5. InSession /\ InSession'
  BY <1>1, Zenon DEF InSession, QueueInv, TypeOK
<1>6. Evidence'
  BY <1>1, <1>2, <1>5, Zenon DEF QueueInv, Evidence, TypeOK
<1>7. WaitExact' /\ FinishedBeforeContinuing'
  BY <1>1, <1>5 DEF QueueInv, WaitExact, FinishedBeforeContinuing, TypeOK, InSession
<1>. QED  BY <1>3, <1>4, <1>6, <1>7, Zenon DEF QueueInv

\* The control's destructor releases ControlMutex.
LEMMA LeaveKeepsInv ==
    ASSUME QueueInv, NEW m \in Masters, Leave(m)
    PROVE  QueueInv'
<1>. USE DEF Leave
<1>1. m \in Threads /\ m # None /\ m \notin Workers /\ ControlMutex = m
  BY QueueAssumption, Zenon DEF Threads, QueueInv, Places
<1>2. Outstanding' = Outstanding /\ InWait' = InWait /\ InLoop' = InLoop
  BY <1>1, Zenon DEF Outstanding, InWait, InLoop, QueueInv, TypeOK
<1>3. TypeOK' /\ CountersExact' /\ TodoExact' /\ HeldOnce'
  BY <1>1, <1>2, Zenon DEF QueueInv, TypeOK, CountersExact, TodoExact, HeldOnce
<1>4. Outstanding = {} /\ fAllOk
  BY <1>1, Zenon DEF QueueInv, FinishedBeforeContinuing
<1>5. Places'
  BY <1>1, QueueAssumption DEF QueueInv, Places, TypeOK
<1>6. Evidence'
  BY <1>1, <1>2, <1>4, Zenon DEF QueueInv, Evidence, InSession, TypeOK
<1>7. WaitExact' /\ FinishedBeforeContinuing'
  BY <1>1, <1>2, <1>4 DEF QueueInv, WaitExact, FinishedBeforeContinuing, TypeOK
<1>. QED  BY <1>3, <1>5, <1>6, <1>7, Zenon DEF QueueInv

\* thread_interrupted throws a thread out of cond.wait.
LEMMA InterruptedKeepsInv ==
    ASSUME QueueInv, NEW t \in Threads, Interrupted(t)
    PROVE  QueueInv'
<1>. USE DEF Interrupted
<1>1. /\ pc[t] = "wait" /\ t \in Threads \ unwound
      /\ pc'[t] = IF t \in Workers THEN "gone" ELSE "enter"
      /\ \A u \in Threads \ {t} : pc'[u] = pc[u]
  BY Zenon DEF QueueInv, TypeOK
<1>2. Outstanding' = Outstanding /\ InWait' = InWait \ {t} /\ InLoop' = InLoop \ {t}
  BY <1>1 DEF Outstanding, InWait, InLoop
<1>3. CountersExact'
  <2>1. /\ IsFiniteSet(InWait) /\ IsFiniteSet(InLoop) /\ IsFiniteSet(unwound)
        /\ Cardinality(InWait) \in Nat /\ Cardinality(InLoop) \in Nat
        /\ Cardinality(unwound) \in Nat /\ t \in InWait /\ t \in InLoop
    BY <1>1, FiniteThreads, Zenon DEF InWait, InLoop, QueueInv, TypeOK
  <2>2. Cardinality(InWait') = Cardinality(InWait) - 1
    BY <1>2, <2>1, FS_RemoveElement, Zenon
  <2>3. Cardinality(InLoop') = Cardinality(InLoop) - 1
    BY <1>2, <2>1, FS_RemoveElement, Zenon
  <2>4. Cardinality(unwound') = Cardinality(unwound) + 1
    BY <1>1, <2>1, FS_AddElement, Zenon
  <2>. QED  BY <2>1, <2>2, <2>3, <2>4 DEF QueueInv, CountersExact
<1>4. TypeOK' /\ TodoExact' /\ HeldOnce'
  BY <1>1, <1>2, Zenon DEF QueueInv, TypeOK, TodoExact, HeldOnce
<1>5. Places'
  <2>1. \A w \in Workers : pc'[w] \in {"enter", "wait", "run", "gone"}
    BY <1>1, Zenon DEF QueueInv, Places, Threads
  <2>2. \A m \in Masters : pc'[m] \notin {"outside", "gone"} <=> ControlMutex' = m
    BY <1>1, QueueAssumption DEF QueueInv, Places, Threads
  <2>3. \A u \in Threads : pc'[u] = "run" <=> vChecks'[u] # {}
    BY <1>1 DEF QueueInv, Places
  <2>. QED  BY <2>1, <2>2, <2>3, Zenon DEF Places
<1>6. InSession' <=> InSession
  BY <1>1, QueueAssumption, Zenon DEF InSession, QueueInv, TypeOK, Threads
<1>7. Evidence'
  BY <1>1, <1>2, <1>6 DEF QueueInv, Evidence
<1>8. WaitExact'
  <2>1. WaitExact
    BY Zenon DEF QueueInv
  <2>2. UNCHANGED <<added, fRet>>
    BY Zenon
  <2>3. \A m \in Masters : pc'[m] = "returned" => pc[m] = "returned"
    BY <1>1 DEF Threads
  <2>. QED  BY <2>1, <2>2, <2>3, Zenon DEF WaitExact
<1>9. FinishedBeforeContinuing'
  BY <1>2, <1>6, Zenon DEF QueueInv, FinishedBeforeContinuing, InSession
<1>. QED  BY <1>3, <1>4, <1>5, <1>7, <1>8, <1>9, Zenon DEF QueueInv

\* Steps that leave the variables of the invariant alone.
LEMMA UnchangedKeepsInv ==
    ASSUME QueueInv, InterruptAll \/ UNCHANGED vars
    PROVE  QueueInv'
<1>. interrupted' \in BOOLEAN
  BY Zenon DEF InterruptAll, vars, QueueInv, TypeOK
<1>. UNCHANGED <<queue, nIdle, nTotal, fAllOk, nTodo, ControlMutex, pc, vChecks, fOk,
                 notified, unwound, inDestructor, added, fRet>>
  BY Zenon DEF InterruptAll, vars
<1>1. Outstanding' = Outstanding /\ InWait' = InWait /\ InLoop' = InLoop
      /\ (InSession' <=> InSession)
  BY Zenon DEF Outstanding, InWait, InLoop, InSession
<1>2. TypeOK' /\ CountersExact' /\ TodoExact' /\ Places' /\ HeldOnce'
  BY <1>1, Zenon DEF QueueInv, TypeOK, CountersExact, TodoExact, Places, HeldOnce
<1>3. Evidence' /\ WaitExact' /\ FinishedBeforeContinuing'
  BY <1>1, Zenon DEF QueueInv, Evidence, WaitExact, FinishedBeforeContinuing
<1>. QED  BY <1>2, <1>3, Zenon DEF QueueInv

\* Every step of the queue keeps the invariant.
LEMMA NextKeepsInv == QueueInv /\ [Next]_vars => QueueInv'
<1>. SUFFICES ASSUME QueueInv, [Next]_vars PROVE QueueInv'  BY Zenon
<1>1. ASSUME NEW m \in Masters, MasterStep(m) PROVE QueueInv'
  BY <1>1, ControlKeepsInv, WaitKeepsInv, LeaveKeepsInv, AddKeepsInv, Zenon DEF MasterStep
<1>2. ASSUME NEW t \in Threads, LoopStep(t) \/ WakeSpuriously(t) \/ Interrupted(t)
      PROVE  QueueInv'
  BY <1>2, EnterKeepsInv, FinishBatchKeepsInv, AwakeKeepsInv, InterruptedKeepsInv
    , Zenon DEF LoopStep, WakeNotified, WakeSpuriously
<1>3. CASE InterruptAll \/ UNCHANGED vars
  BY <1>3, UnchangedKeepsInv, Zenon
<1>. QED  BY <1>1, <1>2, <1>3, Zenon DEF Next

-----------------------------------------------------------------------------
(* The results.                                                            *)

\* The invariant holds in every state the queue reaches.
LEMMA QueueInvAlways == Spec => []QueueInv
BY InitQueueInv, NextKeepsInv, PTL DEF Spec

\* For any number of threads and checks the unsigned counters of CCheckQueue
\* never wrap, and nIdle and nTotal count what their comments say.
THEOREM CountersNeverWrap == Spec => [](TypeOK /\ CountersExact)
<1>1. QueueInv => TypeOK /\ CountersExact
  BY Zenon DEF QueueInv
<1>. QED  BY <1>1, QueueInvAlways, PTL

\* nTodo is the number of checks whose result is not yet part of fAllOk, in
\* the queue or in some thread's batch.
THEOREM TodoAlwaysExact == Spec => []TodoExact
<1>1. QueueInv => TodoExact
  BY Zenon DEF QueueInv
<1>. QED  BY <1>1, QueueInvAlways, PTL

\* CCheckQueue::Wait returns true exactly when every check added under this
\* control succeeded, whatever the other threads do.
THEOREM WaitAlwaysExact == Spec => []WaitExact
<1>1. QueueInv => WaitExact
  BY Zenon DEF QueueInv
<1>. QED  BY <1>1, QueueInvAlways, PTL

\* When Wait has returned no thread holds a check, and the next control finds
\* a clean queue.
THEOREM AlwaysFinishedBeforeContinuing == Spec => []FinishedBeforeContinuing
<1>1. QueueInv => FinishedBeforeContinuing
  BY Zenon DEF QueueInv
<1>. QED  BY <1>1, QueueInvAlways, PTL

=============================================================================
