------------------- MODULE NxExecutionContextTask_proofs -------------------
(***************************************************************************)
(* Proofs about NxExecutionContextTask, for any number of driver threads.  *)
(***************************************************************************)
EXTENDS NxExecutionContextTask, TLAPS

\* TypeOK, with counts that a Release might take below zero.
Typing ==
  /\ taskQueued \in BOOLEAN /\ taskCompleted \in BOOLEAN /\ linked \in BOOLEAN
  /\ refs \in [Tags -> Int]
  /\ worker \in {"idle", "handler", "callback", "completing", "release"}
  /\ at \in [Threads -> {"none", "verified", "queue", "waiting", "waited",
                        "deleting"}]
  /\ deletion \in {"none", "deferred", "waiting", "released", "done"}

Enqueuing(a) == at[a] \in {"verified", "queue"}

\* At most one Enqueue is under way, and m_taskQueued covers a run from there to
\* its callback: so QueueTask never meets a task that is linked already, which
\* would lose a reference.
QueueInv ==
  /\ \A a, b \in Threads : Enqueuing(a) /\ Enqueuing(b) => a = b
  /\ \A a \in Threads : at[a] = "verified" => ~taskQueued
  /\ \A a \in Threads :
       at[a] = "queue" => taskQueued /\ ~linked /\ worker # "handler"
  /\ linked => taskQueued /\ worker # "handler"
  /\ worker = "handler" => taskQueued

Inv == Typing /\ QueueInv /\ ReferencesMatch

LEMMA InitInv == TaskInit => Inv
  <1> SUFFICES ASSUME TaskInit PROVE Inv
    OBVIOUS
  <1>1. Typing /\ QueueInv /\ ~Queueing
    <2>1. refs \in [Tags -> Int]
      BY DEF TaskInit
    <2>2. Typing
      BY <2>1 DEF TaskInit, Typing
    <2>3. \A a \in Threads : at[a] = "none"
      BY DEF TaskInit
    <2> QED BY <2>2, <2>3 DEF TaskInit, QueueInv, Enqueuing, Queueing
  <1>2. /\ refs[Run] = 0 /\ refs["creation"] = 1 /\ refs["this"] = 1
        /\ \A a \in Callers : refs[a] = 0
    BY CallersAssumption DEF TaskInit, Run, Tags
  <1>3. \A a \in Callers : at[a] = "none"
    BY DEF TaskInit, Threads
  <1>4. refs[Run] = One(Queueing) + One(linked) + One(worker # "idle")
    <2>1. One(Queueing) = 0 /\ One(linked) = 0 /\ One(worker # "idle") = 0
      BY <1>1 DEF TaskInit, One
    <2> QED BY <1>2, <2>1
  <1> QED BY <1>1, <1>2, <1>3, <1>4 DEF TaskInit, Inv, ReferencesMatch, One

\* A change of one tag's count leaves the others.
LEMMA RefsStep ==
  ASSUME Typing, NEW t \in Tags
  PROVE  /\ Acquire(t) => /\ refs' \in [Tags -> Int] /\ refs'[t] = refs[t] + 1
                          /\ \A u \in Tags \ {t} : refs'[u] = refs[u]
         /\ Release(t) => /\ refs' \in [Tags -> Int] /\ refs'[t] = refs[t] - 1
                          /\ \A u \in Tags \ {t} : refs'[u] = refs[u]
  BY DEF Typing, Acquire, Release

LEMMA TagFacts ==
  /\ Run \in Tags /\ "creation" \in Tags /\ "this" \in Tags /\ Callers \subseteq Tags
  /\ Run \notin Callers /\ "creation" \notin Callers /\ "this" \notin Callers
  /\ Run # "creation" /\ Run # "this" /\ Worker \notin Callers
  BY CallersAssumption DEF Tags, Run

LEMMA EnqueueInv ==
  ASSUME NEW a \in Threads, Inv, EnqueueStep(a)
  PROVE  Inv'
  <1>1. CASE VerifyNotQueued(a)
    <2>1. Typing'
      BY <1>1 DEF Inv, Typing, VerifyNotQueued
    <2>2. QueueInv'
      BY <1>1 DEF Inv, Typing, QueueInv, VerifyNotQueued, Enqueuing, MayCall
    <2>3. Queueing' = Queueing
      BY <1>1 DEF Inv, Typing, VerifyNotQueued, Queueing, MayCall
    <2>4. \A c \in Callers : (at'[c] \in {"waiting", "waited"})
                             = (at[c] \in {"waiting", "waited"})
      BY <1>1 DEF Inv, Typing, VerifyNotQueued, MayCall, Threads
    <2> QED BY <1>1, <2>1, <2>2, <2>3, <2>4
        DEF Inv, VerifyNotQueued, ReferencesMatch, One
  <1>2. CASE EnqueueLocked(a)
    <2>1. Typing'
      BY <1>2, RefsStep, TagFacts DEF Inv, Typing, EnqueueLocked
    <2>2. QueueInv'
      BY <1>2 DEF Inv, Typing, QueueInv, EnqueueLocked, Enqueuing
    <2>3. Queueing' /\ ~Queueing
      BY <1>2 DEF Inv, Typing, QueueInv, EnqueueLocked, Queueing, Enqueuing
    <2>4. \A c \in Callers : (at'[c] \in {"waiting", "waited"})
                             = (at[c] \in {"waiting", "waited"})
      BY <1>2 DEF Inv, Typing, EnqueueLocked, Threads
    <2> QED BY <1>2, <2>1, <2>2, <2>3, <2>4, RefsStep, TagFacts
        DEF Inv, EnqueueLocked, ReferencesMatch, One
  <1>3. CASE Link(a)
    <2>1. Typing'
      BY <1>3 DEF Inv, Typing, Link
    <2>2. QueueInv'
      BY <1>3 DEF Inv, Typing, QueueInv, Link, Enqueuing
    <2>3. Queueing /\ ~Queueing' /\ ~linked /\ linked'
      BY <1>3 DEF Inv, Typing, QueueInv, Link, Queueing, Enqueuing
    <2>4. \A c \in Callers : (at'[c] \in {"waiting", "waited"})
                             = (at[c] \in {"waiting", "waited"})
      BY <1>3 DEF Inv, Typing, Link, Threads
    <2> QED BY <1>3, <2>1, <2>2, <2>3, <2>4 DEF Inv, Link, ReferencesMatch, One
  <1> QED BY <1>1, <1>2, <1>3 DEF EnqueueStep

LEMMA WorkerInv == Inv /\ TaskWorkerStep => Inv'
  <1> SUFFICES ASSUME Inv, TaskWorkerStep PROVE Inv'
    OBVIOUS
  <1>1. CASE Unlink
    <2>1. QueueInv'
      BY <1>1 DEF Inv, Typing, QueueInv, Unlink, Enqueuing
    <2>2. Typing' /\ Queueing' = Queueing
      BY <1>1 DEF Inv, Typing, Unlink, Queueing
    <2> QED BY <1>1, <2>1, <2>2 DEF Inv, Unlink, ReferencesMatch, One
  <1>2. CASE StartCallback \/ EndCallback
    <2>1. QueueInv'
      BY <1>2 DEF Inv, Typing, QueueInv, StartCallback, EndCallback, Enqueuing
    <2>2. Typing' /\ Queueing' = Queueing
      BY <1>2 DEF Inv, Typing, StartCallback, EndCallback, Queueing
    <2> QED BY <1>2, <2>1, <2>2
        DEF Inv, StartCallback, EndCallback, ReferencesMatch, One
  <1>3. CASE CompleteTask
    <2>1. Typing'
      BY <1>3 DEF Inv, Typing, CompleteTask
    <2>2. \A a \in Threads : /\ (at'[a] = "queue") = (at[a] = "queue")
                             /\ (at'[a] = "verified") = (at[a] = "verified")
                             /\ (at'[a] \in {"waiting", "waited"})
                                = (at[a] \in {"waiting", "waited"})
      BY <1>3 DEF CompleteTask
    <2>3. QueueInv'
      BY <1>3, <2>2 DEF Inv, QueueInv, CompleteTask, Enqueuing
    <2>4. Queueing' = Queueing
      BY <2>2 DEF Queueing
    <2> QED BY <1>3, <2>1, <2>2, <2>3, <2>4
        DEF Inv, CompleteTask, ReferencesMatch, One, Threads
  <1>4. CASE ReleaseRun
    <2>1. Typing'
      BY <1>4, RefsStep, TagFacts DEF Inv, Typing, ReleaseRun
    <2>2. QueueInv'
      BY <1>4 DEF Inv, Typing, QueueInv, ReleaseRun, Enqueuing
    <2>3. Queueing' = Queueing
      BY <1>4 DEF ReleaseRun, Queueing
    <2> QED BY <1>4, <2>1, <2>2, <2>3, RefsStep, TagFacts
        DEF Inv, ReleaseRun, ReferencesMatch, One
  <1> QED BY <1>1, <1>2, <1>3, <1>4 DEF TaskWorkerStep

LEMMA WaitInv ==
  ASSUME NEW a \in Callers, Inv, StartWait(a) \/ EndWait(a)
  PROVE  Inv'
  <1>1. Typing'
    BY RefsStep, TagFacts DEF Inv, Typing, StartWait, EndWait, Threads
  <1>2. QueueInv'
    BY DEF Inv, Typing, QueueInv, StartWait, EndWait, Enqueuing, Threads
  <1>3. Queueing' = Queueing
    BY DEF Inv, Typing, StartWait, EndWait, Queueing, Threads
  <1>4. \A c \in Callers \ {a} : at'[c] = at[c]
    BY DEF Inv, Typing, StartWait, EndWait, Threads
  <1>5. CASE StartWait(a)
    <2>1. at'[a] \in {"waiting", "waited"} /\ at[a] = "none"
      BY <1>5 DEF Inv, Typing, StartWait, Threads
    <2> QED BY <1>1, <1>2, <1>3, <1>4, <1>5, <2>1, RefsStep, TagFacts
        DEF Inv, StartWait, ReferencesMatch, One
  <1>6. CASE EndWait(a)
    <2>1. at'[a] = "none" /\ at[a] = "waited"
      BY <1>6 DEF Inv, Typing, EndWait, Threads
    <2> QED BY <1>1, <1>2, <1>3, <1>4, <1>6, <2>1, RefsStep, TagFacts
        DEF Inv, EndWait, ReferencesMatch, One
  <1> QED BY <1>5, <1>6

LEMMA DeleteInv ==
  ASSUME Inv, (\E a \in Threads : DeleteStep(a)) \/ DeferredDelete
  PROVE  Inv'
  <1>1. Typing'
    BY RefsStep, TagFacts DEF Inv, Typing, DeleteStep, Delete, ReleaseConstructorRef,
      EndDelete, DeferredDelete
  <1>2. \A a \in Threads : /\ (at'[a] = "queue") = (at[a] = "queue")
                           /\ (at'[a] = "verified") = (at[a] = "verified")
                           /\ (at'[a] \in {"waiting", "waited"})
                              = (at[a] \in {"waiting", "waited"})
    BY DEF Inv, Typing, DeleteStep, Delete, ReleaseConstructorRef, EndDelete,
      DeferredDelete, MayCall
  <1>3. UNCHANGED <<taskQueued, taskCompleted, linked, worker>>
    BY DEF DeleteStep, Delete, ReleaseConstructorRef, EndDelete, DeferredDelete
  <1>4. QueueInv'
    BY <1>2, <1>3 DEF Inv, QueueInv, Enqueuing
  <1>5. Queueing' = Queueing
    BY <1>2 DEF Queueing
  <1>6. ReferencesMatch'
    <2>1. /\ refs'[Run] = refs[Run]
          /\ \A c \in Callers : refs'[c] = refs[c]
      BY RefsStep, TagFacts DEF Inv, DeleteStep, Delete, ReleaseConstructorRef,
        EndDelete, DeferredDelete
    <2>2. /\ refs'["creation"] = One(deletion' \in {"none", "waiting", "released"})
          /\ refs'["this"] = One(deletion' \in {"none", "waiting", "deferred"})
      BY RefsStep, TagFacts DEF Inv, ReferencesMatch, One, DeleteStep, Delete,
        ReleaseConstructorRef, EndDelete, DeferredDelete
    <2> QED BY <1>2, <1>3, <1>5, <2>1, <2>2
        DEF Inv, ReferencesMatch, One, Threads
  <1> QED BY <1>1, <1>4, <1>6 DEF Inv

LEMMA NextInv == Inv /\ [TaskNext]_taskVars => Inv'
  <1> SUFFICES ASSUME Inv, [TaskNext]_taskVars PROVE Inv'
    OBVIOUS
  <1>1. CASE UNCHANGED taskVars
    BY <1>1 DEF taskVars, Inv, Typing, QueueInv, ReferencesMatch, Enqueuing, Queueing
  <1>2. CASE TaskNext
    BY <1>1, <1>2, EnqueueInv, WorkerInv, WaitInv, DeleteInv DEF TaskNext, TaskGone
  <1> QED BY <1>1, <1>2

-----------------------------------------------------------------------------
LEMMA NatType == Inv => TaskTypeOK
  <1> SUFFICES ASSUME Inv PROVE TaskTypeOK
    OBVIOUS
  <1>1. \A b : One(b) \in Nat
    BY DEF One
  <1>2. \A t \in Tags : refs[t] \in Nat
    <2>1. refs[Run] \in Nat
      <3>1. /\ One(Queueing) \in Nat /\ One(linked) \in Nat
            /\ One(worker # "idle") \in Nat
        BY <1>1
      <3> QED BY <3>1 DEF Inv, ReferencesMatch
    <2>2. \A t \in {"creation", "this"} \cup Callers : refs[t] \in Nat
      BY <1>1 DEF Inv, ReferencesMatch
    <2> QED BY <2>1, <2>2 DEF Tags, Run
  <1> QED BY <1>2 DEF Inv, Typing, TaskTypeOK

\* The reference counts never go below zero.
THEOREM TypeCorrect == TaskSpec => []TaskTypeOK
  BY InitInv, NextInv, NatType, PTL DEF TaskSpec

\* Every reference has one holder and every holder one reference, even when the
\* driver enqueues the task again before it has finished.
THEOREM ReferencesAlwaysMatch == TaskSpec => []ReferencesMatch
  <1>1. Inv => ReferencesMatch
    BY DEF Inv
  <1> QED BY <1>1, InitInv, NextInv, PTL DEF TaskSpec
-----------------------------------------------------------------------------
(***************************************************************************)
(* A driver that enqueues its task only when it has finished.              *)
(***************************************************************************)
\* What is enqueued was finished, nothing is finished before its callback has
\* returned, and no Enqueue and no unfinished run is left behind a deletion.
FinishedInv ==
  /\ \A a \in Threads : at[a] = "verified" => taskCompleted
  /\ taskQueued => ~taskCompleted
  /\ worker \in {"callback", "completing"} => ~taskQueued /\ ~taskCompleted
  /\ deletion # "none" => \A a \in Threads : ~Enqueuing(a)
  /\ deletion \in {"released", "done"} => taskCompleted

LEMMA FinishedStep ==
  ASSUME RequeueUnfinished = FALSE, Inv, FinishedInv, TaskNext
  PROVE  FinishedInv'
  <1>1. ASSUME NEW a \in Threads, EnqueueStep(a)
        PROVE  FinishedInv'
    <2>1. CASE VerifyNotQueued(a)
      BY <2>1 DEF Inv, Typing, QueueInv, FinishedInv, VerifyNotQueued, Enqueuing
    <2>2. CASE EnqueueLocked(a)
      BY <2>2 DEF Inv, Typing, QueueInv, FinishedInv, EnqueueLocked, Enqueuing
    <2>3. CASE Link(a)
      BY <2>3 DEF Inv, Typing, QueueInv, FinishedInv, Link, Enqueuing
    <2> QED BY <1>1, <2>1, <2>2, <2>3 DEF EnqueueStep
  <1>2. ASSUME NEW a \in Threads, DeleteStep(a)
        PROVE  FinishedInv'
    BY <1>2 DEF Inv, Typing, QueueInv, FinishedInv, DeleteStep, Delete,
      ReleaseConstructorRef, EndDelete, Enqueuing
  <1>3. ASSUME NEW a \in Callers, StartWait(a) \/ EndWait(a)
        PROVE  FinishedInv'
    BY <1>3 DEF Inv, Typing, FinishedInv, StartWait, EndWait, Enqueuing, Threads
  <1>4. CASE TaskWorkerStep
    <2>1. CASE CompleteTask
      BY <2>1 DEF Inv, Typing, QueueInv, FinishedInv, CompleteTask, Enqueuing
    <2>2. CASE Unlink \/ StartCallback \/ EndCallback \/ ReleaseRun
      BY <2>2 DEF Inv, Typing, QueueInv, FinishedInv, Unlink, StartCallback,
        EndCallback, ReleaseRun, Enqueuing
    <2> QED BY <1>4, <2>1, <2>2 DEF TaskWorkerStep
  <1>5. CASE DeferredDelete \/ TaskGone
    BY <1>5 DEF FinishedInv, DeferredDelete, TaskGone, taskVars, Enqueuing
  <1> QED BY <1>1, <1>2, <1>3, <1>4, <1>5 DEF TaskNext

LEMMA FinishedAlways ==
  ASSUME RequeueUnfinished = FALSE
  PROVE  TaskSpec => [](Inv /\ FinishedInv)
  <1>1. TaskInit => FinishedInv
    BY DEF TaskInit, FinishedInv, Enqueuing
  <1>2. Inv /\ FinishedInv /\ [TaskNext]_taskVars => FinishedInv'
    <2>1. CASE TaskNext
      BY <2>1, FinishedStep
    <2>2. ASSUME FinishedInv, UNCHANGED taskVars PROVE FinishedInv'
      BY <2>2 DEF FinishedInv, taskVars, Enqueuing
    <2> QED BY <2>1, <2>2
  <1> QED BY <1>1, <1>2, InitInv, NextInv, PTL DEF TaskSpec

\* The event that waiters wait for is set only when no run of the task is left,
\* if the driver enqueues the task only when it has finished.
THEOREM CompletedMeansFinishedAlways ==
  ASSUME RequeueUnfinished = FALSE
  PROVE  TaskSpec => []CompletedMeansFinished
  <1>1. Inv /\ FinishedInv => CompletedMeansFinished
    BY DEF Inv, Typing, QueueInv, FinishedInv, CompletedMeansFinished
  <1> QED BY <1>1, FinishedAlways, PTL

\* And then the callback does not run after the deletion.
THEOREM NoRunAfterDeleteAlways ==
  ASSUME RequeueUnfinished = FALSE
  PROVE  TaskSpec => []NoRunAfterDelete
  <1>1. Inv /\ FinishedInv => NoRunAfterDelete
    BY DEF Inv, Typing, QueueInv, FinishedInv, NoRunAfterDelete, Queueing
  <1> QED BY <1>1, FinishedAlways, PTL
=============================================================================
