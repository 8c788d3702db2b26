---------------------- MODULE NxExecutionContextTask ----------------------
(***************************************************************************)
(* A task of a client driver (src/netcx/adapter/nxexecutioncontexttask.cpp *)
(* and nxexecutioncontextapi.cpp): a framework object whose references     *)
(* keep it in memory while it is queued, run, waited for and deleted.      *)
(*                                                                         *)
(* The execution context is reduced to what it does for one task: linked   *)
(* into the queue once, unlinked before its function runs.                 *)
(***************************************************************************)
EXTENDS Integers

CONSTANTS
  Callers,  \* threads of the driver
  Worker,   \* the EC's worker thread, which runs the driver's callback
  RequeueUnfinished  \* the driver enqueues the task before it has finished

ASSUME CallersAssumption ==
  /\ Worker \notin Callers
  /\ {"creation", "this", "EvtExecutionContextTask"} \cap Callers = {}
ASSUME RequeueAssumption == RequeueUnfinished \in BOOLEAN

VARIABLES
  taskQueued,     \* m_taskQueued
  taskCompleted,  \* m_taskCompleted, a manual-reset event
  linked,         \* m_linkage is in the EC's task queue
  refs,           \* references on the object by tag: the framework's own, the
                  \* constructor's, one for each run, one for each waiter
  worker,         \* where the worker thread is with this task
  at,             \* where each thread is in a call on this task
  deletion        \* how far the deletion of the object is

taskVars == <<taskQueued, taskCompleted, linked, refs, worker, at, deletion>>

Threads == Callers \cup {Worker}
Tags    == Callers \cup {"creation", "this", "EvtExecutionContextTask"}
Run     == "EvtExecutionContextTask"

\* NetExecutionContextTaskCreate: the task starts as completed.
TaskInit ==
  /\ taskQueued = FALSE /\ taskCompleted = TRUE /\ linked = FALSE
  /\ refs = [t \in Tags |-> IF t \in {"creation", "this"} THEN 1 ELSE 0]
  /\ worker = "idle" /\ at = [a \in Threads |-> "none"]
  /\ deletion = "none"

Acquire(t) == refs' = [refs EXCEPT ![t] = refs[t] + 1]
Release(t) == refs' = [refs EXCEPT ![t] = refs[t] - 1]

\* The driver may call from its threads and, through the worker, from the
\* task's own callback.
MayCall(a) == at[a] = "none" /\ (a = Worker => worker = "callback")

-----------------------------------------------------------------------------
(***************************************************************************)
(* NetExecutionContextTaskEnqueue.  The driver serializes these calls and  *)
(* makes none once it deletes the task.                                    *)
(***************************************************************************)

\* Verifier_VerifyTaskNotQueued bugchecks otherwise.
VerifyNotQueued(a) ==
  /\ MayCall(a) /\ deletion = "none"
  /\ \A b \in Threads : at[b] \notin {"verified", "queue"}
  /\ RequeueUnfinished \/ taskCompleted
  /\ ~taskQueued
  /\ at' = [at EXCEPT ![a] = "verified"]
  /\ UNCHANGED <<taskQueued, taskCompleted, linked, refs, worker, deletion>>

\* Mutant: the run has no reference of its own.
EnqueueLockedUnreferenced(a) ==
  /\ at[a] = "verified"
  /\ taskCompleted' = FALSE /\ taskQueued' = TRUE
  /\ at' = [at EXCEPT ![a] = "queue"]
  /\ UNCHANGED <<linked, refs, worker, deletion>>

EnqueueLocked(a) ==
  /\ at[a] = "verified"
  /\ taskCompleted' = FALSE /\ taskQueued' = TRUE /\ Acquire(Run)
  /\ at' = [at EXCEPT ![a] = "queue"]
  /\ UNCHANGED <<linked, worker, deletion>>

\* ExecutionContext::QueueTask ignores a task that is linked already.
Link(a) ==
  /\ at[a] = "queue"
  /\ linked' = TRUE /\ at' = [at EXCEPT ![a] = "none"]
  /\ UNCHANGED <<taskQueued, taskCompleted, refs, worker, deletion>>

-----------------------------------------------------------------------------
(***************************************************************************)
(* The worker thread: ProcessTaskQueue and EvtExecutionContextTask.        *)
(***************************************************************************)
Unlink ==
  /\ worker = "idle" /\ linked
  /\ linked' = FALSE /\ worker' = "handler"
  /\ UNCHANGED <<taskQueued, taskCompleted, refs, at, deletion>>

\* Mutant: the task completes before its callback.
StartCallbackCompleted ==
  /\ worker = "handler"
  /\ taskQueued' = FALSE /\ taskCompleted' = TRUE /\ worker' = "callback"
  /\ UNCHANGED <<linked, refs, at, deletion>>

\* m_taskThread is this thread until the callback returns.
StartCallback ==
  /\ worker = "handler"
  /\ taskQueued' = FALSE /\ worker' = "callback"
  /\ UNCHANGED <<taskCompleted, linked, refs, at, deletion>>

EndCallback ==
  /\ worker = "callback" /\ at[Worker] = "none"
  /\ worker' = "completing"
  /\ UNCHANGED <<taskQueued, taskCompleted, linked, refs, at, deletion>>

\* KeSetEvent satisfies every wait there is.
CompleteTask ==
  /\ worker = "completing"
  /\ taskCompleted' = TRUE /\ worker' = "release"
  /\ at' = [a \in Threads |-> IF at[a] = "waiting" THEN "waited" ELSE at[a]]
  /\ UNCHANGED <<taskQueued, linked, refs, deletion>>

ReleaseRun ==
  /\ worker = "release"
  /\ Release(Run) /\ worker' = "idle"
  /\ UNCHANGED <<taskQueued, taskCompleted, linked, at, deletion>>

-----------------------------------------------------------------------------
(***************************************************************************)
(* NetExecutionContextTaskWaitCompletion, at PASSIVE_LEVEL.                *)
(***************************************************************************)
StartWait(a) ==
  /\ at[a] = "none" /\ deletion = "none"
  /\ Acquire(a)
  /\ at' = [at EXCEPT ![a] = IF taskCompleted THEN "waited" ELSE "waiting"]
  /\ UNCHANGED <<taskQueued, taskCompleted, linked, worker, deletion>>

EndWait(a) ==
  /\ at[a] = "waited"
  /\ Release(a) /\ at' = [at EXCEPT ![a] = "none"]
  /\ UNCHANGED <<taskQueued, taskCompleted, linked, worker, deletion>>

-----------------------------------------------------------------------------
(***************************************************************************)
(* Deletion: OnDelete is the object's cleanup callback.  When it returns   *)
(* the framework gives up its own reference.                               *)
(***************************************************************************)
\* Mutant: OnDelete waits in the callback too.
DeleteWaits(a) ==
  /\ MayCall(a) /\ deletion = "none"
  /\ \A b \in Threads : at[b] \notin {"verified", "queue"}
  /\ deletion' = "waiting" /\ at' = [at EXCEPT ![a] = "deleting"]
  /\ UNCHANGED <<taskQueued, taskCompleted, linked, refs, worker>>

\* From the callback OnDelete leaves the rest to a work item, elsewhere it
\* waits for the task first.
Delete(a) ==
  /\ MayCall(a) /\ deletion = "none"
  /\ \A b \in Threads : at[b] \notin {"verified", "queue"}
  /\ \/ /\ a = Worker
        /\ deletion' = "deferred" /\ Release("creation") /\ UNCHANGED at
     \/ /\ a # Worker
        /\ deletion' = "waiting" /\ at' = [at EXCEPT ![a] = "deleting"]
        /\ UNCHANGED refs
  /\ UNCHANGED <<taskQueued, taskCompleted, linked, worker>>

\* Mutant: the references are released without waiting for the task.
ReleaseWithoutWait(a) ==
  /\ at[a] = "deleting" /\ deletion = "waiting"
  /\ deletion' = "released"
  /\ refs' = [refs EXCEPT !["this"] = refs["this"] - 1, !["creation"] = 0]
  /\ at' = [at EXCEPT ![a] = "none"]
  /\ UNCHANGED <<taskQueued, taskCompleted, linked, worker>>

ReleaseConstructorRef(a) ==
  /\ at[a] = "deleting" /\ deletion = "waiting" /\ taskCompleted
  /\ deletion' = "released" /\ Release("this")
  /\ UNCHANGED <<taskQueued, taskCompleted, linked, worker, at>>

EndDelete(a) ==
  /\ at[a] = "deleting" /\ deletion = "released"
  /\ Release("creation") /\ at' = [at EXCEPT ![a] = "none"]
  /\ deletion' = "done"
  /\ UNCHANGED <<taskQueued, taskCompleted, linked, worker>>

\* EvtTaskDeferredDelete calls OnDelete again, from a system thread.
DeferredDelete ==
  /\ deletion = "deferred" /\ taskCompleted
  /\ deletion' = "done" /\ Release("this")
  /\ UNCHANGED <<taskQueued, taskCompleted, linked, worker, at>>

TaskGone == deletion = "done" /\ worker = "idle"
            /\ (\A a \in Threads : at[a] = "none") /\ UNCHANGED taskVars

-----------------------------------------------------------------------------
EnqueueStep(a) == VerifyNotQueued(a) \/ EnqueueLocked(a) \/ Link(a)
TaskWorkerStep == \/ Unlink \/ StartCallback \/ EndCallback
                  \/ CompleteTask \/ ReleaseRun
DeleteStep(a) == Delete(a) \/ ReleaseConstructorRef(a) \/ EndDelete(a)

TaskNext ==
  \/ \E a \in Threads : EnqueueStep(a) \/ DeleteStep(a)
  \/ \E a \in Callers : StartWait(a) \/ EndWait(a)
  \/ TaskWorkerStep \/ DeferredDelete \/ TaskGone

\* The EC runs what is queued, the system runs the work item, and a thread
\* inside a call goes on.  Nobody has to enqueue, wait or delete.
TaskFairness ==
  /\ WF_taskVars(TaskWorkerStep) /\ WF_taskVars(DeferredDelete)
  /\ \A a \in Threads :
       /\ WF_taskVars(EnqueueLocked(a)) /\ WF_taskVars(Link(a))
       /\ WF_taskVars(ReleaseConstructorRef(a)) /\ WF_taskVars(EndDelete(a))
  /\ \A a \in Callers : WF_taskVars(EndWait(a))

TaskSpec == TaskInit /\ [][TaskNext]_taskVars
TaskFairSpec == TaskSpec /\ TaskFairness
-----------------------------------------------------------------------------
TaskTypeOK ==
  /\ taskQueued \in BOOLEAN /\ taskCompleted \in BOOLEAN /\ linked \in BOOLEAN
  /\ refs \in [Tags -> Nat]
  /\ worker \in {"idle", "handler", "callback", "completing", "release"}
  /\ at \in [Threads -> {"none", "verified", "queue", "waiting", "waited",
                        "deleting"}]
  /\ deletion \in {"none", "deferred", "waiting", "released", "done"}

\* An Enqueue has taken its reference and not reached the EC yet.
Queueing == \E a \in Threads : at[a] = "queue"
One(b) == IF b THEN 1 ELSE 0

\* Every reference has exactly one holder and every holder one reference, also
\* when the task is queued again by its own callback: the object is neither
\* freed under someone who uses it nor leaked.
ReferencesMatch ==
  /\ refs[Run] = One(Queueing) + One(linked) + One(worker # "idle")
  /\ refs["creation"] = One(deletion \in {"none", "waiting", "released"})
  /\ refs["this"] = One(deletion \in {"none", "waiting", "deferred"})
  /\ \A a \in Callers : refs[a] = One(at[a] \in {"waiting", "waited"})

\* "Waits for the specified task until completion": the event that waiters and
\* OnDelete wait for is set only when no run of the task is left.
CompletedMeansFinished ==
  taskCompleted => ~taskQueued /\ ~linked /\ worker \in {"idle", "release"}

\* Once WdfObjectDelete has returned, or the deferred deletion has ended, the
\* driver's callback neither runs nor will run, and the reference on the EC
\* that its run needs may be gone.
NoRunAfterDelete ==
  deletion \in {"released", "done"}
    => ~Queueing /\ ~linked /\ worker \in {"idle", "release"}

\* A deleted object is destroyed, whether a thread or the callback deleted it.
DeletionEnds == deletion # "none" ~> \A t \in Tags : refs[t] = 0
=============================================================================
