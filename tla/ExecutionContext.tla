-------------------------- MODULE ExecutionContext --------------------------
(***************************************************************************)
(* The execution context (EC) of src/netcx/ec: a scheduler that serializes *)
(* the tasks and the polls of the datapath over one worker thread, one     *)
(* poll DPC and one notify DPC.                                            *)
(*                                                                         *)
(* A region of code that holds m_lock is one action, and so is each step   *)
(* between two such regions.  The clients follow the protocol of the       *)
(* translator's Queue (src/netcx/translator/queue.cpp) and of the code     *)
(* that enqueues NET_BUFFER_LISTs for it.                                  *)
(***************************************************************************)
EXTENDS Integers, SequencesExt

CONSTANTS
  Clients,       \* objects with a poll and a notification: translator queues
  PollType,      \* the EXECUTION_CONTEXT_POLL_TYPE of each client
  Cpus,          \* processors that run DPCs
  WorkerThread,  \* the worker thread, a context like each processor
  DpcKnob,       \* the values ExecutionContextFlagRunDpcForFirstLoop may have
  DispatchKnob,  \* the values ...FlagRunWorkerThreadAtDispatch may have
  Affinities,    \* arguments of SetWorkerThreadAffinity
  MaxWork        \* bound on the items queued to each client

NoTask   == "noTask"     \* the worker thread runs no task
Original == "original"   \* the affinity the worker thread was created with
Unset    == "unset"      \* an affinity field that was never written

ASSUME ClientsAssumption ==
  /\ PollType \in [Clients -> Nat]
  /\ {"affinity", "unregisterEverything", "terminate", NoTask} \cap Clients = {}
ASSUME ContextAssumption == Cpus # {} /\ WorkerThread \notin Cpus
ASSUME KnobAssumption ==
  /\ DpcKnob \subseteq BOOLEAN /\ DpcKnob # {}
  /\ DispatchKnob \subseteq BOOLEAN /\ DispatchKnob # {}
ASSUME BoundAssumption == MaxWork \in [Clients -> Nat]

VARIABLES
  state,             \* m_state
  hasPollWork,       \* m_hasPollWork
  taskQueue,         \* m_taskQueue
  workerRequested,   \* m_workerThreadRequested, an auto-reset event
  pollDpcQueued,     \* m_pollDpc is in a DPC queue
  notifyDpcQueued,   \* m_notifyDpc is in a DPC queue
  pc,                \* where each context is
  task,              \* the task the worker thread took from the queue
  frame,             \* the locals of ExecutionContext::Poll in each context
  terminate,         \* m_terminateWorkerThread
  pollList,          \* m_pollList
  notifications,     \* m_notificationList; its order tells nothing apart
  enabled,           \* NotificationReserved::Enabled of each client
  affinity,          \* the affinity fields and the worker thread's affinity
  stage,             \* what each client has done with the EC
  call,              \* the synchronous EC call each client is waiting in
  completed,         \* m_completed of the task on that client's stack
  pollFn,            \* EXECUTION_CONTEXT_POLL::PollFn of each client
  readyToStop,       \* Queue::m_readyToStop
  armed,             \* Queue::m_nblNotificationEnabled
  work,              \* items queued for each client's poll function
  producer,          \* the thread that enqueues items for each client
  affinityCaller,    \* the thread inside SetWorkerThreadAffinity
  destroyer          \* the thread inside ExecutionContext::Destroy

schedule    == <<state, workerRequested, pollDpcQueued>>
lists       == <<pollList, notifications, enabled, armed, pollFn>>
workerVars  == <<task, terminate, affinity>>
clientVars  == <<stage, call, readyToStop>>
trafficVars == <<work, producer>>
callerVars  == <<affinityCaller, destroyer>>
vars == <<schedule, hasPollWork, taskQueue, notifyDpcQueued, pc, frame, lists,
          workerVars, clientVars, completed, trafficVars, callerVars>>

Contexts == Cpus \cup {WorkerThread}
Tasks    == Clients \cup {"affinity", "unregisterEverything", "terminate"}
States   == {"Stopped", "WaitingWorkerThread", "WaitingWorkerDpc", "Running"}

\* Where a context is while the EC's state is Running on its behalf.
PollPoints == {"startPoll", "poll", "checkTasks", "exitEarly", "exitIdle"}
TaskPoints == {"task", "taskRan", "taskDone"}
RunPoints  == PollPoints \cup TaskPoints

ThreadPoints == RunPoints \cup {"waiting", "woken", "returned", "terminated"}
DpcPoints    == PollPoints \cup {"idle", "pollDpc", "notifyDpc"}

Calls  == {"RegisterNotification", "RegisterPoll", "ChangePollFunction",
           "EcTaskCancel", "UnregisterPoll", "UnregisterNotification"}
Stages == {"destroyed", "created", "registered", "started", "switched",
           "cancelled", "stopping"}

\* The calls a client may make at a stage, and the stage each leads to.
CallsAt(s) ==
  CASE s = "destroyed" -> {"RegisterNotification"}
    [] s = "created"   -> {"RegisterPoll", "UnregisterNotification"}
    [] s = "started"   -> {"ChangePollFunction"}
    [] s = "switched"  -> {"EcTaskCancel"}
    [] s = "stopping"  -> {"UnregisterPoll"}
    [] OTHER           -> {}
StageAfter ==
  [RegisterNotification |-> "created",  RegisterPoll |-> "registered",
   ChangePollFunction   |-> "switched", EcTaskCancel |-> "cancelled",
   UnregisterPoll |-> "created", UnregisterNotification |-> "destroyed"]

IdleFrame == [armed |-> FALSE, next |-> 1, work |-> FALSE, dispatch |-> FALSE]

Init ==
  /\ state = "Stopped" /\ hasPollWork = FALSE /\ taskQueue = <<>>
  /\ workerRequested = FALSE /\ pollDpcQueued = FALSE /\ notifyDpcQueued = FALSE
  /\ pc = [x \in Contexts |-> IF x = WorkerThread THEN "waiting" ELSE "idle"]
  /\ task = NoTask /\ terminate = FALSE
  /\ frame = [x \in Contexts |-> IdleFrame]
  /\ pollList = <<>> /\ notifications = {}
  /\ enabled = [c \in Clients |-> FALSE] /\ armed = [c \in Clients |-> FALSE]
  /\ affinity = [requested |-> Unset, saved |-> Unset, current |-> Original]
  /\ stage = [c \in Clients |-> "destroyed"]
  /\ call = [c \in Clients |-> "none"]
  /\ completed = [c \in Clients |-> FALSE]
  /\ pollFn = [c \in Clients |-> "Started"]
  /\ readyToStop = [c \in Clients |-> FALSE]
  /\ work = [c \in Clients |-> 0] /\ producer = [c \in Clients |-> "idle"]
  /\ affinityCaller = "idle" /\ destroyer = "none"

-----------------------------------------------------------------------------
(***************************************************************************)
(* Scheduling, with m_lock held.                                           *)
(***************************************************************************)
QueueWorkerThread ==
  /\ state' = "WaitingWorkerThread" /\ workerRequested' = TRUE
  /\ UNCHANGED pollDpcQueued

QueueWorkerDpc ==
  /\ state' = "WaitingWorkerDpc" /\ pollDpcQueued' = TRUE
  /\ UNCHANGED workerRequested

\* ShouldRunInDpc reads a knob its owner may change at any time.
QueueWorker ==
  \/ TRUE \in DpcKnob /\ QueueWorkerDpc
  \/ FALSE \in DpcKnob /\ QueueWorkerThread

\* Mutant: a task wakes the worker thread even while a poll runs in a DPC.
QueueTaskAlwaysWakes(t) ==
  \/ t \in Range(taskQueue) /\ UNCHANGED <<taskQueue, schedule>>
  \/ /\ t \notin Range(taskQueue)
     /\ taskQueue' = Append(taskQueue, t) /\ QueueWorkerThread

\* Mutant: a task that is running counts as queued.
QueueTaskUnlessRunning(t) ==
  \/ /\ t \in Range(taskQueue) \/ task = t
     /\ UNCHANGED <<taskQueue, schedule>>
  \/ /\ t \notin Range(taskQueue) /\ task # t
     /\ taskQueue' = Append(taskQueue, t)
     /\ \/ state = "Stopped" /\ QueueWorkerThread
        \/ state # "Stopped" /\ UNCHANGED schedule

QueueTask(t) ==
  \/ t \in Range(taskQueue) /\ UNCHANGED <<taskQueue, schedule>>
  \/ /\ t \notin Range(taskQueue)
     /\ taskQueue' = Append(taskQueue, t)
     /\ \/ state = "Stopped" /\ QueueWorkerThread
        \/ state # "Stopped" /\ UNCHANGED schedule

\* Mutant: only a running EC is left alone.
NotifyUnlessRunning ==
  /\ hasPollWork' = TRUE
  /\ \/ state = "Running" /\ UNCHANGED schedule
     \/ state # "Running" /\ QueueWorker

\* Mutant: a busy EC is not told about the poll work.
NotifyWhenStopped ==
  \/ state # "Stopped" /\ UNCHANGED <<hasPollWork, schedule>>
  \/ state = "Stopped" /\ hasPollWork' = TRUE /\ QueueWorker

\* NotifyCommon from an arbitrary context.
Notify ==
  /\ hasPollWork' = TRUE
  /\ \/ state # "Stopped" /\ UNCHANGED schedule
     \/ state = "Stopped" /\ QueueWorker

\* A context that releases m_lock for good: a DPC ends, the worker thread
\* returns to WorkerThreadRoutine.
Leave(x) ==
  /\ pc' = [pc EXCEPT ![x] = IF x = WorkerThread THEN "returned" ELSE "idle"]
  /\ frame' = [frame EXCEPT ![x] = IdleFrame]

\* Mutant: the poll work that came meanwhile is forgotten.
SettleWithoutPollWork(x) ==
  /\ Leave(x)
  /\ \/ taskQueue # <<>> /\ QueueWorkerThread
     \/ /\ taskQueue = <<>> /\ state' = "Stopped"
        /\ UNCHANGED <<workerRequested, pollDpcQueued>>
  /\ UNCHANGED <<hasPollWork, taskQueue>>

\* The end of RunLockHeld: look for work that came meanwhile, or stop.
Settle(x) ==
  /\ Leave(x)
  /\ \/ taskQueue # <<>> /\ QueueWorkerThread
     \/ taskQueue = <<>> /\ hasPollWork /\ QueueWorker
     \/ /\ taskQueue = <<>> /\ ~hasPollWork
        /\ state' = "Stopped" /\ UNCHANGED <<workerRequested, pollDpcQueued>>
  /\ UNCHANGED <<hasPollWork, taskQueue>>

\* The part of RunLockHeld after the tasks.
RunPollWork(x, pollWork) ==
  \/ /\ pollWork
     /\ hasPollWork' = FALSE /\ state' = "Running"
     /\ pc' = [pc EXCEPT ![x] = "startPoll"]
     /\ UNCHANGED <<taskQueue, workerRequested, pollDpcQueued, frame>>
  \/ ~pollWork /\ Settle(x)

\* ProcessTaskQueue takes the head, unlinks it and releases m_lock.
TakeTask ==
  /\ task' = Head(taskQueue) /\ taskQueue' = Tail(taskQueue)
  /\ state' = "Running" /\ pc' = [pc EXCEPT ![WorkerThread] = "task"]
  /\ UNCHANGED <<hasPollWork, workerRequested, pollDpcQueued, frame>>

RunLockHeld(x, pollWork) ==
  \/ /\ taskQueue # <<>> /\ x # WorkerThread
     /\ QueueWorkerThread /\ hasPollWork' = pollWork
     /\ Leave(x) /\ UNCHANGED <<taskQueue, task>>
  \/ taskQueue # <<>> /\ x = WorkerThread /\ TakeTask
  \/ taskQueue = <<>> /\ RunPollWork(x, pollWork) /\ UNCHANGED task

-----------------------------------------------------------------------------
(***************************************************************************)
(* The worker thread.                                                      *)
(***************************************************************************)
WakeWorkerThread ==
  /\ pc[WorkerThread] = "waiting" /\ workerRequested
  /\ workerRequested' = FALSE
  /\ pc' = [pc EXCEPT ![WorkerThread] = "woken"]
  /\ UNCHANGED <<state, pollDpcQueued, hasPollWork, taskQueue, notifyDpcQueued,
                 frame, lists, workerVars, clientVars, completed, trafficVars,
                 callerVars>>

RunWorkerThread ==
  /\ pc[WorkerThread] = "woken"
  /\ RunLockHeld(WorkerThread, hasPollWork)
  /\ UNCHANGED <<notifyDpcQueued, terminate, affinity, lists, clientVars,
                 completed, trafficVars, callerVars>>

\* RegisterPoll keeps the list sorted by type: the new poll goes before the
\* first one with a greater type.
InsertsPoll(c) ==
  \E at \in 1 .. Len(pollList) + 1 :
    /\ \A i \in 1 .. at - 1 : PollType[pollList[i]] <= PollType[c]
    /\ at <= Len(pollList) => PollType[c] < PollType[pollList[at]]
    /\ pollList' = InsertAt(pollList, at, c)

RemovesPoll(c) ==
  \E at \in DOMAIN pollList :
    pollList[at] = c /\ pollList' = RemoveAt(pollList, at)

\* NotificationReserved::Enable and Disable call the client on a change only.
EnableNotifications ==
  /\ enabled' = [c \in Clients |-> enabled[c] \/ c \in notifications]
  /\ armed' = [c \in Clients |->
                 armed[c] \/ (c \in notifications /\ ~enabled[c])]

Disable(S) ==
  /\ enabled' = [c \in Clients |-> enabled[c] /\ c \notin S]
  /\ armed' = [c \in Clients |-> armed[c] /\ ~(c \in S /\ enabled[c])]

\* Mutant: UnregisterNotification leaves the notification enabled.
RunClientTaskWithoutDisable(c) ==
  \/ /\ call[c] = "RegisterNotification"
     /\ notifications' = notifications \cup {c}
     /\ UNCHANGED <<pollList, enabled, armed, pollFn>>
  \/ /\ call[c] = "UnregisterNotification"
     /\ notifications' = notifications \ {c}
     /\ UNCHANGED <<pollList, enabled, armed, pollFn>>
  \/ /\ call[c] = "RegisterPoll" /\ InsertsPoll(c)
     /\ UNCHANGED <<notifications, enabled, armed, pollFn>>
  \/ /\ call[c] = "UnregisterPoll" /\ RemovesPoll(c)
     /\ UNCHANGED <<notifications, enabled, armed, pollFn>>
  \/ /\ call[c] = "ChangePollFunction" /\ c \in Range(pollList)
     /\ pollFn' = [pollFn EXCEPT ![c] = "Stopping"]
     /\ UNCHANGED <<pollList, notifications, enabled, armed>>
  \/ call[c] = "EcTaskCancel" /\ UNCHANGED lists

\* The function of the synchronous task on the stack of client c.
RunClientTask(c) ==
  \/ /\ call[c] = "RegisterNotification"
     /\ notifications' = notifications \cup {c}
     /\ UNCHANGED <<pollList, enabled, armed, pollFn>>
  \/ /\ call[c] = "UnregisterNotification"
     /\ notifications' = notifications \ {c} /\ Disable({c})
     /\ UNCHANGED <<pollList, pollFn>>
  \/ /\ call[c] = "RegisterPoll" /\ InsertsPoll(c)
     /\ UNCHANGED <<notifications, enabled, armed, pollFn>>
  \/ /\ call[c] = "UnregisterPoll" /\ RemovesPoll(c)
     /\ UNCHANGED <<notifications, enabled, armed, pollFn>>
  \/ /\ call[c] = "ChangePollFunction" /\ c \in Range(pollList)
     /\ pollFn' = [pollFn EXCEPT ![c] = "Stopping"]
     /\ UNCHANGED <<pollList, notifications, enabled, armed>>
  \/ call[c] = "EcTaskCancel" /\ UNCHANGED lists

\* SetWorkerThreadAffinityTask; m_affinityChanged is saved # Unset.
ApplyAffinity ==
  affinity' = [affinity EXCEPT
    !.current = affinity.requested,
    !.saved   = IF affinity.saved = Unset THEN affinity.current
                                          ELSE affinity.saved]

UnregisterEverything ==
  /\ pollList' = <<>> /\ notifications' = {} /\ Disable(notifications)
  /\ UNCHANGED pollFn

\* The task's function runs with m_lock released.
RunTask ==
  /\ pc[WorkerThread] = "task"
  /\ \/ /\ task \in Clients /\ RunClientTask(task)
        /\ UNCHANGED <<affinity, terminate>>
     \/ task = "affinity" /\ ApplyAffinity /\ UNCHANGED <<lists, terminate>>
     \/ /\ task = "unregisterEverything" /\ UnregisterEverything
        /\ UNCHANGED <<affinity, terminate>>
     \/ /\ task = "terminate" /\ terminate' = TRUE
        /\ UNCHANGED <<lists, affinity>>
  /\ pc' = [pc EXCEPT ![WorkerThread] = "taskRan"]
  /\ UNCHANGED <<schedule, hasPollWork, taskQueue, notifyDpcQueued, frame, task,
                 clientVars, completed, trafficVars, callerVars>>

\* Only the tasks that live on a caller's stack have someone waiting.
SignalTask ==
  /\ pc[WorkerThread] = "taskRan"
  /\ completed' = [c \in Clients |-> completed[c] \/ c = task]
  /\ task' = NoTask
  /\ pc' = [pc EXCEPT ![WorkerThread] = "taskDone"]
  /\ UNCHANGED <<schedule, hasPollWork, taskQueue, notifyDpcQueued, frame,
                 terminate, affinity, lists, clientVars, trafficVars, callerVars>>

\* m_lock is acquired again: the next task, or the poll work.
NextTask ==
  /\ pc[WorkerThread] = "taskDone"
  /\ \/ taskQueue # <<>> /\ TakeTask
     \/ taskQueue = <<>> /\ RunPollWork(WorkerThread, hasPollWork)
                         /\ UNCHANGED task
  /\ UNCHANGED <<notifyDpcQueued, terminate, affinity, lists, clientVars,
                 completed, trafficVars, callerVars>>

\* Back in WorkerThreadRoutine, after RunLockNotHeld returned.
EndWorkerLoop ==
  /\ pc[WorkerThread] = "returned"
  /\ pc' = [pc EXCEPT ![WorkerThread] =
              IF terminate THEN "terminated" ELSE "waiting"]
  /\ UNCHANGED <<schedule, hasPollWork, taskQueue, notifyDpcQueued, frame, lists,
                 workerVars, clientVars, completed, trafficVars, callerVars>>

-----------------------------------------------------------------------------
(***************************************************************************)
(* The DPCs.  A DPC object leaves the queue before its routine runs, so it *)
(* may be queued again, and start elsewhere, while the routine waits for   *)
(* m_lock.                                                                 *)
(***************************************************************************)
StartPollDpc(p) ==
  /\ pc[p] = "idle" /\ pollDpcQueued
  /\ pollDpcQueued' = FALSE /\ pc' = [pc EXCEPT ![p] = "pollDpc"]
  /\ UNCHANGED <<state, workerRequested, hasPollWork, taskQueue, notifyDpcQueued,
                 frame, lists, workerVars, clientVars, completed, trafficVars,
                 callerVars>>

StartNotifyDpc(p) ==
  /\ pc[p] = "idle" /\ notifyDpcQueued
  /\ notifyDpcQueued' = FALSE /\ pc' = [pc EXCEPT ![p] = "notifyDpc"]
  /\ UNCHANGED <<schedule, hasPollWork, taskQueue, frame, lists, workerVars,
                 clientVars, completed, trafficVars, callerVars>>

PollDpc(p) ==
  /\ pc[p] = "pollDpc"
  /\ RunLockHeld(p, hasPollWork)
  /\ UNCHANGED <<notifyDpcQueued, terminate, affinity, lists, clientVars,
                 completed, trafficVars, callerVars>>

\* Mutant: the notify DPC polls in place without a look at m_state.
NotifyDpcWhileRunning(p) ==
  /\ pc[p] = "notifyDpc"
  /\ \/ TRUE \in DpcKnob /\ RunLockHeld(p, TRUE)
     \/ /\ FALSE \in DpcKnob
        /\ hasPollWork' = TRUE /\ QueueWorkerThread /\ Leave(p)
        /\ UNCHANGED <<taskQueue, task>>
  /\ UNCHANGED <<notifyDpcQueued, terminate, affinity, lists, clientVars,
                 completed, trafficVars, callerVars>>

\* NotifyCommon from the notify DPC: it polls in place if it may.
NotifyDpc(p) ==
  /\ pc[p] = "notifyDpc"
  /\ \/ /\ state # "Stopped" /\ hasPollWork' = TRUE /\ Leave(p)
        /\ UNCHANGED <<schedule, taskQueue, task>>
     \/ state = "Stopped" /\ TRUE \in DpcKnob /\ RunLockHeld(p, TRUE)
     \/ /\ state = "Stopped" /\ FALSE \in DpcKnob
        /\ hasPollWork' = TRUE /\ QueueWorkerThread /\ Leave(p)
        /\ UNCHANGED <<taskQueue, task>>
  /\ UNCHANGED <<notifyDpcQueued, terminate, affinity, lists, clientVars,
                 completed, trafficVars, callerVars>>

-----------------------------------------------------------------------------
(***************************************************************************)
(* ExecutionContext::Poll, in the worker thread or in a DPC.               *)
(***************************************************************************)
StartPoll(x) ==
  /\ pc[x] = "startPoll"
  /\ Disable(notifications)
  /\ \E dispatch \in IF x = WorkerThread THEN DispatchKnob ELSE {TRUE} :
       frame' = [frame EXCEPT ![x] = [IdleFrame EXCEPT !.dispatch = dispatch]]
  /\ pc' = [pc EXCEPT ![x] = "poll"]
  /\ UNCHANGED <<schedule, hasPollWork, taskQueue, notifyDpcQueued, pollList,
                 notifications, pollFn, workerVars, clientVars, completed,
                 trafficVars, callerVars>>

InPollFn(x, c) ==
  /\ pc[x] = "poll" /\ frame[x].next <= Len(pollList)
  /\ pollList[frame[x].next] = c

\* The poll function of client c.  Once the queue is stopping, an empty queue
\* is ready to stop; the counters of an earlier poll are reported again.
PollClient(x, c) ==
  /\ InPollFn(x, c)
  /\ \E done \in 0 .. work[c], stale \in BOOLEAN :
       /\ work[c] > 0 => done > 0
       /\ stale => pollFn[c] = "Stopping"
       /\ work' = [work EXCEPT ![c] = work[c] - done]
       /\ frame' = [frame EXCEPT ![x].next = frame[x].next + 1,
                                 ![x].work = frame[x].work \/ done > 0 \/ stale]
  /\ readyToStop' = [readyToStop EXCEPT ![c] =
       readyToStop[c] \/ (pollFn[c] = "Stopping" /\ work[c] = 0)]
  /\ UNCHANGED <<schedule, hasPollWork, taskQueue, notifyDpcQueued, pc, lists,
                 workerVars, stage, call, completed, producer, callerVars>>

\* The counters of a round are forgotten at its end.
NewRound(x, isArmed, to) ==
  /\ pc' = [pc EXCEPT ![x] = to]
  /\ frame' = [frame EXCEPT ![x].armed = isArmed, ![x].next = 1,
                            ![x].work = FALSE]

\* Every client was polled: arm, disarm or leave the loop.
EndRound(x) ==
  /\ pc[x] = "poll" /\ frame[x].next > Len(pollList)
  /\ \/ /\ ~frame[x].work /\ ~frame[x].armed
        /\ EnableNotifications
        /\ NewRound(x, TRUE, "checkTasks")
     \/ /\ ~frame[x].work /\ frame[x].armed
        /\ NewRound(x, TRUE, "exitIdle") /\ UNCHANGED <<enabled, armed>>
     \/ /\ frame[x].work /\ frame[x].armed
        /\ Disable(notifications)
        /\ NewRound(x, FALSE, "checkTasks")
     \/ /\ frame[x].work /\ ~frame[x].armed
        /\ NewRound(x, FALSE, "checkTasks") /\ UNCHANGED <<enabled, armed>>
  /\ UNCHANGED <<schedule, hasPollWork, taskQueue, notifyDpcQueued, pollList,
                 notifications, pollFn, workerVars, clientVars, completed,
                 trafficVars, callerVars>>

\* Mutant: the budget also ends the last poll of a worker thread that terminates.
OutOfBudgetAlways(x) == frame[x].dispatch

\* The time budget ends at any time, but only at DISPATCH_LEVEL.
OutOfBudget(x) == frame[x].dispatch /\ ~terminate

\* Mutant: a busy poll does not make way for a task.
CheckTasksNever(x) ==
  /\ pc[x] = "checkTasks"
  /\ \/ OutOfBudget(x) /\ pc' = [pc EXCEPT ![x] = "exitEarly"]
     \/ pc' = [pc EXCEPT ![x] = "poll"]
  /\ UNCHANGED <<schedule, hasPollWork, taskQueue, notifyDpcQueued, frame, lists,
                 workerVars, clientVars, completed, trafficVars, callerVars>>

CheckTasks(x) ==
  /\ pc[x] = "checkTasks"
  /\ \/ /\ taskQueue # <<>> \/ OutOfBudget(x)
        /\ pc' = [pc EXCEPT ![x] = "exitEarly"]
     \/ taskQueue = <<>> /\ pc' = [pc EXCEPT ![x] = "poll"]
  /\ UNCHANGED <<schedule, hasPollWork, taskQueue, notifyDpcQueued, frame, lists,
                 workerVars, clientVars, completed, trafficVars, callerVars>>

\* Poll returned TaskPending or OutOfDpcBudget.
ExitPollEarly(x) ==
  /\ pc[x] = "exitEarly"
  /\ hasPollWork' = TRUE /\ QueueWorkerThread /\ Leave(x)
  /\ UNCHANGED <<taskQueue, notifyDpcQueued, lists, workerVars, clientVars,
                 completed, trafficVars, callerVars>>

\* Poll returned NoMoreWork.
ExitPollIdle(x) ==
  /\ pc[x] = "exitIdle"
  /\ Settle(x)
  /\ UNCHANGED <<notifyDpcQueued, lists, workerVars, clientVars, completed,
                 trafficVars, callerVars>>

-----------------------------------------------------------------------------
(***************************************************************************)
(* The clients: Queue::Start, Cancel and Stop, and the calls before and    *)
(* after them.                                                             *)
(***************************************************************************)
Submit(c) ==
  /\ destroyer = "none" /\ call[c] = "none"
  /\ \E op \in CallsAt(stage[c]) :
       /\ op = "UnregisterPoll" => readyToStop[c]
       /\ call' = [call EXCEPT ![c] = op]
       /\ pollFn' = [pollFn EXCEPT ![c] =
                       IF op = "RegisterPoll" THEN "Started" ELSE pollFn[c]]
  /\ completed' = [completed EXCEPT ![c] = FALSE]
  /\ QueueTask(c)
  /\ UNCHANGED <<hasPollWork, notifyDpcQueued, pc, frame, pollList, notifications,
                 enabled, armed, workerVars, stage, readyToStop, trafficVars,
                 callerVars>>

Return(c) ==
  /\ call[c] # "none" /\ completed[c]
  /\ stage' = [stage EXCEPT ![c] = StageAfter[call[c]]]
  /\ call' = [call EXCEPT ![c] = "none"]
  /\ completed' = [completed EXCEPT ![c] = FALSE]
  /\ readyToStop' = [readyToStop EXCEPT ![c] =
                       readyToStop[c] /\ call[c] # "UnregisterPoll"]
  /\ UNCHANGED <<schedule, hasPollWork, taskQueue, notifyDpcQueued, pc, frame,
                 lists, workerVars, trafficVars, callerVars>>

\* Start and Cancel end with a Notify.
ClientNotify(c) ==
  /\ stage[c] \in {"registered", "cancelled"}
  /\ stage' = [stage EXCEPT ![c] =
                 IF stage[c] = "registered" THEN "started" ELSE "stopping"]
  /\ Notify
  /\ UNCHANGED <<taskQueue, notifyDpcQueued, pc, frame, lists, workerVars, call,
                 readyToStop, completed, trafficVars, callerVars>>

-----------------------------------------------------------------------------
(***************************************************************************)
(* The producers: NxTxXlat::QueueNetBufferList, or the device of an IHV    *)
(* driver, whose interrupt calls Notify above DISPATCH_LEVEL.  NDIS sends  *)
(* nothing more to a queue that is being cancelled.                        *)
(***************************************************************************)
Produce(c) ==
  /\ destroyer = "none" /\ producer[c] = "idle" /\ work[c] < MaxWork[c]
  /\ stage[c] \in {"created", "registered", "started"}
  /\ call[c] \notin {"ChangePollFunction", "UnregisterNotification"}
  /\ work' = [work EXCEPT ![c] = work[c] + 1]
  /\ producer' = [producer EXCEPT ![c] = "enqueued"]
  /\ UNCHANGED <<schedule, hasPollWork, taskQueue, notifyDpcQueued, pc, frame,
                 lists, workerVars, clientVars, completed, callerVars>>

\* InterlockedExchange(&m_nblNotificationEnabled, FALSE)
ExchangeArmed(c) ==
  /\ producer[c] = "enqueued"
  /\ producer' = [producer EXCEPT ![c] = IF armed[c] THEN "notify" ELSE "idle"]
  /\ armed' = [armed EXCEPT ![c] = FALSE]
  /\ UNCHANGED <<schedule, hasPollWork, taskQueue, notifyDpcQueued, pc, frame,
                 pollList, notifications, enabled, pollFn, workerVars,
                 clientVars, completed, work, callerVars>>

ProducerNotify(c) ==
  /\ producer[c] = "notify"
  /\ producer' = [producer EXCEPT ![c] = "idle"]
  /\ \/ Notify /\ UNCHANGED notifyDpcQueued
     \/ notifyDpcQueued' = TRUE /\ UNCHANGED <<schedule, hasPollWork>>
  /\ UNCHANGED <<taskQueue, pc, frame, lists, workerVars, clientVars, completed,
                 work, callerVars>>

-----------------------------------------------------------------------------
(***************************************************************************)
(* SetWorkerThreadAffinity and Destroy.                                    *)
(***************************************************************************)
SetAffinity(a) ==
  /\ destroyer = "none" /\ affinityCaller = "idle"
  /\ affinity' = [affinity EXCEPT !.requested = a]
  /\ affinityCaller' = "queue"
  /\ UNCHANGED <<schedule, hasPollWork, taskQueue, notifyDpcQueued, pc, frame,
                 lists, task, terminate, clientVars, completed, trafficVars,
                 destroyer>>

QueueAffinity ==
  /\ affinityCaller = "queue"
  /\ affinityCaller' = "idle" /\ QueueTask("affinity")
  /\ UNCHANGED <<hasPollWork, notifyDpcQueued, pc, frame, lists, workerVars,
                 clientVars, completed, trafficVars, destroyer>>

\* Nobody uses an EC that is being destroyed, and its owner has flushed the
\* notify DPC: Destroy itself does not.
Quiesced ==
  /\ \A c \in Clients : /\ call[c] = "none" /\ producer[c] = "idle"
                        /\ stage[c] \in {"destroyed", "created", "started"}
  /\ affinityCaller = "idle" /\ ~notifyDpcQueued
  /\ \A p \in Cpus : pc[p] # "notifyDpc"

Destroy ==
  /\ destroyer = "none" /\ Quiesced
  /\ \/ /\ affinity.saved # Unset
        /\ affinity' = [affinity EXCEPT !.requested = affinity.saved]
        /\ destroyer' = "affinity"
     \/ /\ affinity.saved = Unset
        /\ destroyer' = "unregister" /\ UNCHANGED affinity
  /\ UNCHANGED <<schedule, hasPollWork, taskQueue, notifyDpcQueued, pc, frame,
                 lists, task, terminate, clientVars, completed, trafficVars,
                 affinityCaller>>

DestroyQueuesTask(from, t, to) ==
  /\ destroyer = from /\ destroyer' = to
  /\ QueueTask(t)
  /\ UNCHANGED <<hasPollWork, notifyDpcQueued, pc, frame, lists, workerVars,
                 clientVars, completed, trafficVars, affinityCaller>>

DestroyQueues ==
  \/ DestroyQueuesTask("affinity", "affinity", "unregister")
  \/ DestroyQueuesTask("unregister", "unregisterEverything", "terminate")
  \/ DestroyQueuesTask("terminate", "terminate", "wait")

\* EcThreadWaitForTermination returned.
Destroyed ==
  /\ destroyer = "wait" /\ pc[WorkerThread] = "terminated"
  /\ destroyer' = "done"
  /\ UNCHANGED <<schedule, hasPollWork, taskQueue, notifyDpcQueued, pc, frame,
                 lists, workerVars, clientVars, completed, trafficVars,
                 affinityCaller>>

\* A destroyed EC takes no more steps.
Gone == destroyer = "done" /\ UNCHANGED vars

-----------------------------------------------------------------------------
WorkerStep == \/ WakeWorkerThread \/ RunWorkerThread \/ RunTask
              \/ SignalTask \/ NextTask \/ EndWorkerLoop
DpcStep(p) == StartPollDpc(p) \/ StartNotifyDpc(p) \/ PollDpc(p) \/ NotifyDpc(p)
PollStep(x) == \/ StartPoll(x) \/ (\E c \in Clients : PollClient(x, c))
               \/ EndRound(x) \/ CheckTasks(x)
               \/ ExitPollEarly(x) \/ ExitPollIdle(x)
ProducerStep(c) == Produce(c) \/ ExchangeArmed(c) \/ ProducerNotify(c)
ClientStep(c) == Submit(c) \/ Return(c) \/ ClientNotify(c)
AffinityStep == (\E a \in Affinities : SetAffinity(a)) \/ QueueAffinity
DestroyStep == Destroy \/ DestroyQueues \/ Destroyed \/ Gone

Next == \/ WorkerStep
        \/ \E p \in Cpus : DpcStep(p)
        \/ \E x \in Contexts : PollStep(x)
        \/ \E c \in Clients : ProducerStep(c) \/ ClientStep(c)
        \/ AffinityStep
        \/ DestroyStep

\* The kernel schedules the thread and the DPCs, and a thread inside a call
\* goes on.  Nobody has to send, start, cancel or destroy anything.
Fairness ==
  /\ WF_vars(WorkerStep)
  /\ WF_vars(\E p \in Cpus : StartPollDpc(p))
  /\ WF_vars(\E p \in Cpus : StartNotifyDpc(p))
  /\ \A p \in Cpus : WF_vars(PollDpc(p)) /\ WF_vars(NotifyDpc(p))
  /\ \A x \in Contexts : WF_vars(PollStep(x))
  /\ \A c \in Clients :
       /\ WF_vars(ExchangeArmed(c)) /\ WF_vars(ProducerNotify(c))
       /\ WF_vars(Return(c)) /\ WF_vars(ClientNotify(c))
       /\ WF_vars(stage[c] \in {"switched", "stopping"} /\ Submit(c))
  /\ WF_vars(QueueAffinity) /\ WF_vars(DestroyQueues) /\ WF_vars(Destroyed)

Spec == Init /\ [][Next]_vars
FairSpec == Spec /\ Fairness
-----------------------------------------------------------------------------
(***************************************************************************)
(* Properties.                                                             *)
(***************************************************************************)
Frames == [armed : BOOLEAN, next : Nat \ {0}, work : BOOLEAN, dispatch : BOOLEAN]
AffinityValues == Affinities \cup {Original, Unset}

ScheduleType ==
  /\ state \in States /\ hasPollWork \in BOOLEAN /\ taskQueue \in Seq(Tasks)
  /\ workerRequested \in BOOLEAN /\ pollDpcQueued \in BOOLEAN
  /\ notifyDpcQueued \in BOOLEAN
  /\ pc \in [Contexts -> ThreadPoints \cup DpcPoints]
  /\ pc[WorkerThread] \in ThreadPoints
  /\ \A p \in Cpus : pc[p] \in DpcPoints

RunType ==
  /\ task \in Tasks \cup {NoTask} /\ terminate \in BOOLEAN
  /\ pc[WorkerThread] \in {"task", "taskRan"} => task \in Tasks
  /\ frame \in [Contexts -> Frames]
  /\ affinity \in [requested : AffinityValues, saved : AffinityValues,
                   current : AffinityValues]

ListType ==
  /\ pollList \in Seq(Clients) /\ notifications \subseteq Clients
  /\ enabled \in [Clients -> BOOLEAN] /\ armed \in [Clients -> BOOLEAN]
  /\ pollFn \in [Clients -> {"Started", "Stopping"}]

ClientType ==
  /\ stage \in [Clients -> Stages] /\ call \in [Clients -> Calls \cup {"none"}]
  /\ completed \in [Clients -> BOOLEAN]
  /\ readyToStop \in [Clients -> BOOLEAN]
  /\ work \in [Clients -> Nat] /\ \A c \in Clients : work[c] <= MaxWork[c]
  /\ producer \in [Clients -> {"idle", "enqueued", "notify"}]
  /\ affinityCaller \in {"idle", "queue"}
  /\ destroyer \in {"none", "affinity", "unregister", "terminate", "wait", "done"}

\* Every variable keeps its type; a DPC never is where only the worker thread
\* may be.
TypeOK == ScheduleType /\ RunType /\ ListType /\ ClientType

Running(x) == pc[x] \in RunPoints

\* Tasks and poll functions never run in two contexts at once: what the EC
\* promises to code that runs in it without a lock of its own.
Serialized ==
  \A x, y \in Contexts : Running(x) /\ Running(y) => x = y

\* m_state tells the truth: a waiting EC has exactly one wake-up on its way, a
\* running one a context that runs it, a stopped one neither.  This is what
\* the assertions of ChangeStateLockHeld rely on: none of them can fail.
WakeUpMatchesState ==
  /\ state = "Running" <=> \E x \in Contexts : Running(x)
  /\ state = "WaitingWorkerThread"
       <=> workerRequested \/ pc[WorkerThread] = "woken"
  /\ ~(workerRequested /\ pc[WorkerThread] = "woken")
  /\ state = "WaitingWorkerDpc"
       <=> pollDpcQueued \/ \E p \in Cpus : pc[p] = "pollDpc"
  /\ \A p, q \in Cpus : pc[p] = "pollDpc" /\ pc[q] = "pollDpc" => p = q
  /\ ~(pollDpcQueued /\ \E p \in Cpus : pc[p] = "pollDpc")

\* An EC stops only when it has neither tasks nor poll work: whoever added one
\* of them while it was running is not forgotten on its way out.
StoppedHasNoWork == state = "Stopped" => taskQueue = <<>> /\ ~hasPollWork

\* Once UnregisterPoll has returned nobody is in, or will enter, the client's
\* poll function, and once UnregisterNotification has, its notification is off:
\* the client may free both.
NothingAfterUnregister ==
  \A c \in Clients : call[c] = "none" =>
    /\ stage[c] \in {"destroyed", "created"} =>
         /\ c \notin Range(pollList)
         /\ \A x \in Contexts : ~InPollFn(x, c)
    /\ stage[c] = "destroyed" => c \notin notifications /\ ~armed[c]

\* The assertions of WorkerThreadRoutine and of the destructor: at the end
\* nothing is registered or queued and no wake-up is left that would find the
\* EC freed.
CleanTermination ==
  pc[WorkerThread] = "terminated" =>
    /\ pollList = <<>> /\ notifications = {} /\ taskQueue = <<>>
    /\ state = "Stopped" /\ ~workerRequested /\ ~pollDpcQueued

\* When the EC is idle the worker thread runs with the affinity that was set
\* last: a value set while the task is queued or running is not lost.
LastAffinityApplies ==
  /\ state = "Stopped" /\ affinityCaller = "idle" /\ destroyer = "none"
  /\ affinity.requested # Unset
  => affinity.current = affinity.requested

\* m_pollList and m_notificationList have no lock: PollClients walks the first
\* and EnableNotifications the second while no task can change them.
ListsStableWhilePolling ==
  [][(\E x \in Contexts : pc[x] \in PollPoints)
     => UNCHANGED <<pollList, notifications>>]_vars

\* A call that waits for its task returns, however busy the clients keep Poll,
\* and so does Destroy, which waits for the worker thread.
CallsReturn ==
  /\ \A c \in Clients : call[c] # "none" ~> call[c] = "none"
  /\ destroyer # "none" ~> destroyer = "done"

\* An item in the queue of a started client is polled, or the client is stopped, and
\* a cancelled queue gets the poll that lets Stop return.
ClientsAreServed ==
  \A c \in Clients :
    /\ stage[c] = "started" /\ work[c] > 0
         ~> stage[c] # "started" \/ destroyer # "none"
            \/ \E x \in Contexts : InPollFn(x, c)
    /\ stage[c] = "cancelled" ~> stage[c] = "created"
=============================================================================
