----------------------- MODULE ExecutionContext_proofs -----------------------
(***************************************************************************)
(* Theorems about ExecutionContext, for every set of clients, processors   *)
(* and affinities and every value of the runtime knobs.                    *)
(***************************************************************************)
EXTENDS ExecutionContext, ListLemmas

USE ContextAssumption, KnobAssumption

\* What the two operators of SequencesExt on a list do to its elements.
LEMMA InsertAtType ==
  ASSUME NEW S, NEW s \in Seq(S), NEW e \in S, NEW i \in 1 .. Len(s) + 1
  PROVE  InsertAt(s, i, e) \in Seq(S)
  BY SubSeqProperties, ConcatProperties DEF InsertAt

LEMMA RemoveAtType ==
  ASSUME NEW S, NEW s \in Seq(S), NEW i \in DOMAIN s
  PROVE  RemoveAt(s, i) \in Seq(S)
  BY SubSeqProperties, ConcatProperties, LenProperties DEF RemoveAt

-----------------------------------------------------------------------------
(***************************************************************************)
(* The control of the EC: m_state, the wake-ups and the places where the   *)
(* contexts are.  Its invariant needs nothing from the data.               *)
(***************************************************************************)
ControlInv ==
  ScheduleType /\ Serialized /\ WakeUpMatchesState /\ StoppedHasNoWork

controlVars == <<schedule, hasPollWork, taskQueue, notifyDpcQueued, pc>>

USE DEF Contexts, States, ThreadPoints, DpcPoints, RunPoints, PollPoints,
        TaskPoints

LEMMA InitControl == Init => ControlInv
  <1> SUFFICES ASSUME Init PROVE ControlInv
    OBVIOUS
  <1>1. ScheduleType
    <2>1. taskQueue \in Seq(Tasks)
      BY EmptySeq DEF Init
    <2>2. pc \in [Contexts -> ThreadPoints \cup DpcPoints]
      BY DEF Init
    <2> QED BY <2>1, <2>2 DEF Init, ScheduleType
  <1>2. Serialized /\ WakeUpMatchesState /\ StoppedHasNoWork
    BY DEF Init, Serialized, WakeUpMatchesState, StoppedHasNoWork, Running
  <1> QED BY <1>1, <1>2 DEF ControlInv

\* Nobody but x runs the EC, and no wake-up is on its way to anybody else.
Exclusive(x) ==
  /\ ~workerRequested /\ ~pollDpcQueued
  /\ \A y \in Contexts \ {x} :
       ~Running(y) /\ pc[y] # "woken" /\ pc[y] # "pollDpc"

LEMMA ExclusiveFacts ==
  ASSUME ControlInv, NEW x \in Contexts,
         \/ Running(x) \/ pc[x] = "woken" \/ pc[x] = "pollDpc"
         \/ state = "Stopped"
  PROVE  Exclusive(x)
  <1>1. CASE Running(x)
    BY <1>1 DEF ControlInv, ScheduleType, Serialized, WakeUpMatchesState, Running, Exclusive
  <1>2. CASE pc[x] = "woken"
    BY <1>2 DEF ControlInv, ScheduleType, WakeUpMatchesState, Running, Exclusive
  <1>3. CASE pc[x] = "pollDpc"
    BY <1>3 DEF ControlInv, ScheduleType, WakeUpMatchesState, Running, Exclusive
  <1>4. CASE state = "Stopped"
    BY <1>4 DEF ControlInv, ScheduleType, WakeUpMatchesState, Running, Exclusive
  <1> QED BY <1>1, <1>2, <1>3, <1>4

\* A context takes the EC, or goes on with it.
LEMMA EnterControl ==
  ASSUME ControlInv, NEW x \in Contexts, Exclusive(x),
         NEW point \in RunPoints, x # WorkerThread => point \in PollPoints,
         pc' = [pc EXCEPT ![x] = point], state' = "Running",
         UNCHANGED <<workerRequested, pollDpcQueued, notifyDpcQueued>>,
         hasPollWork' \in BOOLEAN, taskQueue' \in Seq(Tasks)
  PROVE  ControlInv'
  <1>1. ScheduleType'
    BY DEF ControlInv, ScheduleType
  <1>2. Serialized'
    BY DEF ControlInv, ScheduleType, Exclusive, Serialized, Running
  <1>3. WakeUpMatchesState'
    <2>1. \E y \in Contexts : Running(y)'
      BY DEF ControlInv, ScheduleType, Running
    <2>2. \A y \in Contexts : pc'[y] # "woken" /\ pc'[y] # "pollDpc"
      BY DEF ControlInv, ScheduleType, Exclusive
    <2> QED BY <2>1, <2>2 DEF WakeUpMatchesState, Exclusive
  <1>4. StoppedHasNoWork'
    BY DEF StoppedHasNoWork
  <1> QED BY <1>1, <1>2, <1>3, <1>4 DEF ControlInv

\* A context gives the EC up, to a wake-up it sends or to nobody.
LEMMA LeaveControl ==
  ASSUME ControlInv, NEW x \in Contexts, Exclusive(x), Leave(x),
         UNCHANGED <<taskQueue, notifyDpcQueued>>, hasPollWork' \in BOOLEAN,
         \/ QueueWorkerThread
         \/ QueueWorkerDpc
         \/ /\ state' = "Stopped" /\ taskQueue = <<>> /\ ~hasPollWork'
            /\ UNCHANGED <<workerRequested, pollDpcQueued>>
  PROVE  ControlInv'
  <1> DEFINE rest == IF x = WorkerThread THEN "returned" ELSE "idle"
  <1>0. /\ pc' = [pc EXCEPT ![x] = rest]
        /\ \A y \in Contexts : ~Running(y)' /\ pc'[y] # "woken" /\ pc'[y] # "pollDpc"
    BY DEF ControlInv, ScheduleType, Exclusive, Leave, Running
  <1>1. ScheduleType'
    BY <1>0 DEF ControlInv, ScheduleType, QueueWorkerThread, QueueWorkerDpc
  <1>2. Serialized'
    BY <1>0 DEF Serialized
  <1>3. WakeUpMatchesState'
    <2>1. CASE QueueWorkerThread
      BY <1>0, <2>1 DEF QueueWorkerThread, WakeUpMatchesState, Exclusive
    <2>2. CASE QueueWorkerDpc
      BY <1>0, <2>2 DEF QueueWorkerDpc, WakeUpMatchesState, Exclusive
    <2>3. CASE state' = "Stopped" /\ UNCHANGED <<workerRequested, pollDpcQueued>>
      BY <1>0, <2>3 DEF WakeUpMatchesState, Exclusive
    <2> QED BY <2>1, <2>2, <2>3
  <1>4. StoppedHasNoWork'
    BY DEF QueueWorkerThread, QueueWorkerDpc, StoppedHasNoWork
  <1> QED BY <1>1, <1>2, <1>3, <1>4 DEF ControlInv

LEMMA SettleControl ==
  ASSUME ControlInv, NEW x \in Contexts, Exclusive(x), Settle(x),
         UNCHANGED notifyDpcQueued
  PROVE  ControlInv'
  BY LeaveControl DEF Settle, QueueWorker, ControlInv, ScheduleType

LEMMA TakeTaskControl ==
  ASSUME ControlInv, Exclusive(WorkerThread), taskQueue # <<>>, TakeTask,
         UNCHANGED notifyDpcQueued
  PROVE  ControlInv'
  <1>1. taskQueue' \in Seq(Tasks)
    BY HeadTailProperties DEF ControlInv, ScheduleType, TakeTask
  <1> QED BY <1>1, EnterControl DEF TakeTask, ControlInv, ScheduleType

LEMMA RunPollWorkControl ==
  ASSUME ControlInv, NEW x \in Contexts, Exclusive(x), NEW w \in BOOLEAN,
         RunPollWork(x, w), UNCHANGED notifyDpcQueued
  PROVE  ControlInv'
  <1>1. CASE w
    BY <1>1, EnterControl DEF RunPollWork, ControlInv, ScheduleType
  <1>2. CASE ~w
    BY <1>2, SettleControl DEF RunPollWork
  <1> QED BY <1>1, <1>2

LEMMA RunLockHeldControl ==
  ASSUME ControlInv, NEW x \in Contexts, Exclusive(x), NEW w \in BOOLEAN,
         RunLockHeld(x, w), UNCHANGED notifyDpcQueued
  PROVE  ControlInv'
  <1>1. CASE taskQueue # <<>> /\ x # WorkerThread
    BY <1>1, LeaveControl DEF RunLockHeld, TakeTask
  <1>2. CASE taskQueue # <<>> /\ x = WorkerThread
    BY <1>2, TakeTaskControl DEF RunLockHeld
  <1>3. CASE taskQueue = <<>>
    BY <1>3, RunPollWorkControl DEF RunLockHeld
  <1> QED BY <1>1, <1>2, <1>3

\* Whoever adds a task or poll work to a stopped EC wakes it up.
LEMMA QueueTaskControl ==
  ASSUME ControlInv, NEW t \in Tasks, QueueTask(t),
         UNCHANGED <<hasPollWork, notifyDpcQueued, pc>>
  PROVE  ControlInv'
  <1>1. taskQueue' \in Seq(Tasks)
    BY AppendProperties DEF ControlInv, ScheduleType, QueueTask
  <1>2. CASE UNCHANGED <<taskQueue, schedule>>
    BY <1>2 DEF ControlInv, ScheduleType, Serialized, WakeUpMatchesState,
      StoppedHasNoWork, Running, schedule
  <1>3. CASE state = "Stopped" /\ QueueWorkerThread
    BY <1>1, <1>3 DEF QueueWorkerThread, ControlInv, ScheduleType, Serialized,
      WakeUpMatchesState, StoppedHasNoWork, Running
  <1>4. CASE state # "Stopped" /\ UNCHANGED schedule
    BY <1>1, <1>4 DEF ControlInv, ScheduleType, Serialized, WakeUpMatchesState,
      StoppedHasNoWork, Running, schedule
  <1> QED BY <1>2, <1>3, <1>4 DEF QueueTask

LEMMA NotifyControl ==
  ASSUME ControlInv, Notify, UNCHANGED <<taskQueue, pc>>, notifyDpcQueued' \in BOOLEAN
  PROVE  ControlInv'
  <1>1. CASE state # "Stopped" /\ UNCHANGED schedule
    BY <1>1 DEF Notify, ControlInv, ScheduleType, Serialized, WakeUpMatchesState,
      StoppedHasNoWork, Running, schedule
  <1>2. CASE state = "Stopped" /\ QueueWorkerThread
    BY <1>2 DEF Notify, QueueWorkerThread, ControlInv, ScheduleType, Serialized,
      WakeUpMatchesState, StoppedHasNoWork, Running
  <1>3. CASE state = "Stopped" /\ QueueWorkerDpc
    BY <1>3 DEF Notify, QueueWorkerDpc, ControlInv, ScheduleType, Serialized,
      WakeUpMatchesState, StoppedHasNoWork, Running
  <1> QED BY <1>1, <1>2, <1>3 DEF Notify, QueueWorker

LEMMA UnchangedControl ==
  ASSUME ControlInv, UNCHANGED controlVars
  PROVE  ControlInv'
  BY DEF ControlInv, ScheduleType, Serialized, WakeUpMatchesState,
    StoppedHasNoWork, Running, controlVars, schedule

\* The steps of the worker thread and of the DPCs, one by one.
LEMMA WorkerControl == ControlInv /\ WorkerStep => ControlInv'
  <1> SUFFICES ASSUME ControlInv, WorkerStep PROVE ControlInv'
    OBVIOUS
  <1>1. CASE WakeWorkerThread
    <2>1. state = "WaitingWorkerThread"
      BY <1>1 DEF WakeWorkerThread, ControlInv, WakeUpMatchesState
    <2> QED BY <1>1, <2>1 DEF WakeWorkerThread, ControlInv, ScheduleType, Serialized,
      WakeUpMatchesState, StoppedHasNoWork, Running
  <1>2. CASE RunWorkerThread
    BY <1>2, ExclusiveFacts, RunLockHeldControl
      DEF RunWorkerThread, ControlInv, ScheduleType
  <1>3. CASE RunTask
    <2>1. Running(WorkerThread)
      BY <1>3 DEF RunTask, Running
    <2>2. state = "Running"
      BY <2>1 DEF ControlInv, WakeUpMatchesState
    <2> QED BY <1>3, <2>1, <2>2, ExclusiveFacts, EnterControl
      DEF RunTask, ControlInv, ScheduleType, schedule
  <1>4. CASE SignalTask
    <2>1. Running(WorkerThread)
      BY <1>4 DEF SignalTask, Running
    <2>2. state = "Running"
      BY <2>1 DEF ControlInv, WakeUpMatchesState
    <2> QED BY <1>4, <2>1, <2>2, ExclusiveFacts, EnterControl
      DEF SignalTask, ControlInv, ScheduleType, schedule
  <1>5. CASE NextTask
    <2>1. Exclusive(WorkerThread)
      BY <1>5, ExclusiveFacts DEF NextTask, Running
    <2> QED BY <1>5, <2>1, TakeTaskControl, RunPollWorkControl
      DEF NextTask, ControlInv, ScheduleType
  <1>6. CASE EndWorkerLoop
    BY <1>6 DEF EndWorkerLoop, schedule, ControlInv, ScheduleType, Serialized,
      WakeUpMatchesState, StoppedHasNoWork, Running
  <1> QED BY <1>1, <1>2, <1>3, <1>4, <1>5, <1>6 DEF WorkerStep

LEMMA DpcControl ==
  ASSUME NEW p \in Cpus, ControlInv, DpcStep(p)
  PROVE  ControlInv'
  <1>1. CASE StartPollDpc(p)
    <2>1. state = "WaitingWorkerDpc" /\ \A q \in Cpus : pc[q] # "pollDpc"
      BY <1>1 DEF StartPollDpc, ControlInv, WakeUpMatchesState
    <2> QED BY <1>1, <2>1 DEF StartPollDpc, ControlInv, ScheduleType, Serialized,
      WakeUpMatchesState, StoppedHasNoWork, Running
  <1>2. CASE StartNotifyDpc(p)
    BY <1>2 DEF StartNotifyDpc, schedule, ControlInv, ScheduleType, Serialized,
      WakeUpMatchesState, StoppedHasNoWork, Running
  <1>3. CASE PollDpc(p)
    BY <1>3, ExclusiveFacts, RunLockHeldControl DEF PollDpc, ControlInv, ScheduleType
  <1>4. CASE NotifyDpc(p)
    <2>1. CASE state # "Stopped"
      <3>1. Leave(p) /\ UNCHANGED <<schedule, taskQueue, notifyDpcQueued>> /\ hasPollWork'
        BY <1>4, <2>1 DEF NotifyDpc
      <3>2. pc[p] = "notifyDpc" /\ pc' = [pc EXCEPT ![p] = "idle"]
        BY <1>4, <3>1 DEF NotifyDpc, Leave
      <3> QED BY <2>1, <3>1, <3>2 DEF schedule, ControlInv, ScheduleType, Serialized,
        WakeUpMatchesState, StoppedHasNoWork, Running
    <2>2. CASE state = "Stopped"
      <3>1. Exclusive(p)
        BY <2>2, ExclusiveFacts
      <3>2. CASE RunLockHeld(p, TRUE)
        BY <1>4, <3>1, <3>2, RunLockHeldControl DEF NotifyDpc
      <3>3. CASE QueueWorkerThread /\ hasPollWork' /\ Leave(p) /\ UNCHANGED taskQueue
        BY <1>4, <3>1, <3>3, LeaveControl DEF NotifyDpc
      <3> QED BY <1>4, <2>2, <3>2, <3>3 DEF NotifyDpc
    <2> QED BY <2>1, <2>2
  <1> QED BY <1>1, <1>2, <1>3, <1>4 DEF DpcStep

LEMMA PollControl ==
  ASSUME NEW x \in Contexts, ControlInv, PollStep(x)
  PROVE  ControlInv'
  <1>0. pc[x] \in PollPoints
    BY DEF PollStep, StartPoll, PollClient, InPollFn, EndRound, CheckTasks,
      ExitPollEarly, ExitPollIdle
  <1>1. Exclusive(x) /\ state = "Running"
    BY <1>0, ExclusiveFacts DEF Running, ControlInv, WakeUpMatchesState
  <1>2. CASE StartPoll(x)
    BY <1>1, <1>2, EnterControl DEF StartPoll, schedule, ControlInv, ScheduleType
  <1>3. CASE \E c \in Clients : PollClient(x, c)
    BY <1>3, UnchangedControl DEF PollClient, controlVars
  <1>4. CASE EndRound(x)
    <2>1. PICK point \in {"checkTasks", "exitIdle"} : pc' = [pc EXCEPT ![x] = point]
      BY <1>4 DEF EndRound, NewRound
    <2> QED BY <1>1, <1>4, <2>1, EnterControl
      DEF EndRound, schedule, ControlInv, ScheduleType
  <1>5. CASE CheckTasks(x)
    <2>1. PICK point \in {"exitEarly", "poll"} : pc' = [pc EXCEPT ![x] = point]
      BY <1>5 DEF CheckTasks
    <2> QED BY <1>1, <1>5, <2>1, EnterControl
      DEF CheckTasks, schedule, ControlInv, ScheduleType
  <1>6. CASE ExitPollEarly(x)
    BY <1>1, <1>6, LeaveControl DEF ExitPollEarly
  <1>7. CASE ExitPollIdle(x)
    BY <1>1, <1>7, SettleControl DEF ExitPollIdle
  <1> QED BY <1>2, <1>3, <1>4, <1>5, <1>6, <1>7 DEF PollStep

LEMMA EnvironmentControl ==
  ASSUME ControlInv,
         \/ \E c \in Clients : ProducerStep(c) \/ ClientStep(c)
         \/ AffinityStep \/ DestroyStep
  PROVE  ControlInv'
  <1>1. ASSUME NEW c \in Clients, ProducerStep(c) PROVE ControlInv'
    <2>1. CASE Produce(c) \/ ExchangeArmed(c)
      BY <2>1, UnchangedControl DEF Produce, ExchangeArmed, controlVars
    <2>2. CASE ProducerNotify(c)
      <3>1. CASE Notify /\ UNCHANGED notifyDpcQueued
        BY <2>2, <3>1, NotifyControl DEF ProducerNotify, ControlInv, ScheduleType
      <3>2. CASE notifyDpcQueued' = TRUE /\ UNCHANGED <<schedule, hasPollWork>>
        BY <2>2, <3>2 DEF ProducerNotify, schedule, ControlInv, ScheduleType,
          Serialized, WakeUpMatchesState, StoppedHasNoWork, Running
      <3> QED BY <2>2, <3>1, <3>2 DEF ProducerNotify
    <2> QED BY <1>1, <2>1, <2>2 DEF ProducerStep
  <1>2. ASSUME NEW c \in Clients, ClientStep(c) PROVE ControlInv'
    <2>1. CASE Submit(c)
      BY <2>1, QueueTaskControl DEF Submit, Tasks
    <2>2. CASE Return(c)
      BY <2>2, UnchangedControl DEF Return, controlVars
    <2>3. CASE ClientNotify(c)
      BY <2>3, NotifyControl DEF ClientNotify, ControlInv, ScheduleType
    <2> QED BY <1>2, <2>1, <2>2, <2>3 DEF ClientStep
  <1>3. CASE AffinityStep
    <2>1. ASSUME NEW a \in Affinities, SetAffinity(a) PROVE ControlInv'
      BY <2>1, UnchangedControl DEF SetAffinity, controlVars
    <2>2. CASE QueueAffinity
      BY <2>2, QueueTaskControl DEF QueueAffinity, Tasks
    <2> QED BY <1>3, <2>1, <2>2 DEF AffinityStep
  <1>4. CASE DestroyStep
    <2>1. CASE Destroy \/ Destroyed \/ Gone
      BY <2>1, UnchangedControl DEF Destroy, Destroyed, Gone, controlVars, vars
    <2>2. CASE DestroyQueues
      <3>1. PICK t \in Tasks : QueueTask(t)
        BY <2>2 DEF DestroyQueues, DestroyQueuesTask, Tasks
      <3> QED BY <2>2, <3>1, QueueTaskControl DEF DestroyQueues, DestroyQueuesTask
    <2> QED BY <1>4, <2>1, <2>2 DEF DestroyStep
  <1> QED BY <1>1, <1>2, <1>3, <1>4

LEMMA NextControl == ControlInv /\ [Next]_vars => ControlInv'
  <1> SUFFICES ASSUME ControlInv, [Next]_vars PROVE ControlInv'
    OBVIOUS
  <1>1. CASE UNCHANGED vars
    BY <1>1, UnchangedControl DEF vars, controlVars
  <1>2. CASE Next
    BY <1>2, WorkerControl, DpcControl, PollControl, EnvironmentControl DEF Next
  <1> QED BY <1>1, <1>2

-----------------------------------------------------------------------------
(***************************************************************************)
(* The data: types of the remaining variables.                             *)
(***************************************************************************)
USE DEF Calls, Stages, AffinityValues, Frames, IdleFrame

dataVars == <<pc, frame, lists, workerVars, clientVars, completed, trafficVars,
              callerVars>>
DataType == RunType /\ ListType /\ ClientType

LEMMA InitData == Init => DataType
  <1> SUFFICES ASSUME Init PROVE DataType
    OBVIOUS
  <1>1. RunType
    <2>1. frame \in [Contexts -> Frames]
      BY DEF Init
    <2> QED BY <2>1 DEF Init, RunType
  <1>2. ListType
    BY EmptySeq DEF Init, ListType
  <1>3. ClientType
    BY BoundAssumption DEF Init, ClientType
  <1> QED BY <1>1, <1>2, <1>3 DEF DataType

LEMMA UnchangedData ==
  ASSUME DataType, UNCHANGED <<frame, lists, workerVars, clientVars, completed,
                               trafficVars, callerVars>>,
         \/ UNCHANGED pc
         \/ pc'[WorkerThread] \notin {"task", "taskRan"}
  PROVE  DataType'
  <1>1. RunType'
    BY DEF DataType, RunType, workerVars
  <1>2. ListType'
    BY DEF DataType, ListType, lists
  <1>3. ClientType'
    BY DEF DataType, ClientType, clientVars, trafficVars, callerVars
  <1> QED BY <1>1, <1>2, <1>3 DEF DataType

LEMMA RunLockHeldRunType ==
  ASSUME ScheduleType, RunType, NEW x \in Contexts, NEW w \in BOOLEAN,
         pc[WorkerThread] # "task", pc[WorkerThread] # "taskRan",
         \/ RunLockHeld(x, w)
         \/ TakeTask /\ taskQueue # <<>>
         \/ RunPollWork(x, w) /\ UNCHANGED task
         \/ Settle(x) /\ UNCHANGED task
         \/ Leave(x) /\ UNCHANGED task,
         UNCHANGED <<terminate, affinity>>
  PROVE  RunType'
  <1>1. CASE TakeTask /\ taskQueue # <<>>
    <2>1. task' \in Tasks
      BY <1>1, HeadTailProperties DEF TakeTask, ScheduleType
    <2> QED BY <1>1, <2>1 DEF TakeTask, RunType
  <1>2. CASE Leave(x) /\ UNCHANGED task
    BY <1>2 DEF Leave, RunType, ScheduleType
  <1>3. CASE RunPollWork(x, w) /\ UNCHANGED task
    <2>1. CASE w
      BY <1>3, <2>1 DEF RunPollWork, RunType, ScheduleType
    <2>2. CASE ~w
      BY <1>2, <1>3, <2>2 DEF RunPollWork, Settle
    <2> QED BY <2>1, <2>2
  <1> QED BY <1>1, <1>2, <1>3 DEF RunLockHeld, Settle

LEMMA RunTaskData == ControlInv /\ DataType /\ RunTask => DataType'
  <1> SUFFICES ASSUME ControlInv, DataType, RunTask PROVE DataType'
    OBVIOUS
  <1>1. RunType'
    <2>1. affinity' \in [requested : AffinityValues, saved : AffinityValues,
                         current : AffinityValues]
      BY DEF RunTask, DataType, RunType, ApplyAffinity
    <2>2. terminate' \in BOOLEAN
      BY DEF RunTask, DataType, RunType
    <2> QED BY <2>1, <2>2 DEF RunTask, DataType, RunType, ControlInv, ScheduleType
  <1>2. ListType'
    <2>1. ASSUME NEW c \in Clients, RunClientTask(c) PROVE ListType'
      <3>1. CASE UNCHANGED pollList
        BY <2>1, <3>1 DEF RunClientTask, Disable, DataType, ListType, lists
      <3>2. CASE InsertsPoll(c)
        <4>1. pollList' \in Seq(Clients)
          BY <3>2, InsertAtType DEF InsertsPoll, DataType, ListType
        <4> QED BY <2>1, <4>1 DEF RunClientTask, Disable, DataType, ListType, lists
      <3>3. CASE RemovesPoll(c)
        <4>1. pollList' \in Seq(Clients)
          BY <3>3, RemoveAtType DEF RemovesPoll, DataType, ListType
        <4> QED BY <2>1, <4>1 DEF RunClientTask, Disable, DataType, ListType, lists
      <3> QED BY <2>1, <3>1, <3>2, <3>3 DEF RunClientTask, lists
    <2>2. CASE UnregisterEverything
      BY <2>2, EmptySeq DEF UnregisterEverything, Disable, DataType, ListType
    <2>3. CASE UNCHANGED lists
      BY <2>3 DEF lists, DataType, ListType
    <2> QED BY <2>1, <2>2, <2>3 DEF RunTask
  <1>3. ClientType'
    BY DEF RunTask, DataType, ClientType, clientVars, trafficVars, callerVars
  <1> QED BY <1>1, <1>2, <1>3 DEF DataType

LEMMA WorkerData == ControlInv /\ DataType /\ WorkerStep => DataType'
  <1> SUFFICES ASSUME ControlInv, DataType, WorkerStep PROVE DataType'
    OBVIOUS
  <1>1. CASE WakeWorkerThread \/ EndWorkerLoop
    BY <1>1, UnchangedData DEF WakeWorkerThread, EndWorkerLoop, ControlInv, ScheduleType
  <1>2. CASE RunWorkerThread \/ NextTask
    <2>1. RunType'
      BY <1>2, RunLockHeldRunType
        DEF RunWorkerThread, NextTask, ControlInv, ScheduleType, DataType
    <2>2. ListType' /\ ClientType'
      BY <1>2 DEF RunWorkerThread, NextTask, DataType, ListType, ClientType, lists,
        clientVars, trafficVars, callerVars
    <2> QED BY <2>1, <2>2 DEF DataType
  <1>3. CASE SignalTask
    <2>1. RunType'
      BY <1>3 DEF SignalTask, DataType, RunType, ControlInv, ScheduleType
    <2>2. ListType' /\ ClientType'
      BY <1>3 DEF SignalTask, DataType, ListType, ClientType, lists, clientVars,
        trafficVars, callerVars
    <2> QED BY <2>1, <2>2 DEF DataType
  <1> QED BY <1>1, <1>2, <1>3, RunTaskData DEF WorkerStep

LEMMA DpcData ==
  ASSUME NEW p \in Cpus, ControlInv, DataType, DpcStep(p)
  PROVE  DataType'
  <1>1. CASE StartPollDpc(p) \/ StartNotifyDpc(p)
    <2>1. pc'[WorkerThread] = pc[WorkerThread]
      BY <1>1 DEF StartPollDpc, StartNotifyDpc, ControlInv, ScheduleType
    <2>2. RunType'
      BY <1>1, <2>1 DEF StartPollDpc, StartNotifyDpc, DataType, RunType, workerVars
    <2>3. ListType' /\ ClientType'
      BY <1>1 DEF StartPollDpc, StartNotifyDpc, DataType, ListType, ClientType, lists,
        clientVars, trafficVars, callerVars
    <2> QED BY <2>2, <2>3 DEF DataType
  <1>2. CASE PollDpc(p) \/ NotifyDpc(p)
    <2>1. UNCHANGED <<terminate, affinity, lists, clientVars, completed,
                      trafficVars, callerVars>>
      BY <1>2 DEF PollDpc, NotifyDpc
    <2>2. RunType'
      <3>1. CASE Leave(p) /\ UNCHANGED task
        <4>1. pc'[WorkerThread] = pc[WorkerThread] /\ frame' \in [Contexts -> Frames]
          BY <3>1 DEF Leave, ControlInv, ScheduleType, DataType, RunType
        <4> QED BY <2>1, <3>1, <4>1 DEF DataType, RunType
      <3>2. ASSUME NEW w \in BOOLEAN, RunLockHeld(p, w),
                   state = "Stopped" \/ pc[p] = "pollDpc"
            PROVE  RunType'
        <4>1. Exclusive(p)
          BY <3>2, ExclusiveFacts
        <4>2. pc[WorkerThread] # "task" /\ pc[WorkerThread] # "taskRan"
          BY <4>1 DEF Exclusive, Running
        <4> QED BY <2>1, <3>2, <4>2, RunLockHeldRunType DEF ControlInv, DataType
      <3> QED BY <1>2, <3>1, <3>2 DEF PollDpc, NotifyDpc, ControlInv, ScheduleType
    <2>3. ListType' /\ ClientType'
      BY <2>1 DEF DataType, ListType, ClientType, lists, clientVars, trafficVars,
        callerVars
    <2> QED BY <2>2, <2>3 DEF DataType
  <1> QED BY <1>1, <1>2 DEF DpcStep

\* The frames of Poll keep their type, whichever of their fields a step changes.
LEMMA FieldType ==
  ASSUME NEW f \in Frames, NEW n \in Nat \ {0}, NEW v \in BOOLEAN
  PROVE  /\ [f EXCEPT !.next = n] \in Frames
         /\ [f EXCEPT !.work = v] \in Frames
         /\ [f EXCEPT !.armed = v] \in Frames
  BY Zenon DEF Frames

LEMMA FrameType ==
  ASSUME NEW f \in Frames, NEW n \in Nat \ {0}, NEW w \in BOOLEAN
  PROVE  [f EXCEPT !.next = n, !.work = w] \in Frames
  <1>1. [[f EXCEPT !.next = n] EXCEPT !.work = w] \in Frames
    BY FieldType, Zenon
  <1> QED BY <1>1, Zenon

LEMMA NewRoundFrame ==
  ASSUME NEW f \in Frames, NEW isArmed \in BOOLEAN
  PROVE  [f EXCEPT !.armed = isArmed, !.next = 1, !.work = FALSE] \in Frames
  <1>1. 1 \in Nat \ {0} /\ FALSE \in BOOLEAN
    OBVIOUS
  <1>2. [[f EXCEPT !.armed = isArmed] EXCEPT !.next = 1] \in Frames
    BY <1>1, FieldType, Zenon
  <1>3. [[[f EXCEPT !.armed = isArmed] EXCEPT !.next = 1] EXCEPT !.work = FALSE] \in Frames
    BY <1>1, <1>2, FieldType, Zenon
  <1> QED BY <1>3, Zenon

LEMMA PollData ==
  ASSUME NEW x \in Contexts, ControlInv, DataType, PollStep(x)
  PROVE  DataType'
  <1>0. pc[x] \in PollPoints
    BY DEF PollStep, StartPoll, PollClient, InPollFn, EndRound, CheckTasks,
      ExitPollEarly, ExitPollIdle
  <1>1. pc[WorkerThread] # "task" /\ pc[WorkerThread] # "taskRan"
    BY <1>0, ExclusiveFacts DEF Running, Exclusive
  <1>2. CASE StartPoll(x)
    <2>1. PICK dispatch \in BOOLEAN :
            frame' = [frame EXCEPT ![x] = [IdleFrame EXCEPT !.dispatch = dispatch]]
      BY <1>2, KnobAssumption DEF StartPoll
    <2>2. [IdleFrame EXCEPT !.dispatch = dispatch] \in Frames
      <3>1. IdleFrame \in Frames
        BY DEF IdleFrame, Frames
      <3> QED BY <3>1, Zenon DEF Frames
    <2>3. frame' \in [Contexts -> Frames]
      BY <2>1, <2>2 DEF DataType, RunType
    <2>4. RunType'
      BY <1>1, <1>2, <2>3 DEF StartPoll, workerVars, DataType, RunType, ControlInv,
        ScheduleType
    <2>5. ListType' /\ ClientType'
      BY <1>2 DEF StartPoll, Disable, DataType, ListType, ClientType, clientVars,
        trafficVars, callerVars
    <2> QED BY <2>4, <2>5 DEF DataType
  <1>3. ASSUME NEW c \in Clients, PollClient(x, c) PROVE DataType'
    <2>1. PICK done \in 0 .. work[c], stale \in BOOLEAN :
            /\ work' = [work EXCEPT ![c] = work[c] - done]
            /\ frame' = [frame EXCEPT ![x].next = frame[x].next + 1,
                                 ![x].work = frame[x].work \/ done > 0 \/ stale]
      BY <1>3 DEF PollClient
    <2> DEFINE n == frame[x].next + 1
    <2> DEFINE w == frame[x].work \/ done > 0 \/ stale
    <2>2. frame[x] \in Frames /\ n \in Nat \ {0} /\ w \in BOOLEAN
      BY DEF DataType, RunType, Frames
    <2>3. frame' \in [Contexts -> Frames]
      <3>1. frame' = [frame EXCEPT ![x] = [frame[x] EXCEPT !.next = n, !.work = w]]
        BY <2>1, Zenon
      <3> HIDE DEF n, w
      <3>2. [frame[x] EXCEPT !.next = n, !.work = w] \in Frames
        BY <2>2, FrameType, Zenon
      <3> QED BY <3>1, <3>2 DEF DataType, RunType
    <2>4. work' \in [Clients -> Nat] /\ \A d \in Clients : work'[d] <= MaxWork[d]
      <3>1. work[c] - done \in Nat /\ work[c] - done <= MaxWork[c]
        BY BoundAssumption DEF DataType, ClientType
      <3> QED BY <2>1, <3>1 DEF DataType, ClientType
    <2>5. RunType'
      BY <1>3, <2>3 DEF PollClient, workerVars, DataType, RunType
    <2>6. readyToStop' \in [Clients -> BOOLEAN]
      BY <1>3 DEF PollClient, DataType, ClientType
    <2>7. ListType' /\ ClientType'
      BY <1>3, <2>4, <2>6 DEF PollClient, DataType, ListType, ClientType, lists,
        callerVars
    <2> QED BY <2>5, <2>7 DEF DataType
  <1>4. CASE EndRound(x)
    <2>1. PICK b \in BOOLEAN, point \in {"checkTasks", "exitIdle"} :
            NewRound(x, b, point)
      BY <1>4 DEF EndRound
    <2>2. frame' \in [Contexts -> Frames] /\ pc'[WorkerThread] # "task"
          /\ pc'[WorkerThread] # "taskRan"
      <3>1. frame' = [frame EXCEPT ![x] =
                        [frame[x] EXCEPT !.armed = b, !.next = 1, !.work = FALSE]]
        BY <2>1, Zenon DEF NewRound
      <3>2. frame[x] \in Frames
        BY DEF DataType, RunType
      <3>3. [frame[x] EXCEPT !.armed = b, !.next = 1, !.work = FALSE] \in Frames
        BY <3>2, NewRoundFrame, Zenon
      <3>4. frame' \in [Contexts -> Frames]
        BY <3>1, <3>3 DEF DataType, RunType
      <3>5. pc'[WorkerThread] \notin {"task", "taskRan"}
        BY <1>1, <2>1 DEF NewRound, ControlInv, ScheduleType
      <3> QED BY <3>4, <3>5
    <2>3. RunType'
      BY <1>4, <2>2 DEF EndRound, workerVars, DataType, RunType
    <2>4. enabled' \in [Clients -> BOOLEAN] /\ armed' \in [Clients -> BOOLEAN]
      BY <1>4 DEF EndRound, EnableNotifications, Disable, DataType, ListType
    <2>5. ListType' /\ ClientType'
      BY <1>4, <2>4 DEF EndRound, DataType, ListType, ClientType, clientVars,
        trafficVars, callerVars
    <2> QED BY <2>3, <2>5 DEF DataType
  <1>5. CASE CheckTasks(x)
    <2>1. pc'[WorkerThread] \notin {"task", "taskRan"}
      BY <1>1, <1>5 DEF CheckTasks, ControlInv, ScheduleType
    <2> QED BY <1>5, <2>1, UnchangedData DEF CheckTasks
  <1>6. CASE ExitPollEarly(x) \/ ExitPollIdle(x)
    <2>1. RunType'
      BY <1>1, <1>6, RunLockHeldRunType DEF ExitPollEarly, ExitPollIdle, workerVars,
        ControlInv, DataType
    <2>2. ListType' /\ ClientType'
      BY <1>6 DEF ExitPollEarly, ExitPollIdle, DataType, ListType, ClientType, lists,
        clientVars, trafficVars, callerVars
    <2> QED BY <2>1, <2>2 DEF DataType
  <1> QED BY <1>2, <1>3, <1>4, <1>5, <1>6 DEF PollStep

LEMMA TrafficData ==
  ASSUME NEW c \in Clients, DataType, ProducerStep(c) \/ ClientStep(c)
  PROVE  DataType'
  <1>1. RunType'
    BY DEF ProducerStep, ClientStep, Produce, ExchangeArmed, ProducerNotify, Submit,
      Return, ClientNotify, workerVars, DataType, RunType
  <1>2. ListType'
    BY DEF ProducerStep, ClientStep, Produce, ExchangeArmed, ProducerNotify, Submit,
      Return, ClientNotify, lists, DataType, ListType
  <1>3. ClientType'
    <2>1. CASE Produce(c)
      <3>1. work[c] + 1 \in Nat /\ work[c] + 1 <= MaxWork[c]
        <4>1. work[c] \in Nat /\ MaxWork[c] \in Nat
          BY BoundAssumption DEF DataType, ClientType
        <4>2. work[c] < MaxWork[c]
          BY <2>1 DEF Produce
        <4> QED BY <4>1, <4>2
      <3>2. work' \in [Clients -> Nat] /\ \A d \in Clients : work'[d] <= MaxWork[d]
        BY <2>1, <3>1 DEF Produce, DataType, ClientType
      <3>3. producer' \in [Clients -> {"idle", "enqueued", "notify"}]
        BY <2>1 DEF Produce, DataType, ClientType
      <3> QED BY <2>1, <3>2, <3>3 DEF Produce, clientVars, callerVars, DataType,
        ClientType
    <2>2. CASE ExchangeArmed(c) \/ ProducerNotify(c)
      BY <2>2 DEF ExchangeArmed, ProducerNotify, clientVars, callerVars, DataType,
        ClientType
    <2>3. CASE Submit(c)
      <3>1. call' \in [Clients -> Calls \cup {"none"}]
        BY <2>3 DEF Submit, CallsAt, DataType, ClientType
      <3> QED BY <2>3, <3>1 DEF Submit, trafficVars, callerVars, DataType, ClientType
    <2>4. CASE Return(c)
      <3>1. StageAfter[call[c]] \in Stages
        BY <2>4 DEF Return, StageAfter, DataType, ClientType
      <3> QED BY <2>4, <3>1 DEF Return, trafficVars, callerVars, DataType, ClientType
    <2>5. CASE ClientNotify(c)
      BY <2>5 DEF ClientNotify, trafficVars, callerVars, DataType, ClientType
    <2> QED BY <2>1, <2>2, <2>3, <2>4, <2>5 DEF ProducerStep, ClientStep
  <1> QED BY <1>1, <1>2, <1>3 DEF DataType

LEMMA CallerData == DataType /\ (AffinityStep \/ DestroyStep) => DataType'
  <1> SUFFICES ASSUME DataType, AffinityStep \/ DestroyStep PROVE DataType'
    OBVIOUS
  <1>1. affinity' \in [requested : AffinityValues, saved : AffinityValues,
                       current : AffinityValues]
    BY DEF AffinityStep, SetAffinity, QueueAffinity, DestroyStep, Destroy,
      DestroyQueues, DestroyQueuesTask, Destroyed, Gone, vars, workerVars, DataType,
      RunType
  <1>2. RunType'
    BY <1>1 DEF AffinityStep, SetAffinity, QueueAffinity, DestroyStep, Destroy,
      DestroyQueues, DestroyQueuesTask, Destroyed, Gone, vars, workerVars, DataType,
      RunType
  <1>3. ListType'
    BY DEF AffinityStep, SetAffinity, QueueAffinity, DestroyStep, Destroy,
      DestroyQueues, DestroyQueuesTask, Destroyed, Gone, vars, lists, DataType,
      ListType
  <1>4. ClientType'
    BY DEF AffinityStep, SetAffinity, QueueAffinity, DestroyStep, Destroy,
      DestroyQueues, DestroyQueuesTask, Destroyed, Gone, vars, clientVars,
      trafficVars, callerVars, DataType, ClientType
  <1> QED BY <1>2, <1>3, <1>4 DEF DataType

LEMMA NextData == ControlInv /\ DataType /\ [Next]_vars => DataType'
  <1> SUFFICES ASSUME ControlInv, DataType, [Next]_vars PROVE DataType'
    OBVIOUS
  <1>1. CASE UNCHANGED vars
    BY <1>1, UnchangedData DEF vars
  <1>2. CASE Next
    BY <1>2, WorkerData, DpcData, PollData, TrafficData, CallerData DEF Next
  <1> QED BY <1>1, <1>2

-----------------------------------------------------------------------------
\* The control invariant holds of every behaviour of the EC.
THEOREM ControlInvariant == Spec => []ControlInv
  <1> QED BY InitControl, NextControl, PTL DEF Spec

\* Every variable keeps its type.
THEOREM TypeCorrect == Spec => []TypeOK
  <1>1. ControlInv /\ DataType => TypeOK
    BY DEF ControlInv, DataType, TypeOK
  <1> QED BY <1>1, InitData, NextData, ControlInvariant, PTL DEF Spec

\* Tasks and poll functions never run in two contexts at once.
THEOREM SerializedAlways == Spec => []Serialized
  <1>1. ControlInv => Serialized
    BY DEF ControlInv
  <1> QED BY <1>1, ControlInvariant, PTL

\* A waiting EC has one wake-up on its way, a running one a context, a stopped
\* one neither: no assertion of ChangeStateLockHeld can fail.
THEOREM WakeUpMatchesStateAlways == Spec => []WakeUpMatchesState
  <1>1. ControlInv => WakeUpMatchesState
    BY DEF ControlInv
  <1> QED BY <1>1, ControlInvariant, PTL

\* An EC that stops forgets no task and no poll work.
THEOREM StoppedHasNoWorkAlways == Spec => []StoppedHasNoWork
  <1>1. ControlInv => StoppedHasNoWork
    BY DEF ControlInv
  <1> QED BY <1>1, ControlInvariant, PTL

\* Nobody changes the lists, which have no lock, while Poll walks them.
THEOREM ListsStableAlways == Spec => ListsStableWhilePolling
  <1> DEFINE Stable == (\E x \in Contexts : pc[x] \in PollPoints)
                         => UNCHANGED <<pollList, notifications>>
  <1>1. ASSUME ControlInv, [Next]_vars PROVE [Stable]_vars
    <2>1. CASE RunTask
      <3>1. ~ \E x \in Contexts : pc[x] \in PollPoints
        BY <1>1, <2>1 DEF RunTask, ControlInv, Serialized, Running
      <3> QED BY <3>1
    <2>2. CASE WorkerStep /\ ~RunTask
      BY <2>2 DEF WorkerStep, WakeWorkerThread, RunWorkerThread, SignalTask, NextTask,
        EndWorkerLoop, lists
    <2>3. CASE \E p \in Cpus : DpcStep(p)
      BY <2>3 DEF DpcStep, StartPollDpc, StartNotifyDpc, PollDpc, NotifyDpc, lists
    <2>4. CASE \E x \in Contexts : PollStep(x)
      BY <2>4 DEF PollStep, StartPoll, PollClient, EndRound, CheckTasks, ExitPollEarly,
        ExitPollIdle, lists
    <2>5. CASE \E c \in Clients : ProducerStep(c) \/ ClientStep(c)
      BY <2>5 DEF ProducerStep, ClientStep, Produce, ExchangeArmed, ProducerNotify,
        Submit, Return, ClientNotify, lists
    <2>6. CASE AffinityStep \/ DestroyStep
      BY <2>6 DEF AffinityStep, SetAffinity, QueueAffinity, DestroyStep, Destroy,
        DestroyQueues, DestroyQueuesTask, Destroyed, Gone, lists, vars
    <2>7. CASE UNCHANGED vars
      BY <2>7
    <2> QED BY <1>1, <2>1, <2>2, <2>3, <2>4, <2>5, <2>6, <2>7 DEF Next
  <1> QED BY <1>1, ControlInvariant, PTL DEF Spec, ListsStableWhilePolling
-----------------------------------------------------------------------------
(***************************************************************************)
(* What the EC owes its clients: one that has unregistered is left alone,  *)
(* the affinity set last applies, and a terminated EC is empty.            *)
(***************************************************************************)
HIDE KnobAssumption
HIDE DEF States, Calls, Stages, AffinityValues, Frames, IdleFrame

(***************************************************************************)
(* A task is pending from the time it is queued until its function has run.*)
(***************************************************************************)
OnDuty(t)  == pc[WorkerThread] = "task" /\ task = t
Pending(t) == t \in Range(taskQueue) \/ OnDuty(t)

\* The worker thread has taken a task and has not signalled its end.
Busy == pc[WorkerThread] \in {"task", "taskRan"}

\* The steps that change none of this.
Elsewhere ==
  /\ UNCHANGED <<taskQueue, task>>
  /\ \/ UNCHANGED pc
     \/ pc'[WorkerThread] = pc[WorkerThread]
     \/ ~Busy /\ pc'[WorkerThread] \notin {"task", "taskRan"}

Takes == TakeTask /\ taskQueue # <<>> /\ ~Busy

LEMMA RunLockHeldShape ==
  ASSUME ScheduleType, NEW x \in Contexts, NEW w \in BOOLEAN,
         x = WorkerThread => ~Busy,
         \/ RunLockHeld(x, w)
         \/ RunPollWork(x, w) /\ UNCHANGED task
         \/ Settle(x) /\ UNCHANGED task
         \/ Leave(x) /\ UNCHANGED <<taskQueue, task>>
  PROVE  Elsewhere \/ (Takes /\ x = WorkerThread)
  <1>1. CASE Leave(x) /\ UNCHANGED <<taskQueue, task>>
    BY <1>1 DEF Leave, Elsewhere, Busy, ScheduleType
  <1>2. CASE Settle(x) /\ UNCHANGED task
    BY <1>1, <1>2 DEF Settle
  <1>3. CASE RunPollWork(x, w) /\ UNCHANGED task
    <2>1. CASE w
      BY <1>3, <2>1 DEF RunPollWork, Elsewhere, Busy, ScheduleType
    <2> QED BY <1>2, <1>3, <2>1 DEF RunPollWork
  <1>4. CASE RunLockHeld(x, w)
    BY <1>1, <1>3, <1>4 DEF RunLockHeld, Takes
  <1> QED BY <1>1, <1>2, <1>3, <1>4

LEMMA StepShape ==
  ASSUME ScheduleType, Next
  PROVE  \/ Elsewhere \/ Takes \/ RunTask \/ SignalTask
         \/ UNCHANGED <<pc, task>> /\ \E t \in Tasks : QueueTask(t)
  <1>1. CASE WorkerStep
    <2>1. CASE WakeWorkerThread \/ EndWorkerLoop
      BY <2>1 DEF WakeWorkerThread, EndWorkerLoop, Elsewhere, Busy, workerVars,
        ScheduleType
    <2>2. CASE RunWorkerThread \/ NextTask
      <3>1. ~Busy /\ hasPollWork \in BOOLEAN
        BY <2>2 DEF RunWorkerThread, NextTask, Busy, ScheduleType
      <3>2. CASE TakeTask /\ taskQueue # <<>>
        BY <3>1, <3>2 DEF Takes
      <3> QED BY <2>2, <3>1, <3>2, RunLockHeldShape DEF RunWorkerThread, NextTask
    <2> QED BY <1>1, <2>1, <2>2 DEF WorkerStep
  <1>2. ASSUME NEW p \in Cpus, DpcStep(p) PROVE Elsewhere
    <2>1. CASE StartPollDpc(p) \/ StartNotifyDpc(p)
      BY <2>1 DEF StartPollDpc, StartNotifyDpc, Elsewhere, workerVars, ScheduleType
    <2>2. CASE PollDpc(p) \/ NotifyDpc(p)
      BY <2>2, RunLockHeldShape DEF PollDpc, NotifyDpc, ScheduleType
    <2> QED BY <1>2, <2>1, <2>2 DEF DpcStep
  <1>3. ASSUME NEW x \in Contexts, PollStep(x) PROVE Elsewhere
    <2>1. CASE \E c \in Clients : PollClient(x, c)
      BY <2>1 DEF PollClient, workerVars, Elsewhere
    <2>2. CASE StartPoll(x) \/ EndRound(x) \/ CheckTasks(x)
      <3>1. PICK point \in PollPoints : pc' = [pc EXCEPT ![x] = point]
        BY <2>2 DEF StartPoll, EndRound, NewRound, CheckTasks
      <3> QED BY <2>2, <3>1 DEF StartPoll, EndRound, CheckTasks, workerVars, Elsewhere,
        Busy, ScheduleType
    <2>3. CASE ExitPollEarly(x) \/ ExitPollIdle(x)
      <3>1. UNCHANGED task /\ (x = WorkerThread => ~Busy)
        BY <2>3 DEF ExitPollEarly, ExitPollIdle, workerVars, Busy
      <3>2. ~Takes
        BY <2>3 DEF ExitPollEarly, ExitPollIdle, Settle, Leave, Takes, TakeTask,
          ScheduleType
      <3>3. Settle(x) \/ (Leave(x) /\ UNCHANGED taskQueue)
        BY <2>3 DEF ExitPollEarly, ExitPollIdle
      <3> QED BY <3>1, <3>2, <3>3, RunLockHeldShape
    <2> QED BY <1>3, <2>1, <2>2, <2>3 DEF PollStep
  <1>4. ASSUME NEW c \in Clients, ProducerStep(c) \/ ClientStep(c)
        PROVE  Elsewhere \/ (UNCHANGED <<pc, task>> /\ \E t \in Tasks : QueueTask(t))
    BY <1>4 DEF ProducerStep, ClientStep, Produce, ExchangeArmed, ProducerNotify,
      Submit, Return, ClientNotify, workerVars, Elsewhere, Tasks
  <1>5. CASE AffinityStep \/ DestroyStep
    BY <1>5 DEF AffinityStep, SetAffinity, QueueAffinity, DestroyStep, Destroy,
      DestroyQueues, DestroyQueuesTask, Destroyed, Gone, vars, workerVars, Elsewhere,
      Tasks
  <1> QED BY <1>1, <1>2, <1>3, <1>4, <1>5 DEF Next

\* Few steps queue a task, and only the worker thread takes one.
LEMMA QuietQueue ==
  ASSUME Next, ~AffinityStep, ~DestroyStep, \A c \in Clients : ~Submit(c)
  PROVE  UNCHANGED taskQueue \/ Takes
  BY ZenonT(40) DEF Next, WorkerStep, WakeWorkerThread, RunWorkerThread, RunTask, SignalTask,
    NextTask, EndWorkerLoop, DpcStep, StartPollDpc, StartNotifyDpc, PollDpc, NotifyDpc,
    PollStep, StartPoll, PollClient, EndRound, CheckTasks, ExitPollEarly, ExitPollIdle,
    ProducerStep, ClientStep, Produce, ExchangeArmed, ProducerNotify, Return,
    ClientNotify, RunLockHeld, RunPollWork, Settle, Takes, Busy

LEMMA CallerQueue ==
  ASSUME AffinityStep \/ DestroyStep
  PROVE  /\ UNCHANGED <<pc, task>>
         /\ UNCHANGED taskQueue \/ \E t \in Tasks \ Clients : QueueTask(t)
  BY ClientsAssumption DEF AffinityStep, SetAffinity, QueueAffinity, DestroyStep,
    Destroy, DestroyQueues, DestroyQueuesTask, Destroyed, Gone, vars, workerVars, Tasks

LEMMA PendingElsewhere ==
  ASSUME Elsewhere
  PROVE  /\ \A t : Pending(t)' <=> Pending(t)
         /\ Busy' <=> Busy
  BY DEF Elsewhere, Pending, OnDuty, Busy

LEMMA PendingTakes ==
  ASSUME ScheduleType, Takes
  PROVE  /\ \A t : Pending(t)' <=> Pending(t)
         /\ Busy' /\ task' \in Range(taskQueue)
         /\ IsInjective(taskQueue) => /\ task' \notin Range(taskQueue')
                                      /\ IsInjective(taskQueue')
  <1>1. /\ task' = Head(taskQueue) /\ taskQueue' = Tail(taskQueue)
        /\ taskQueue # <<>> /\ taskQueue \in Seq(Tasks)
        /\ pc'[WorkerThread] = "task" /\ ~Busy
    BY DEF Takes, TakeTask, ScheduleType
  <1>2. /\ Range(taskQueue) = Range(taskQueue') \cup {task'}
        /\ IsInjective(taskQueue) => /\ task' \notin Range(taskQueue')
                                     /\ IsInjective(taskQueue')
    BY <1>1, TailRange
  <1> QED BY <1>1, <1>2 DEF Pending, OnDuty, Busy

LEMMA PendingQueued ==
  ASSUME ScheduleType, NEW t \in Tasks, QueueTask(t), UNCHANGED <<pc, task>>
  PROVE  /\ Range(taskQueue') = Range(taskQueue) \cup {t}
         /\ \A u : Pending(u)' <=> Pending(u) \/ u = t
         /\ Busy' <=> Busy
         /\ IsInjective(taskQueue) => IsInjective(taskQueue')
  <1>1. /\ Range(taskQueue') = Range(taskQueue) \cup {t}
        /\ IsInjective(taskQueue) => IsInjective(taskQueue')
    <2>1. CASE t \in Range(taskQueue) /\ UNCHANGED taskQueue
      BY <2>1
    <2>2. CASE t \notin Range(taskQueue) /\ taskQueue' = Append(taskQueue, t)
      BY <2>2, AppendRange DEF ScheduleType
    <2> QED BY <2>1, <2>2 DEF QueueTask
  <1> QED BY <1>1 DEF Pending, OnDuty, Busy

LEMMA PendingRan ==
  ASSUME ScheduleType, RunTask
  PROVE  /\ \A t : Pending(t)' <=> t \in Range(taskQueue)
         /\ Busy /\ Busy' /\ OnDuty(task)
         /\ UNCHANGED <<taskQueue, task>>
  BY DEF RunTask, Pending, OnDuty, Busy, ScheduleType

LEMMA PendingSignalled ==
  ASSUME ScheduleType, SignalTask
  PROVE  /\ \A t : Pending(t)' <=> t \in Range(taskQueue)
         /\ \A t : Pending(t)' <=> Pending(t)
         /\ Busy /\ ~Busy'
         /\ UNCHANGED taskQueue
  BY DEF SignalTask, Pending, OnDuty, Busy, ScheduleType

-----------------------------------------------------------------------------
(***************************************************************************)
(* The affinity: whoever has set one has a task for it on its way.         *)
(***************************************************************************)
AffinityFollows ==
  destroyer = "none" /\ affinity.requested # Unset =>
    \/ affinity.current = affinity.requested
    \/ affinityCaller = "queue" \/ Pending("affinity")

LEMMA InitAffinity == Init => AffinityFollows
  BY DEF Init, AffinityFollows

LEMMA NextAffinity ==
  ASSUME ScheduleType, RunType, AffinityFollows, [Next]_vars
  PROVE  AffinityFollows'
  <1> DEFINE fields == <<affinity, affinityCaller, destroyer>>
  <1>1. CASE UNCHANGED vars
    BY <1>1 DEF vars, callerVars, workerVars, AffinityFollows, Pending, OnDuty
  <1>2. CASE RunTask
    <2>1. UNCHANGED <<destroyer, affinityCaller>>
      BY <1>2 DEF RunTask, callerVars
    <2>2. CASE task = "affinity"
      <3>1. ApplyAffinity
        BY <1>2, <2>2, ClientsAssumption DEF RunTask
      <3>2. affinity'.current = affinity.requested /\ affinity'.requested = affinity.requested
        BY <3>1, Zenon DEF ApplyAffinity, RunType
      <3> QED BY <3>2 DEF AffinityFollows
    <2>3. CASE task # "affinity"
      <3>1. UNCHANGED affinity
        BY <1>2, <2>3 DEF RunTask
      <3>2. Pending("affinity")' <=> Pending("affinity")
        BY <1>2, <2>3, PendingRan DEF Pending, OnDuty
      <3> QED BY <2>1, <3>1, <3>2 DEF AffinityFollows
    <2> QED BY <2>2, <2>3
  <1>3. CASE AffinityStep \/ DestroyStep
    <2>1. ASSUME NEW a \in Affinities, SetAffinity(a) PROVE AffinityFollows'
      BY <2>1 DEF SetAffinity, AffinityFollows
    <2>2. CASE QueueAffinity
      <3>1. Pending("affinity")'
        BY <2>2, PendingQueued DEF QueueAffinity, Tasks, workerVars
      <3> QED BY <3>1 DEF AffinityFollows
    <2>3. CASE DestroyStep
      <3>1. destroyer' # "none" \/ UNCHANGED vars
        BY <2>3 DEF DestroyStep, Destroy, DestroyQueues, DestroyQueuesTask, Destroyed, Gone
      <3> QED BY <1>1, <3>1 DEF AffinityFollows
    <2> QED BY <1>3, <2>1, <2>2, <2>3 DEF AffinityStep
  <1>4. CASE Next /\ ~RunTask /\ ~AffinityStep /\ ~DestroyStep
    <2>1. UNCHANGED fields
      BY <1>4 DEF Next, WorkerStep, WakeWorkerThread, RunWorkerThread, SignalTask,
        NextTask, EndWorkerLoop, DpcStep, StartPollDpc, StartNotifyDpc, PollDpc,
        NotifyDpc, PollStep, StartPoll, PollClient, EndRound, CheckTasks,
        ExitPollEarly, ExitPollIdle, ProducerStep, ClientStep, Produce, ExchangeArmed,
        ProducerNotify, Submit, Return, ClientNotify, workerVars, callerVars
    <2>2. Pending("affinity") => Pending("affinity")'
      BY <1>4, StepShape, PendingElsewhere, PendingTakes, PendingQueued,
        PendingSignalled
    <2> QED BY <2>1, <2>2, SMTT(30) DEF AffinityFollows
  <1> QED BY <1>1, <1>2, <1>3, <1>4

-----------------------------------------------------------------------------
(***************************************************************************)
(* The calls: a client waits for the one task on its stack.                *)
(***************************************************************************)
WaitsFor(c) == call[c] # "none" /\ ~completed[c]

CallInv(c) ==
  /\ call[c] = "none" => ~completed[c]
  /\ call[c] # "none" => call[c] \in CallsAt(stage[c])
  /\ Pending(c) => WaitsFor(c)
  /\ Busy /\ task = c => WaitsFor(c) /\ c \notin Range(taskQueue)

CallProtocol == IsInjective(taskQueue) /\ \A c \in Clients : CallInv(c)

LEMMA InitCalls == Init => CallProtocol
  <1> SUFFICES ASSUME Init PROVE CallProtocol
    OBVIOUS
  <1>1. Range(taskQueue) = {} /\ IsInjective(taskQueue)
    BY DEF Init, Range, IsInjective
  <1>2. ~Busy /\ \A t : ~Pending(t)
    BY <1>1 DEF Init, Busy, Pending, OnDuty
  <1> QED BY <1>1, <1>2 DEF Init, CallProtocol, CallInv

\* A task that belongs to nobody's stack.
LEMMA QueuedForNobody ==
  ASSUME ScheduleType, CallProtocol, NEW t \in Tasks \ Clients, QueueTask(t),
         UNCHANGED <<pc, task, call, completed, stage>>
  PROVE  CallProtocol'
  <1>1. IsInjective(taskQueue')
    BY PendingQueued DEF CallProtocol
  <1>2. ASSUME NEW c \in Clients PROVE CallInv(c)'
    BY PendingQueued DEF CallProtocol, CallInv, WaitsFor
  <1> QED BY <1>1, <1>2 DEF CallProtocol

LEMMA NextCalls ==
  ASSUME ScheduleType, ClientType, CallProtocol, [Next]_vars
  PROVE  CallProtocol'
  <1> DEFINE fields == <<call, completed, stage>>
  <1>1. CASE UNCHANGED vars
    BY <1>1 DEF vars, workerVars, clientVars, CallProtocol, CallInv, WaitsFor, Pending,
      OnDuty, Busy
  <1>2. ASSUME NEW c \in Clients, Submit(c) PROVE CallProtocol'
    <2>1. /\ call[c] = "none" /\ call'[c] \in CallsAt(stage[c])
          /\ call' = [call EXCEPT ![c] = call'[c]]
          /\ completed' = [completed EXCEPT ![c] = FALSE]
          /\ QueueTask(c) /\ UNCHANGED <<pc, task, stage>>
      BY <1>2 DEF Submit, workerVars, ClientType
    <2>2. CallsAt(stage[c]) \subseteq Calls
      BY DEF CallsAt, Calls
    <2>3. /\ Range(taskQueue') = Range(taskQueue) \cup {c}
          /\ \A u : Pending(u)' <=> Pending(u) \/ u = c
          /\ Busy' <=> Busy
          /\ IsInjective(taskQueue')
      BY <2>1, PendingQueued DEF Tasks, CallProtocol
    <2>4. call'[c] # "none"
      BY <2>1, <2>2 DEF Calls
    <2>5. ASSUME NEW d \in Clients PROVE CallInv(d)'
      <3>1. CASE d = c
        BY <2>1, <2>3, <2>4, <3>1 DEF CallProtocol, CallInv, WaitsFor, ClientType
      <3>2. CASE d # c
        BY <2>1, <2>3, <3>2 DEF CallProtocol, CallInv, WaitsFor, ClientType
      <3> QED BY <3>1, <3>2
    <2> QED BY <2>3, <2>5 DEF CallProtocol
  <1>3. ASSUME NEW c \in Clients, Return(c) PROVE CallProtocol'
    <2>1. /\ completed[c] /\ call' = [call EXCEPT ![c] = "none"]
          /\ completed' = [completed EXCEPT ![c] = FALSE]
          /\ \A d \in Clients : d # c => stage'[d] = stage[d]
          /\ UNCHANGED <<pc, task, taskQueue>>
      BY <1>3 DEF Return, workerVars, ClientType
    <2>2. ASSUME NEW d \in Clients PROVE CallInv(d)'
      BY <2>1 DEF CallProtocol, CallInv, WaitsFor, ClientType, Pending, OnDuty, Busy
    <2> QED BY <2>1, <2>2 DEF CallProtocol
  <1>4. ASSUME NEW c \in Clients, ClientNotify(c) PROVE CallProtocol'
    <2>1. /\ CallsAt(stage[c]) = {}
          /\ \A d \in Clients : d # c => stage'[d] = stage[d]
          /\ UNCHANGED <<pc, task, taskQueue, call, completed>>
      BY <1>4 DEF ClientNotify, workerVars, ClientType, CallsAt
    <2>2. ASSUME NEW d \in Clients PROVE CallInv(d)'
      BY <2>1 DEF CallProtocol, CallInv, WaitsFor, Pending, OnDuty, Busy
    <2> QED BY <2>1, <2>2 DEF CallProtocol
  <1>5. CASE RunTask
    <2>1. UNCHANGED fields
      BY <1>5 DEF RunTask, clientVars
    <2>2. ASSUME NEW c \in Clients PROVE CallInv(c)'
      BY <1>5, <2>1, PendingRan DEF CallProtocol, CallInv, WaitsFor, Pending
    <2> QED BY <1>5, <2>2, PendingRan DEF CallProtocol
  <1>6. CASE SignalTask
    <2>1. /\ UNCHANGED <<call, stage>>
          /\ completed' = [c \in Clients |-> completed[c] \/ c = task]
      BY <1>6 DEF SignalTask, clientVars
    <2>2. ASSUME NEW c \in Clients PROVE CallInv(c)'
      <3>1. Busy /\ ~Busy' /\ (Pending(c)' <=> c \in Range(taskQueue))
        BY <1>6, PendingSignalled
      <3>2. Pending(c)' => Pending(c) /\ c # task
        BY <3>1 DEF CallProtocol, CallInv, Pending
      <3> QED BY <2>1, <3>1, <3>2 DEF CallProtocol, CallInv, WaitsFor, ClientType
    <2> QED BY <1>6, <2>2, PendingSignalled DEF CallProtocol
  <1>7. CASE AffinityStep \/ DestroyStep
    <2>1. UNCHANGED fields /\ UNCHANGED <<pc, task>>
      BY <1>7 DEF AffinityStep, SetAffinity, QueueAffinity, DestroyStep, Destroy,
        DestroyQueues, DestroyQueuesTask, Destroyed, Gone, vars, clientVars, workerVars
    <2>2. CASE UNCHANGED taskQueue
      BY <2>1, <2>2 DEF CallProtocol, CallInv, WaitsFor, Pending, OnDuty, Busy
    <2> QED BY <1>7, <2>1, <2>2, CallerQueue, QueuedForNobody
  <1>8. CASE /\ Next /\ ~RunTask /\ ~SignalTask /\ ~AffinityStep /\ ~DestroyStep
             /\ \A c \in Clients : ~Submit(c) /\ ~Return(c) /\ ~ClientNotify(c)
    <2>1. UNCHANGED fields
      BY <1>8 DEF Next, WorkerStep, WakeWorkerThread, RunWorkerThread, NextTask,
        EndWorkerLoop, DpcStep, StartPollDpc, StartNotifyDpc, PollDpc, NotifyDpc,
        PollStep, StartPoll, PollClient, EndRound, CheckTasks, ExitPollEarly,
        ExitPollIdle, ProducerStep, ClientStep, Produce, ExchangeArmed, ProducerNotify,
        clientVars
    <2>2. CASE Elsewhere
      <3>1. ASSUME NEW c \in Clients PROVE CallInv(c)'
        BY <2>1, <2>2, PendingElsewhere DEF CallProtocol, CallInv, WaitsFor, Elsewhere
      <3> QED BY <2>2, <3>1 DEF CallProtocol, Elsewhere
    <2>3. CASE Takes
      <3>1. ASSUME NEW c \in Clients PROVE CallInv(c)'
        <4>1. Pending(c)' <=> Pending(c)
          BY <2>3, PendingTakes
        <4>2. task' = c => Pending(c) /\ c \notin Range(taskQueue')
          BY <2>3, PendingTakes DEF CallProtocol, Pending
        <4> QED BY <2>1, <4>1, <4>2 DEF CallProtocol, CallInv, WaitsFor
      <3> QED BY <2>3, <3>1, PendingTakes DEF CallProtocol
    <2>4. Elsewhere \/ Takes
      <3>1. UNCHANGED taskQueue \/ Takes
        BY <1>8, QuietQueue
      <3> QED BY <1>8, <3>1, StepShape DEF Elsewhere
    <2> QED BY <2>2, <2>3, <2>4, SMTT(30)
  <1> QED BY <1>1, <1>2, <1>3, <1>4, <1>5, <1>6, <1>7, <1>8

-----------------------------------------------------------------------------
(***************************************************************************)
(* The lists: what a client is registered for follows from what it has     *)
(* done with the EC, the task that is pending not included.                *)
(***************************************************************************)
Reached(c) == IF call[c] = "none" \/ Pending(c) THEN stage[c] ELSE StageAfter[call[c]]

\* The notification of a client that is off the list is off.
ListInv(c) ==
  /\ Reached(c) \in {"destroyed", "created"} => c \notin Range(pollList)
  /\ Reached(c) = "destroyed" => c \notin notifications
  /\ armed[c] => enabled[c]
  /\ enabled[c] => c \in notifications

Registrations == IsInjective(pollList) /\ \A c \in Clients : ListInv(c)

LEMMA InitRegistrations == Init => Registrations
  <1> SUFFICES ASSUME Init PROVE Registrations
    OBVIOUS
  <1>1. Range(pollList) = {} /\ IsInjective(pollList)
    BY DEF Init, Range, IsInjective
  <1> QED BY <1>1 DEF Init, Registrations, ListInv

\* Calls that nobody's task is about, or that only enter and leave.
LEMMA SameReached ==
  ASSUME NEW c \in Clients, call'[c] = call[c], stage'[c] = stage[c],
         Pending(c)' <=> Pending(c)
  PROVE  Reached(c)' = Reached(c)
  BY DEF Reached

LEMMA RunTaskRegistrations ==
  ASSUME ScheduleType, ListType, ClientType, CallProtocol, Registrations, RunTask
  PROVE  Registrations'
  <1>1. UNCHANGED <<call, stage>>
    BY DEF RunTask, clientVars
  <1>2. ASSUME NEW d \in Clients, d # task PROVE Reached(d)' = Reached(d)
    BY <1>1, <1>2, PendingRan, SameReached DEF Pending, OnDuty
  <1>3. CASE task \in Clients
    <2>0. PICK c \in Clients : c = task
      BY <1>3
    <2>1. RunClientTask(c)
      BY <2>0, ClientsAssumption DEF RunTask
    <2>2. /\ call[c] # "none" /\ call[c] \in CallsAt(stage[c])
          /\ Reached(c) = stage[c] /\ Reached(c)' = StageAfter[call[c]]
      <3>1. CallInv(c) /\ Pending(c) /\ Busy
        BY <2>0, PendingRan DEF CallProtocol, Pending
      <3>2. ~Pending(c)' /\ call[c] # "none"
        BY <2>0, <3>1, PendingRan DEF CallInv, WaitsFor
      <3> QED BY <1>1, <3>1, <3>2 DEF Reached, CallInv
    <2>3. ASSUME NEW d \in Clients, d # c,
                 d \in Range(pollList') => d \in Range(pollList),
                 d \in notifications' <=> d \in notifications,
                 armed'[d] = armed[d], enabled'[d] = enabled[d]
          PROVE  ListInv(d)'
      BY <1>2, <2>0, <2>3 DEF Registrations, ListInv
    <2>4. CASE call[c] = "RegisterNotification"
      <3>1. stage[c] = "destroyed" /\ Reached(c)' = "created"
        BY <2>2, <2>4 DEF CallsAt, StageAfter
      <3>2. notifications' = notifications \cup {c} /\ UNCHANGED <<pollList, enabled, armed>>
        BY <2>1, <2>4 DEF RunClientTask, lists
      <3>3. ListInv(c)'
        BY <1>3, <2>2, <3>1, <3>2 DEF Registrations, ListInv
      <3> QED BY <2>3, <3>2, <3>3 DEF Registrations
    <2>5. CASE call[c] = "UnregisterNotification"
      <3>1. stage[c] = "created" /\ Reached(c)' = "destroyed"
        BY <2>2, <2>5 DEF CallsAt, StageAfter
      <3>2. notifications' = notifications \ {c} /\ Disable({c}) /\ UNCHANGED pollList
        BY <2>1, <2>5 DEF RunClientTask, lists
      <3>3. ListInv(c)'
        BY <1>3, <2>2, <3>1, <3>2 DEF Registrations, ListInv, Disable
      <3>4. ASSUME NEW d \in Clients, d # c PROVE armed'[d] = armed[d] /\ enabled'[d] = enabled[d]
        BY <3>2, <3>4 DEF Disable, ListType
      <3> QED BY <2>3, <3>2, <3>3, <3>4 DEF Registrations
    <2>6. CASE call[c] = "RegisterPoll"
      <3>1. stage[c] = "created" /\ Reached(c)' = "registered"
        BY <2>2, <2>6 DEF CallsAt, StageAfter
      <3>2. c \notin Range(pollList)
        BY <1>3, <2>2, <3>1 DEF Registrations, ListInv
      <3>3. InsertsPoll(c) /\ UNCHANGED <<notifications, enabled, armed>>
        BY <2>1, <2>6 DEF RunClientTask, lists
      <3>4. Range(pollList') = Range(pollList) \cup {c} /\ IsInjective(pollList')
        BY <1>3, <3>2, <3>3, InsertAtRange DEF InsertsPoll, ListType, Registrations
      <3>5. ListInv(c)'
        BY <1>3, <3>1, <3>3 DEF Registrations, ListInv
      <3> QED BY <2>3, <3>3, <3>4, <3>5 DEF Registrations
    <2>7. CASE call[c] = "UnregisterPoll"
      <3>1. stage[c] = "stopping" /\ Reached(c)' = "created"
        BY <2>2, <2>7 DEF CallsAt, StageAfter
      <3>2. RemovesPoll(c) /\ UNCHANGED <<notifications, enabled, armed>>
        BY <2>1, <2>7 DEF RunClientTask, lists
      <3>3. Range(pollList') = Range(pollList) \ {c} /\ IsInjective(pollList')
        BY <3>2, RemoveAtRange DEF RemovesPoll, ListType, Registrations
      <3>4. ListInv(c)'
        BY <1>3, <3>1, <3>2, <3>3 DEF Registrations, ListInv
      <3> QED BY <2>3, <3>2, <3>3, <3>4 DEF Registrations
    <2>8. CASE call[c] \in {"ChangePollFunction", "EcTaskCancel"}
      <3>1. Reached(c)' \in {"switched", "cancelled"}
        BY <2>2, <2>8 DEF StageAfter
      <3>2. UNCHANGED <<pollList, notifications, enabled, armed>>
        BY <2>1, <2>8 DEF RunClientTask, lists
      <3>3. ListInv(c)'
        BY <1>3, <3>1, <3>2 DEF Registrations, ListInv
      <3> QED BY <2>3, <3>2, <3>3 DEF Registrations
    <2>9. call[c] \in Calls
      BY <1>3, <2>2 DEF ClientType
    <2> QED BY <2>4, <2>5, <2>6, <2>7, <2>8, <2>9 DEF Calls
  <1>4. CASE task \notin Clients
    <2>1. \A d \in Clients : Reached(d)' = Reached(d)
      BY <1>2, <1>4
    <2>2. CASE UnregisterEverything
      <3>1. Range(pollList') = {} /\ IsInjective(pollList')
        BY <2>2 DEF UnregisterEverything, Range, IsInjective
      <3>2. ASSUME NEW d \in Clients PROVE ListInv(d)'
        BY <2>2, <3>1 DEF UnregisterEverything, Disable, Registrations, ListInv
      <3> QED BY <3>1, <3>2 DEF Registrations
    <2>3. CASE UNCHANGED lists
      BY <2>1, <2>3 DEF lists, Registrations, ListInv
    <2> QED BY <1>4, <2>2, <2>3 DEF RunTask
  <1> QED BY <1>3, <1>4

LEMMA NextRegistrations ==
  ASSUME ScheduleType, ListType, ClientType, CallProtocol, CallProtocol',
         Registrations, [Next]_vars
  PROVE  Registrations'
  <1>1. CASE UNCHANGED vars
    BY <1>1 DEF vars, lists, workerVars, clientVars, Registrations, ListInv, Reached,
      Pending, OnDuty
  <1>2. CASE RunTask
    BY <1>2, RunTaskRegistrations
  <1>3. ASSUME NEW c \in Clients, Submit(c) PROVE Registrations'
    <2>1. /\ call[c] = "none" /\ QueueTask(c)
          /\ \A d \in Clients : d # c => call'[d] = call[d]
          /\ UNCHANGED <<pc, task, stage, pollList, notifications, enabled, armed>>
      BY <1>3 DEF Submit, workerVars, ClientType
    <2>2. \A u : Pending(u)' <=> Pending(u) \/ u = c
      BY <2>1, PendingQueued DEF Tasks
    <2>3. \A d \in Clients : Reached(d)' = Reached(d)
      BY <2>1, <2>2 DEF Reached
    <2> QED BY <2>1, <2>3 DEF Registrations, ListInv
  <1>4. ASSUME NEW c \in Clients, Return(c) PROVE Registrations'
    <2>1. /\ call[c] # "none" /\ completed[c] /\ call'[c] = "none"
          /\ stage'[c] = StageAfter[call[c]]
          /\ \A d \in Clients : d # c => call'[d] = call[d] /\ stage'[d] = stage[d]
          /\ UNCHANGED <<pc, task, taskQueue, lists>>
      BY <1>4 DEF Return, workerVars, ClientType
    <2>2. ~Pending(c)
      BY <2>1 DEF CallProtocol, CallInv, WaitsFor
    <2>3. \A d \in Clients : Reached(d)' = Reached(d)
      BY <2>1, <2>2 DEF Reached, Pending, OnDuty
    <2> QED BY <2>1, <2>3 DEF Registrations, ListInv, lists
  <1>5. ASSUME NEW c \in Clients, ClientNotify(c) PROVE Registrations'
    <2>1. /\ stage[c] \in {"registered", "cancelled"}
          /\ stage'[c] \in {"started", "stopping"}
          /\ \A d \in Clients : d # c => stage'[d] = stage[d]
          /\ UNCHANGED <<pc, task, taskQueue, call, lists>>
      BY <1>5 DEF ClientNotify, workerVars, ClientType
    <2>2. call[c] = "none"
      BY <2>1 DEF CallProtocol, CallInv, CallsAt
    <2>3. /\ Reached(c)' \notin {"destroyed", "created"}
          /\ \A d \in Clients : d # c => Reached(d)' = Reached(d)
      BY <2>1, <2>2 DEF Reached, Pending, OnDuty
    <2>4. ASSUME NEW d \in Clients PROVE ListInv(d)'
      BY <2>1, <2>3 DEF Registrations, ListInv, lists
    <2> QED BY <2>1, <2>4 DEF Registrations, lists
  <1>6. CASE /\ Next /\ ~RunTask
             /\ \A c \in Clients : ~Submit(c) /\ ~Return(c) /\ ~ClientNotify(c)
    <2>1. UNCHANGED <<call, stage, pollList, notifications>>
      BY <1>6 DEF Next, WorkerStep, WakeWorkerThread, RunWorkerThread, SignalTask,
        NextTask, EndWorkerLoop, DpcStep, StartPollDpc, StartNotifyDpc, PollDpc,
        NotifyDpc, PollStep, StartPoll, PollClient, EndRound, CheckTasks,
        ExitPollEarly, ExitPollIdle, ProducerStep, ClientStep, Produce, ExchangeArmed,
        ProducerNotify, AffinityStep, SetAffinity, QueueAffinity, DestroyStep, Destroy,
        DestroyQueues, DestroyQueuesTask, Destroyed, Gone, vars, clientVars, lists
    <2>2. ASSUME NEW c \in Clients PROVE Pending(c)' <=> Pending(c)
      <3>1. CASE AffinityStep \/ DestroyStep
        <4>1. CASE UNCHANGED <<pc, task, taskQueue>>
          BY <4>1 DEF Pending, OnDuty
        <4> QED BY <3>1, <4>1, CallerQueue, PendingQueued
      <3>2. CASE ~AffinityStep /\ ~DestroyStep
        <4>1. Elsewhere \/ Takes \/ SignalTask
          BY <1>6, <3>2, QuietQueue, StepShape DEF Elsewhere
        <4> QED BY <4>1, PendingElsewhere, PendingTakes, PendingSignalled
      <3> QED BY <3>1, <3>2
    <2>3. ASSUME NEW c \in Clients
          PROVE  /\ armed'[c] => enabled'[c]
                 /\ enabled'[c] => c \in notifications
      <3>1. CASE Disable(notifications) \/ EnableNotifications
        BY <3>1 DEF Disable, EnableNotifications, Registrations, ListInv
      <3>2. CASE \E d \in Clients : ExchangeArmed(d)
        BY <3>2 DEF ExchangeArmed, Registrations, ListInv, ListType
      <3>3. CASE UNCHANGED <<armed, enabled>>
        BY <3>3 DEF Registrations, ListInv
      <3>4. \/ Disable(notifications) \/ EnableNotifications
            \/ (\E d \in Clients : ExchangeArmed(d)) \/ UNCHANGED <<armed, enabled>>
        BY <1>6, ZenonT(40) DEF Next, WorkerStep, WakeWorkerThread, RunWorkerThread, SignalTask,
          NextTask, EndWorkerLoop, DpcStep, StartPollDpc, StartNotifyDpc, PollDpc,
          NotifyDpc, PollStep, StartPoll, PollClient, EndRound, CheckTasks,
          ExitPollEarly, ExitPollIdle, ProducerStep, ClientStep, Produce,
          ProducerNotify, AffinityStep, SetAffinity, QueueAffinity, DestroyStep,
          Destroy, DestroyQueues, DestroyQueuesTask, Destroyed, Gone, vars, lists
      <3> QED BY <3>1, <3>2, <3>3, <3>4
    <2>4. ASSUME NEW c \in Clients PROVE ListInv(c)'
      BY <2>1, <2>2, <2>3, SameReached DEF Registrations, ListInv
    <2> QED BY <2>1, <2>4, SMTT(30) DEF Registrations
  <1> QED BY <1>1, <1>2, <1>3, <1>4, <1>5, <1>6

-----------------------------------------------------------------------------
(***************************************************************************)
(* The end: Destroy finds everybody quiet, its last task is the last one   *)
(* in the queue, and the poll that may follow it stops the EC for good.    *)
(***************************************************************************)
NobodyElse == destroyer # "none" => Quiesced

LEMMA NextNobodyElse ==
  ASSUME ScheduleType, ClientType, NobodyElse, [Next]_vars
  PROVE  NobodyElse'
  <1> SUFFICES ASSUME destroyer' # "none" PROVE Quiesced'
    BY DEF NobodyElse
  <1>1. CASE UNCHANGED vars
    BY <1>1 DEF vars, clientVars, trafficVars, callerVars, NobodyElse, Quiesced
  <1>2. CASE Destroy
    BY <1>2 DEF Destroy, Quiesced, clientVars, trafficVars
  <1>3. CASE Next /\ ~Destroy
    <2>1. destroyer # "none"
      BY <1>3 DEF Next, WorkerStep, WakeWorkerThread, RunWorkerThread, RunTask,
        SignalTask, NextTask, EndWorkerLoop, DpcStep, StartPollDpc, StartNotifyDpc,
        PollDpc, NotifyDpc, PollStep, StartPoll, PollClient, EndRound, CheckTasks,
        ExitPollEarly, ExitPollIdle, ProducerStep, ClientStep, Produce, ExchangeArmed,
        ProducerNotify, Submit, Return, ClientNotify, AffinityStep, SetAffinity,
        QueueAffinity, DestroyStep, DestroyQueues, DestroyQueuesTask, Destroyed, Gone,
        vars, callerVars
    <2>2. Quiesced
      BY <2>1 DEF NobodyElse
    <2>3. ASSUME NEW c \in Clients
          PROVE  ~ProducerStep(c) /\ ~ClientStep(c)
      BY <2>1, <2>2 DEF Quiesced, ProducerStep, Produce, ExchangeArmed, ProducerNotify,
        ClientStep, Submit, Return, ClientNotify
    <2>4. ~AffinityStep /\ \A p \in Cpus : ~StartNotifyDpc(p) /\ ~NotifyDpc(p)
      BY <2>1, <2>2 DEF Quiesced, AffinityStep, SetAffinity, QueueAffinity,
        StartNotifyDpc, NotifyDpc
    <2>5. UNCHANGED <<call, stage, producer, affinityCaller, notifyDpcQueued>>
      BY <1>3, <2>3, <2>4 DEF Next, WorkerStep, WakeWorkerThread, RunWorkerThread,
        RunTask, SignalTask, NextTask, EndWorkerLoop, DpcStep, StartPollDpc, PollDpc,
        PollStep, StartPoll, PollClient, EndRound, CheckTasks, ExitPollEarly,
        ExitPollIdle, DestroyStep, DestroyQueues, DestroyQueuesTask, Destroyed, Gone,
        vars, clientVars, trafficVars, callerVars
    <2>6. ASSUME NEW p \in Cpus PROVE pc'[p] # "notifyDpc"
      <3>1. pc[p] # "notifyDpc"
        BY <2>2 DEF Quiesced
      <3>2. CASE WorkerStep
        BY <3>1, <3>2 DEF WorkerStep, WakeWorkerThread, RunWorkerThread, RunTask,
          SignalTask, NextTask, EndWorkerLoop, RunLockHeld, RunPollWork, Settle, Leave,
          TakeTask, ScheduleType
      <3>3. ASSUME NEW q \in Cpus, StartPollDpc(q) \/ PollDpc(q)
            PROVE  pc'[p] # "notifyDpc"
        BY <3>1, <3>3 DEF StartPollDpc, PollDpc, RunLockHeld, RunPollWork, Settle,
          Leave, TakeTask, ScheduleType
      <3>4. ASSUME NEW x \in Contexts, PollStep(x) PROVE pc'[p] # "notifyDpc"
        BY <3>1, <3>4 DEF PollStep, StartPoll, PollClient, EndRound, NewRound,
          CheckTasks, ExitPollEarly, ExitPollIdle, Settle, Leave, ScheduleType
      <3>5. CASE DestroyStep
        BY <3>1, <3>5 DEF DestroyStep, Destroy, DestroyQueues, DestroyQueuesTask,
          Destroyed, Gone, vars
      <3> QED BY <1>3, <2>3, <2>4, <3>2, <3>3, <3>4, <3>5 DEF Next, DpcStep
    <2> QED BY <2>2, <2>5, <2>6, SMTT(30) DEF Quiesced
  <1> QED BY <1>1, <1>2, <1>3

Empty == pollList = <<>> /\ notifications = {}

Teardown ==
  /\ Pending("terminate") \/ terminate => destroyer \in {"wait", "done"}
  /\ destroyer \in {"terminate", "wait", "done"} =>
       Empty \/ Pending("unregisterEverything")
  /\ \A i \in DOMAIN taskQueue : taskQueue[i] = "terminate" => i = Len(taskQueue)
  /\ OnDuty("terminate") \/ terminate => taskQueue = <<>> /\ Empty

\* The worker thread after its last task: it may still poll, once, an empty list.
LastRun ==
  \/ pc[WorkerThread] \in {"taskRan", "taskDone"}
  \/ ~hasPollWork /\ pc[WorkerThread] \in {"startPoll", "poll", "checkTasks", "exitIdle"}
  \/ state = "Stopped" /\ pc[WorkerThread] \in {"returned", "terminated"}

EndInv ==
  /\ terminate => LastRun
  /\ pc[WorkerThread] = "terminated" => terminate

LEMMA InitTeardown == Init => NobodyElse /\ Teardown /\ EndInv
  <1> SUFFICES ASSUME Init PROVE NobodyElse /\ Teardown /\ EndInv
    OBVIOUS
  <1>1. Range(taskQueue) = {} /\ DOMAIN taskQueue = {}
    BY DEF Init, Range
  <1> QED BY <1>1 DEF Init, NobodyElse, Teardown, EndInv, Pending, OnDuty

\* Once its last task is queued nobody queues another.
LEMMA NothingQueued ==
  ASSUME ScheduleType, NobodyElse, destroyer \in {"wait", "done"}, Next
  PROVE  Elsewhere \/ Takes \/ RunTask \/ SignalTask
  <1>1. Quiesced
    BY DEF NobodyElse
  <1>2. ~AffinityStep /\ \A c \in Clients : ~Submit(c)
    BY <1>1 DEF Quiesced, AffinityStep, SetAffinity, QueueAffinity, Submit
  <1>3. CASE DestroyStep
    BY <1>3 DEF DestroyStep, Destroy, DestroyQueues, DestroyQueuesTask, Destroyed,
      Gone, vars, workerVars, Elsewhere
  <1>4. CASE ~DestroyStep
    BY <1>2, <1>4, QuietQueue, StepShape DEF Elsewhere
  <1> QED BY <1>3, <1>4

LEMMA NextTeardown ==
  ASSUME ScheduleType, CallProtocol, NobodyElse, Teardown, EndInv, [Next]_vars
  PROVE  Teardown'
  <1> DEFINE TerminateLast(q) == \A i \in DOMAIN q : q[i] = "terminate" => i = Len(q)
  <1>1. CASE UNCHANGED vars
    BY <1>1 DEF vars, lists, workerVars, callerVars, Teardown, Empty, Pending, OnDuty
  <1>2. CASE RunTask
    <2>1. UNCHANGED <<destroyer, taskQueue, task>> /\ ~terminate
          /\ pc[WorkerThread] = "task" /\ pc'[WorkerThread] = "taskRan"
      BY <1>2 DEF RunTask, callerVars, EndInv, LastRun, ScheduleType
    <2>2. terminate' => task = "terminate"
      BY <1>2, <2>1 DEF RunTask
    <2>3. Pending("terminate")' \/ terminate' => Pending("terminate")
      BY <2>1, <2>2 DEF Pending, OnDuty
    <2>4. CASE task \in Clients
      <3>1. call[task] # "none"
        BY <2>1, <2>4 DEF CallProtocol, CallInv, WaitsFor, Pending, OnDuty
      <3>2. destroyer = "none"
        BY <2>4, <3>1 DEF NobodyElse, Quiesced
      <3> QED BY <2>1, <2>2, <2>3, <2>4, <3>2, ClientsAssumption DEF Teardown, OnDuty
    <2>5. CASE task = "unregisterEverything"
      <3>1. Empty'
        BY <1>2, <2>5, ClientsAssumption DEF RunTask, UnregisterEverything, Empty
      <3> QED BY <2>1, <2>2, <2>3, <2>5, <3>1 DEF Teardown, OnDuty
    <2>6. CASE task \in {"affinity", "terminate"}
      <3>1. UNCHANGED <<pollList, notifications>>
        BY <1>2, <2>6, ClientsAssumption DEF RunTask, lists
      <3>2. Pending("unregisterEverything")' <=> Pending("unregisterEverything")
        BY <2>1, <2>6 DEF Pending, OnDuty
      <3>3. terminate' => OnDuty("terminate")
        BY <2>1, <2>2 DEF OnDuty
      <3>4. ~OnDuty("terminate")'
        BY <2>1 DEF OnDuty
      <3> QED BY <2>1, <2>3, <3>1, <3>2, <3>3, <3>4 DEF Teardown, Empty
    <2> QED BY <1>2, <2>4, <2>5, <2>6 DEF RunTask
  <1>3. CASE Next /\ ~RunTask
    <2>1. /\ UNCHANGED <<pollList, notifications, terminate>>
          /\ destroyer \in {"wait", "done"} => destroyer' \in {"wait", "done"}
      BY <1>3, ZenonT(40) DEF Next, WorkerStep, WakeWorkerThread, RunWorkerThread, SignalTask,
        NextTask, EndWorkerLoop, DpcStep, StartPollDpc, StartNotifyDpc, PollDpc,
        NotifyDpc, PollStep, StartPoll, PollClient, EndRound, CheckTasks,
        ExitPollEarly, ExitPollIdle, ProducerStep, ClientStep, Produce, ExchangeArmed,
        ProducerNotify, Submit, Return, ClientNotify, AffinityStep, SetAffinity,
        QueueAffinity, DestroyStep, Destroy, DestroyQueues, DestroyQueuesTask,
        Destroyed, Gone, vars, lists, workerVars, callerVars
    <2>2. CASE destroyer \in {"wait", "done"}
      <3>1. \A t : Pending(t)' <=> Pending(t)
        BY <1>3, <2>2, NothingQueued, PendingElsewhere, PendingTakes, PendingSignalled
      <3>2. CASE Takes
        <4>1. /\ taskQueue \in Seq(Tasks) /\ taskQueue # <<>> /\ ~Busy
              /\ task' = Head(taskQueue) /\ taskQueue' = Tail(taskQueue)
              /\ pc'[WorkerThread] = "task"
          BY <3>2 DEF Takes, TakeTask, ScheduleType
        <4>2. /\ Len(taskQueue) \in Nat \ {0} /\ task' = taskQueue[1]
              /\ DOMAIN taskQueue = 1 .. Len(taskQueue)
              /\ Len(taskQueue') = Len(taskQueue) - 1
              /\ DOMAIN taskQueue' = 1 .. Len(taskQueue) - 1
              /\ \A i \in 1 .. Len(taskQueue) - 1 : taskQueue'[i] = taskQueue[i + 1]
          BY <4>1, HeadTailProperties, LenProperties, EmptySeq
        <4>3. TerminateLast(taskQueue')
          BY <4>2 DEF Teardown
        <4>4. ASSUME task' = "terminate" PROVE taskQueue' = <<>> /\ Empty'
          <5>1. Len(taskQueue') = 0 /\ taskQueue' \in Seq(Tasks)
            BY <4>1, <4>2, <4>4, HeadTailProperties DEF Teardown
          <5>2. taskQueue' = <<>>
            BY <5>1, EmptySeq
          <5>3. ~Pending("unregisterEverything")'
            BY <4>4, <5>2 DEF Pending, OnDuty, Range
          <5> QED BY <2>1, <2>2, <3>1, <5>2, <5>3 DEF Teardown, Empty
        <4>5. ~terminate
          BY <4>1 DEF Teardown
        <4> QED BY <2>1, <2>2, <3>1, <4>3, <4>4, <4>5 DEF Teardown, OnDuty, Empty
      <3>3. CASE Elsewhere \/ SignalTask
        <4>1. UNCHANGED taskQueue /\ (OnDuty("terminate")' => OnDuty("terminate"))
          BY <3>3 DEF Elsewhere, SignalTask, OnDuty, Busy, ScheduleType
        <4> QED BY <2>1, <2>2, <3>1, <4>1 DEF Teardown, Empty
      <3> QED BY <1>3, <2>2, <3>2, <3>3, NothingQueued
    <2>3. CASE destroyer \notin {"wait", "done"}
      <3>1. ~Pending("terminate") /\ ~terminate
        BY <2>3 DEF Teardown
      <3>2. CASE DestroyQueues
        <4>1. UNCHANGED <<pc, task>>
          BY <3>2 DEF DestroyQueues, DestroyQueuesTask, workerVars
        <4>2. CASE DestroyQueuesTask("terminate", "terminate", "wait")
          <5>1. destroyer = "terminate" /\ destroyer' = "wait" /\ QueueTask("terminate")
            BY <4>2 DEF DestroyQueuesTask
          <5>2. taskQueue' = Append(taskQueue, "terminate")
            BY <3>1, <5>1 DEF QueueTask, Pending
          <5>3. TerminateLast(taskQueue')
            <6> HIDE DEF TerminateLast
            <6>1. Len(taskQueue') = Len(taskQueue) + 1 /\ Len(taskQueue) \in Nat
                  /\ DOMAIN taskQueue = 1 .. Len(taskQueue)
                  /\ DOMAIN taskQueue' = 1 .. Len(taskQueue) + 1
                  /\ \A i \in 1 .. Len(taskQueue) : taskQueue'[i] = taskQueue[i]
              BY <5>2, AppendProperties, LenProperties DEF ScheduleType, Tasks
            <6>2. \A i \in DOMAIN taskQueue : taskQueue[i] # "terminate"
              BY <3>1, InRange DEF Pending
            <6> QED BY <6>1, <6>2 DEF TerminateLast
          <5>4. \A u : Pending(u)' <=> Pending(u) \/ u = "terminate"
            BY <4>1, <5>1, PendingQueued DEF Tasks
          <5> QED BY <2>1, <3>1, <4>1, <5>1, <5>3, <5>4
                DEF Teardown, Empty, OnDuty, Pending
        <4>3. CASE DestroyQueuesTask("unregister", "unregisterEverything", "terminate")
          <5>1. destroyer' = "terminate" /\ QueueTask("unregisterEverything")
            BY <4>3 DEF DestroyQueuesTask
          <5>2. \A u : Pending(u)' <=> Pending(u) \/ u = "unregisterEverything"
            BY <4>1, <5>1, PendingQueued DEF Tasks
          <5>3. ~Pending("terminate")' /\ Pending("unregisterEverything")'
            BY <3>1, <5>2
          <5>4. TerminateLast(taskQueue')
            BY <5>3, InRange DEF Pending
          <5> QED BY <2>1, <3>1, <5>3, <5>4 DEF Teardown, Pending
        <4>4. CASE DestroyQueuesTask("affinity", "affinity", "unregister")
          <5>1. destroyer' = "unregister" /\ QueueTask("affinity")
            BY <4>4 DEF DestroyQueuesTask
          <5>2. ~Pending("terminate")'
            BY <3>1, <4>1, <5>1, PendingQueued DEF Tasks
          <5>3. TerminateLast(taskQueue')
            BY <5>2, InRange DEF Pending
          <5> QED BY <2>1, <3>1, <5>1, <5>2, <5>3 DEF Teardown, Pending
        <4> QED BY <3>2, <4>2, <4>3, <4>4 DEF DestroyQueues
      <3>3. CASE ~DestroyQueues
        <4>1. /\ ~Pending("terminate")'
              /\ Pending("unregisterEverything") => Pending("unregisterEverything")'
          <5>1. CASE AffinityStep \/ DestroyStep
            <6>1. UNCHANGED <<pc, task>>
              BY <5>1, CallerQueue
            <6>2. UNCHANGED taskQueue \/ QueueTask("affinity")
              BY <3>3, <5>1 DEF AffinityStep, SetAffinity, QueueAffinity, DestroyStep,
                Destroy, Destroyed, Gone, vars
            <6>3. CASE UNCHANGED taskQueue
              BY <3>1, <6>1, <6>3 DEF Pending, OnDuty
            <6>4. CASE QueueTask("affinity")
              BY <3>1, <6>1, <6>4, PendingQueued DEF Tasks
            <6> QED BY <6>2, <6>3, <6>4
          <5>2. ASSUME NEW c \in Clients, Submit(c)
                PROVE  /\ ~Pending("terminate")'
                       /\ Pending("unregisterEverything") => Pending("unregisterEverything")'
            BY <3>1, <5>2, PendingQueued, ClientsAssumption DEF Submit, Tasks, workerVars
          <5>3. CASE ~AffinityStep /\ ~DestroyStep /\ \A c \in Clients : ~Submit(c)
            BY <1>3, <3>1, <5>3, QuietQueue, StepShape, PendingElsewhere, PendingTakes,
              PendingSignalled, SMTT(30) DEF Elsewhere
          <5> QED BY <5>1, <5>2, <5>3
        <4>2. destroyer' \in {"terminate", "wait", "done"} => destroyer = "terminate"
          BY <1>3, <2>3, <3>3, ZenonT(40) DEF Next, WorkerStep, WakeWorkerThread, RunWorkerThread, SignalTask,
            NextTask, EndWorkerLoop, DpcStep, StartPollDpc, StartNotifyDpc, PollDpc,
            NotifyDpc, PollStep, StartPoll, PollClient, EndRound, CheckTasks,
            ExitPollEarly, ExitPollIdle, ProducerStep, ClientStep, Produce,
            ExchangeArmed, ProducerNotify, Submit, Return, ClientNotify, AffinityStep,
            SetAffinity, QueueAffinity, DestroyStep, Destroy, Destroyed, Gone, vars,
            callerVars
        <4>3. TerminateLast(taskQueue') /\ ~OnDuty("terminate")'
          BY <4>1, InRange DEF Pending
        <4> QED BY <2>1, <3>1, <4>1, <4>2, <4>3 DEF Teardown, Empty
      <3> QED BY <3>2, <3>3
    <2> QED BY <2>2, <2>3, SMTT(30)
  <1> QED BY <1>1, <1>2, <1>3

LEMMA NextEnd ==
  ASSUME ControlInv, RunType, NobodyElse, Teardown, EndInv, [Next]_vars
  PROVE  EndInv'
  <1>1. CASE UNCHANGED vars
    BY <1>1 DEF vars, schedule, workerVars, EndInv, LastRun
  <1>2. CASE Next /\ ~terminate
    <2>1. terminate' => RunTask /\ pc'[WorkerThread] = "taskRan"
      BY <1>2, ZenonT(40) DEF Next, WorkerStep, WakeWorkerThread, RunWorkerThread, RunTask,
        SignalTask, NextTask, EndWorkerLoop, DpcStep, StartPollDpc, StartNotifyDpc,
        PollDpc, NotifyDpc, PollStep, StartPoll, PollClient, EndRound, CheckTasks,
        ExitPollEarly, ExitPollIdle, ProducerStep, ClientStep, Produce, ExchangeArmed,
        ProducerNotify, Submit, Return, ClientNotify, AffinityStep, SetAffinity,
        QueueAffinity, DestroyStep, Destroy, DestroyQueues, DestroyQueuesTask,
        Destroyed, Gone, vars, workerVars, ControlInv, ScheduleType
    <2>2. pc'[WorkerThread] # "terminated"
      <3>1. pc[WorkerThread] # "terminated"
        BY <1>2 DEF EndInv
      <3>2. CASE WorkerStep
        BY <1>2, <3>1, <3>2 DEF WorkerStep, WakeWorkerThread, RunWorkerThread, RunTask,
          SignalTask, NextTask, EndWorkerLoop, RunLockHeld, RunPollWork, Settle, Leave,
          TakeTask, ControlInv, ScheduleType
      <3>3. ASSUME NEW p \in Cpus, DpcStep(p) PROVE pc'[WorkerThread] # "terminated"
        BY <3>1, <3>3 DEF DpcStep, StartPollDpc, StartNotifyDpc, PollDpc, NotifyDpc,
          RunLockHeld, RunPollWork, Settle, Leave, TakeTask, ControlInv, ScheduleType
      <3>4. ASSUME NEW x \in Contexts, PollStep(x) PROVE pc'[WorkerThread] # "terminated"
        BY <3>1, <3>4 DEF PollStep, StartPoll, PollClient, EndRound, NewRound,
          CheckTasks, ExitPollEarly, ExitPollIdle, Settle, Leave, ControlInv,
          ScheduleType
      <3>5. CASE AffinityStep \/ DestroyStep
        BY <3>1, <3>5, CallerQueue
      <3>6. ASSUME NEW c \in Clients, ProducerStep(c) \/ ClientStep(c)
            PROVE  pc'[WorkerThread] # "terminated"
        BY <3>1, <3>6 DEF ProducerStep, ClientStep, Produce, ExchangeArmed,
          ProducerNotify, Submit, Return, ClientNotify
      <3> QED BY <1>2, <3>2, <3>3, <3>4, <3>5, <3>6 DEF Next
    <2> QED BY <2>1, <2>2, SMTT(30) DEF EndInv, LastRun
  <1>3. CASE Next /\ terminate
    <2>1. /\ taskQueue = <<>> /\ destroyer \in {"wait", "done"} /\ LastRun
          /\ destroyer # "none" /\ Quiesced
      BY <1>3 DEF Teardown, EndInv, NobodyElse
    <2>2. /\ ~workerRequested /\ ~pollDpcQueued
          /\ \A p \in Cpus : pc[p] \notin PollPoints /\ pc[p] # "pollDpc"
      <3>1. CASE Running(WorkerThread)
        BY <3>1, ExclusiveFacts DEF Exclusive, Running
      <3>2. CASE ~Running(WorkerThread)
        <4>1. state = "Stopped"
          BY <2>1, <3>2 DEF LastRun, Running
        <4> QED BY <4>1, ExclusiveFacts DEF Exclusive, Running, ControlInv, WakeUpMatchesState
      <3> QED BY <3>1, <3>2
    <2>3. ASSUME NEW p \in Cpus PROVE ~DpcStep(p) /\ ~PollStep(p)
      BY <2>1, <2>2 DEF Quiesced, DpcStep, StartPollDpc, StartNotifyDpc, PollDpc,
        NotifyDpc, PollStep, StartPoll, PollClient, InPollFn, EndRound, CheckTasks,
        ExitPollEarly, ExitPollIdle
    <2>4. ASSUME NEW c \in Clients PROVE ~ProducerStep(c) /\ ~ClientStep(c)
      BY <2>1 DEF Quiesced, ProducerStep, Produce, ExchangeArmed, ProducerNotify,
        ClientStep, Submit, Return, ClientNotify
    <2>5. ~AffinityStep
      BY <2>1 DEF Quiesced, AffinityStep, SetAffinity, QueueAffinity
    <2>6. CASE DestroyStep
      BY <2>1, <2>6 DEF DestroyStep, Destroy, DestroyQueues, DestroyQueuesTask,
        Destroyed, Gone, vars, workerVars, schedule, EndInv, LastRun
    <2>7. CASE WorkerStep
      <3>1. CASE WakeWorkerThread \/ RunWorkerThread \/ RunTask
        BY <2>1, <3>1 DEF WakeWorkerThread, RunWorkerThread, RunTask, LastRun
      <3>2. CASE SignalTask
        BY <1>3, <3>2 DEF SignalTask, EndInv, LastRun, ControlInv, ScheduleType
      <3>3. CASE NextTask
        <4>1. CASE hasPollWork
          BY <1>3, <2>1, <3>3, <4>1 DEF NextTask, RunPollWork, EndInv, LastRun,
            ControlInv, ScheduleType
        <4>2. CASE ~hasPollWork
          BY <1>3, <2>1, <3>3, <4>2 DEF NextTask, RunPollWork, Settle, Leave, EndInv,
            LastRun, ControlInv, ScheduleType
        <4> QED BY <4>1, <4>2
      <3>4. CASE EndWorkerLoop
        BY <1>3, <2>1, <3>4 DEF EndWorkerLoop, schedule, workerVars, EndInv, LastRun,
          ControlInv, ScheduleType
      <3> QED BY <2>7, <3>1, <3>2, <3>3, <3>4 DEF WorkerStep
    <2>8. CASE PollStep(WorkerThread)
      <3>1. ~hasPollWork /\ pc[WorkerThread] # "exitEarly"
        BY <2>1, <2>8 DEF LastRun, PollStep, StartPoll, PollClient, InPollFn, EndRound,
          CheckTasks, ExitPollEarly, ExitPollIdle
      <3>2. CASE \E c \in Clients : PollClient(WorkerThread, c)
        BY <2>1, <3>2 DEF PollClient, schedule, workerVars, EndInv, LastRun
      <3>3. CASE StartPoll(WorkerThread) \/ EndRound(WorkerThread)
        <4>1. PICK point \in {"poll", "checkTasks", "exitIdle"} :
                pc' = [pc EXCEPT ![WorkerThread] = point]
          BY <3>3 DEF StartPoll, EndRound, NewRound
        <4>2. pc'[WorkerThread] = point
          BY <4>1 DEF ControlInv, ScheduleType
        <4>3. UNCHANGED <<hasPollWork, terminate>>
          BY <3>3 DEF StartPoll, EndRound, workerVars
        <4> QED BY <1>3, <3>1, <4>2, <4>3 DEF EndInv, LastRun
      <3>4. CASE CheckTasks(WorkerThread)
        BY <1>3, <2>1, <3>1, <3>4 DEF CheckTasks, OutOfBudget, schedule, workerVars,
          EndInv, LastRun, ControlInv, ScheduleType
      <3>5. CASE ExitPollIdle(WorkerThread)
        BY <1>3, <2>1, <3>1, <3>5 DEF ExitPollIdle, Settle, Leave, workerVars, EndInv,
          LastRun, ControlInv, ScheduleType
      <3> QED BY <2>8, <3>1, <3>2, <3>3, <3>4, <3>5 DEF PollStep, ExitPollEarly
    <2> QED BY <1>3, <2>3, <2>4, <2>5, <2>6, <2>7, <2>8 DEF Next
  <1> QED BY <1>1, <1>2, <1>3

-----------------------------------------------------------------------------
\* What the EC keeps for its clients, on top of its control and its types.
ServiceInv ==
  /\ AffinityFollows /\ CallProtocol /\ Registrations
  /\ NobodyElse /\ Teardown /\ EndInv

\* The invariant holds of every behaviour of the EC.
THEOREM ServiceInvariant == Spec => []ServiceInv
  <1>1. Init => ServiceInv
    BY InitAffinity, InitCalls, InitRegistrations, InitTeardown DEF ServiceInv
  <1>2. ASSUME ControlInv, TypeOK, ServiceInv, [Next]_vars PROVE ServiceInv'
    <2>1. ScheduleType /\ RunType /\ ListType /\ ClientType
      BY <1>2 DEF TypeOK
    <2>2. CallProtocol'
      BY <1>2, <2>1, NextCalls DEF ServiceInv
    <2>3. AffinityFollows' /\ Registrations'
      BY <1>2, <2>1, <2>2, NextAffinity, NextRegistrations DEF ServiceInv
    <2>4. NobodyElse' /\ Teardown' /\ EndInv'
      BY <1>2, <2>1, NextNobodyElse, NextTeardown, NextEnd DEF ServiceInv
    <2> QED BY <2>2, <2>3, <2>4 DEF ServiceInv
  <1> QED BY <1>1, <1>2, ControlInvariant, TypeCorrect, PTL DEF Spec

\* A value set for the affinity while the task is queued, or runs, is not lost.
THEOREM LastAffinityAppliesAlways == Spec => []LastAffinityApplies
  <1>1. ASSUME ControlInv, ServiceInv PROVE LastAffinityApplies
    <2> SUFFICES ASSUME state = "Stopped", affinityCaller = "idle",
                        destroyer = "none", affinity.requested # Unset
                 PROVE  affinity.current = affinity.requested
      BY DEF LastAffinityApplies
    <2>1. taskQueue = <<>> /\ ~OnDuty("affinity")
      BY <1>1 DEF ControlInv, StoppedHasNoWork, WakeUpMatchesState, Running, OnDuty
    <2>2. ~Pending("affinity")
      BY <2>1 DEF Pending, Range
    <2> QED BY <1>1, <2>2 DEF ServiceInv, AffinityFollows
  <1> QED BY <1>1, ControlInvariant, ServiceInvariant, PTL

\* Whoever has unregistered its poll and its notification may free both.
THEOREM NothingAfterUnregisterAlways == Spec => []NothingAfterUnregister
  <1>1. ASSUME TypeOK, ServiceInv PROVE NothingAfterUnregister
    <2> SUFFICES ASSUME NEW c \in Clients, call[c] = "none"
                 PROVE  /\ stage[c] \in {"destroyed", "created"} =>
                             /\ c \notin Range(pollList)
                             /\ \A x \in Contexts : ~InPollFn(x, c)
                        /\ stage[c] = "destroyed" => c \notin notifications /\ ~armed[c]
      BY DEF NothingAfterUnregister
    <2>1. Reached(c) = stage[c] /\ ListInv(c)
      BY <1>1 DEF Reached, ServiceInv, Registrations
    <2>2. ASSUME NEW x \in Contexts, InPollFn(x, c) PROVE c \in Range(pollList)
      <3>1. frame[x].next \in DOMAIN pollList /\ pollList[frame[x].next] = c
        <4>1. frame[x].next \in Nat \ {0} /\ pollList \in Seq(Clients)
          BY <1>1 DEF TypeOK, RunType, ListType, Frames
        <4> QED BY <2>2, <4>1, LenProperties DEF InPollFn
      <3> QED BY <3>1, InRange
    <2> QED BY <2>1, <2>2 DEF ListInv
  <1> QED BY <1>1, TypeCorrect, ServiceInvariant, PTL

\* A terminated EC has nothing registered or queued, and no wake-up is left.
THEOREM CleanTerminationAlways == Spec => []CleanTermination
  <1>1. ASSUME ControlInv, ServiceInv PROVE CleanTermination
    <2> SUFFICES ASSUME pc[WorkerThread] = "terminated"
                 PROVE  /\ Empty /\ taskQueue = <<>>
                        /\ state = "Stopped" /\ ~workerRequested /\ ~pollDpcQueued
      BY DEF CleanTermination, Empty
    <2>1. terminate /\ LastRun
      BY <1>1 DEF ServiceInv, EndInv
    <2>2. taskQueue = <<>> /\ Empty
      BY <1>1, <2>1 DEF ServiceInv, Teardown
    <2>3. state = "Stopped"
      BY <2>1 DEF LastRun
    <2> QED BY <1>1, <2>2, <2>3 DEF ControlInv, WakeUpMatchesState
  <1> QED BY <1>1, ControlInvariant, ServiceInvariant, PTL
===============================================================================
