--------------------------- MODULE DevicePnpPower ---------------------------
(****************************************************************************)
(* devicepnppower.cpp: the machine of the device, which hands the PnP and   *)
(* power events of WDF on to the adapters and buffer queues of the device.  *)
(*                                                                          *)
(* An operation of this machine calls into its adapters one after the other *)
(* and waits for most of them. The calls it has still to make are the       *)
(* sequence work: BeginOperation fills it, each step of AdapterWork and     *)
(* ListWork makes the first call, and with the last one the operation       *)
(* returns. Other threads run in between.                                   *)
(****************************************************************************)
EXTENDS AdapterPnpPower, SequencesExt

CONSTANTS BufferQueues,   \* the buffer queues of the device
          Owner,          \* the driver that created the adapters
          DeviceThread    \* the caller of NetAdapterStart and Stop that this
                          \* machine is

ASSUME DeviceAssumption == Owner \in Drivers /\ DeviceThread \in Callers

DeviceTables == INSTANCE DevicePnpPowerStateMachine
DeviceMachine == DeviceTables!Machine

VARIABLES
  deviceMachine,        \* the state machine of the device, as in SmFx
  work,                 \* the calls left to the operation that runs
  newAdapters,          \* m_newAdaptersList
  newBufferQueues,      \* m_newBufferQueueList
  adapterCollection,    \* m_adapterCollection
  bufferQueueCollection,\* m_bufferQueueCollection
  bufferQueue,          \* the state of each buffer queue
  wdfEventProcessed     \* the auto-reset event the WDF callbacks wait for

listVars == <<newAdapters, newBufferQueues, adapterCollection,
              bufferQueueCollection, bufferQueue>>
deviceVars == <<deviceMachine, work, listVars, wdfEventProcessed>>

Call(function, object) == [function |-> function, object |-> object]

\* The operations that make calls.
Operations == {"AdapterCreatedNoEventsToPlay", "AdapterCreatedPlayPowerUp",
  "AdapterCreatedPlaySurpriseRemove", "PoweringUp", "PoweringDownD1",
  "PoweringDownD2", "PoweringDownD3", "PoweringDownD3Final", "Stopping",
  "Restarting", "SurpriseRemoving", "Removed"}

DeviceTypeOK ==
  /\ \A i \in DOMAIN deviceMachine.stack :
       deviceMachine.stack[i] \in DOMAIN DeviceTables!States
  /\ \A i \in DOMAIN deviceMachine.queue :
       deviceMachine.queue[i] \in DeviceTables!Events
  /\ work # <<>> => deviceMachine.op \in Operations
  /\ newAdapters \in Seq(Adapters)
  /\ newBufferQueues \in Seq(BufferQueues)
  /\ adapterCollection \in Seq(Adapters)
  /\ bufferQueueCollection \in Seq(BufferQueues)
  /\ bufferQueue \in [BufferQueues -> {"absent", "stopped", "started"}]
  /\ wdfEventProcessed \in BOOLEAN

DeviceInit ==
  /\ deviceMachine = Started(DeviceMachine, NotInitialized)
  /\ work = <<>>
  /\ newAdapters = <<>>
  /\ newBufferQueues = <<>>
  /\ adapterCollection = <<>>
  /\ bufferQueueCollection = <<>>
  /\ bufferQueue = [q \in BufferQueues |-> "absent"]
  /\ wdfEventProcessed = FALSE

-----------------------------------------------------------------------------
(* What other threads call. The insertion in a list and the event are one   *)
(* action: whichever AdapterCreated event comes first empties both lists.   *)

EnqueueDeviceEvent(e) == deviceMachine' = Enqueued(deviceMachine, e)

AdapterCreated(a) ==
  /\ newAdapters' = Append(newAdapters, a)
  /\ EnqueueDeviceEvent("AdapterCreated")

BufferQueueCreated(q) ==
  /\ bufferQueue' = [bufferQueue EXCEPT ![q] = "stopped"]
  /\ newBufferQueues' = Append(newBufferQueues, q)
  /\ EnqueueDeviceEvent("AdapterCreated")

\* An operation walks the collection under its lock.
AdaptersWalked ==
  \E i \in DOMAIN work : \E j \in DOMAIN adapterCollection :
    work[i].object = adapterCollection[j]

AdapterDeleted(a) ==
  /\ ~AdaptersWalked
  /\ adapterCollection' = SelectSeq(adapterCollection, LAMBDA b : b # a)

-----------------------------------------------------------------------------
(* The calls each operation makes.                                          *)

ForEach(collection, functions) ==
  FlattenSeq([i \in DOMAIN collection |->
    [k \in DOMAIN functions |-> Call(functions[k], collection[i])]])

EachAdapter(functions) == ForEach(adapterCollection, functions)
EachBufferQueue(function) == ForEach(bufferQueueCollection, <<function>>)

\* What the operation has been asked to do to each new object comes with it.
ProcessNewAdapters(operation) == <<Call("ProcessNewAdapters", operation)>>
ProcessNewBufferQueues(operation) == <<Call("ProcessNewBufferQueues", operation)>>

NoEventsToPlay == ProcessNewAdapters("none") \o ProcessNewBufferQueues("none")
\* Mutant: a new adapter is not told that the device is in D0.
PlayNoPowerUp ==
  ProcessNewBufferQueues("QueueIoStart") \o ProcessNewAdapters("none")
PlayPowerUp ==
  ProcessNewBufferQueues("QueueIoStart") \o ProcessNewAdapters("IoStart")
PlaySurpriseRemove ==
  ProcessNewAdapters("SurpriseRemoved") \o ProcessNewBufferQueues("none")

\* Mutant: the adapters start before their buffer queues.
PoweringUpAdaptersFirst ==
  EachAdapter(<<"IoStart">>) \o EachBufferQueue("QueueIoStart")
PoweringUp == EachBufferQueue("QueueIoStart") \o EachAdapter(<<"IoStart">>)
PoweringDown(target) == EachAdapter(<<target>>) \o EachBufferQueue("QueueIoStop")
Stopping == EachAdapter(<<"StopByCx">>) \o EachBufferQueue("QueueIoFlush")
Restarting == EachAdapter(<<"PnPRebalance", "StopByOwner", "StartByCx">>)
SurpriseRemoving == EachAdapter(<<"SurpriseRemoved">>)

CallsOf(op) ==
  CASE op = "AdapterCreatedNoEventsToPlay"     -> NoEventsToPlay
    [] op = "AdapterCreatedPlayPowerUp"        -> PlayPowerUp
    [] op = "AdapterCreatedPlaySurpriseRemove" -> PlaySurpriseRemove
    [] op = "PoweringUp"                       -> PoweringUp
    [] op = "PoweringDownD1"                   -> PoweringDown("IoStopD1")
    [] op = "PoweringDownD2"                   -> PoweringDown("IoStopD2")
    [] op = "PoweringDownD3"                   -> PoweringDown("IoStopD3")
    [] op = "PoweringDownD3Final"              -> PoweringDown("IoStopD3Final")
    [] op = "Stopping"                         -> Stopping
    [] op = "Restarting"                       -> Restarting
    [] op = "SurpriseRemoving"                 -> SurpriseRemoving
    [] op = "Removed"                          -> <<>>

-----------------------------------------------------------------------------
(* The steps of the machine.                                                *)

DeviceUnchanged == UNCHANGED <<listVars, wdfEventProcessed>>
AdapterRestUnchanged == UNCHANGED <<ndisVars, ioEventProcessed, referenced>>

TakeDeviceEvent ==
  /\ CanDequeue(DeviceMachine, deviceMachine)
  /\ deviceMachine' = Dequeued(DeviceMachine, deviceMachine)
  /\ UNCHANGED work
  /\ DeviceUnchanged
  /\ UNCHANGED adapterVars

WdfEventProcessed ==
  /\ deviceMachine.op = "WdfEventProcessed"
  /\ wdfEventProcessed' = TRUE
  /\ deviceMachine' = Returned(DeviceMachine, deviceMachine, "GoToNextState")
  /\ UNCHANGED <<work, listVars, adapterVars>>

\* The machine goes on when no call is left.
ReturnWhenDone ==
  deviceMachine' = IF work' = <<>>
                   THEN Returned(DeviceMachine, deviceMachine, "GoToNextState")
                   ELSE deviceMachine

BeginOperation ==
  /\ deviceMachine.op \in Operations
  /\ work = <<>>
  /\ work' = CallsOf(deviceMachine.op)
  /\ ReturnWhenDone
  /\ DeviceUnchanged
  /\ UNCHANGED adapterVars

Working(function) == work # <<>> /\ Head(work).function = function
Object == Head(work).object
Continue(calls) == work' = calls \o Tail(work)

\* The operations on an adapter that wait put the wait in their place.
IoChange(function) ==
  /\ Working(function)
  /\ EnqueueEvent(Object, function)
  /\ Continue(<<Call("WaitIoEventProcessed", Object)>>)
  /\ UNCHANGED <<requestVars, ndisVars, ioEventProcessed, referenced>>

IoChanged ==
  /\ Working("WaitIoEventProcessed")
  /\ WaitIoEventProcessed(Object)
  /\ Continue(<<>>)
  /\ UNCHANGED <<adapterMachine, requestVars, ndisVars, referenced>>

EventOnly(function, event) ==
  /\ Working(function)
  /\ EnqueueEvent(Object, event)
  /\ Continue(<<>>)
  /\ UNCHANGED <<requestVars, ndisVars, ioEventProcessed, referenced>>

StopBy(function, driver) ==
  /\ Working(function)
  /\ NetAdapterStop(Object, DeviceThread, driver)
  /\ Continue(<<Call("WaitProcessed", Object)>>)
  /\ AdapterRestUnchanged

StartByCx ==
  /\ Working("StartByCx")
  /\ NetAdapterStart(Object, DeviceThread, NetAdapterCx)
  /\ Continue(<<Call("WaitProcessed", Object)>>)
  /\ AdapterRestUnchanged

RequestProcessed ==
  /\ Working("WaitProcessed")
  /\ CallReturns(Object, DeviceThread)
  /\ Continue(<<>>)
  /\ UNCHANGED adapterMachine
  /\ AdapterRestUnchanged

\* The calls that concern adapters of the collection or new ones.
AdapterWork ==
  /\ \/ \E f \in {"IoStart", "IoStopD1", "IoStopD2", "IoStopD3",
                  "IoStopD3Final"} : IoChange(f)
     \/ IoChanged
     \/ EventOnly("SurpriseRemoved", "SurpriseRemove")
     \/ EventOnly("PnPRebalance", "DeviceRestart")
     \/ StopBy("StopByCx", NetAdapterCx)
     \/ StopBy("StopByOwner", Owner)
     \/ StartByCx
     \/ RequestProcessed
  /\ ReturnWhenDone
  /\ DeviceUnchanged

\* The next new adapter, or none left: the list is read again each time.
NextNewAdapter ==
  /\ Working("ProcessNewAdapters")
  /\ IF newAdapters = <<>>
     THEN Continue(<<>>) /\ UNCHANGED newAdapters
     ELSE LET a == Head(newAdapters) IN
            /\ newAdapters' = Tail(newAdapters)
            /\ Continue((IF Object = "none" THEN <<>> ELSE <<Call(Object, a)>>)
                          \o <<Call("AddAdapter", a), Head(work)>>)
  /\ UNCHANGED <<newBufferQueues, adapterCollection, bufferQueueCollection,
                 bufferQueue>>

\* Added, and the event that the creator waits for is set.
AddAdapter ==
  /\ Working("AddAdapter")
  /\ adapterCollection' = Append(adapterCollection, Object)
  /\ Continue(<<>>)
  /\ UNCHANGED <<newAdapters, newBufferQueues, bufferQueueCollection, bufferQueue>>

NextNewBufferQueue ==
  /\ Working("ProcessNewBufferQueues")
  /\ IF newBufferQueues = <<>>
     THEN Continue(<<>>) /\ UNCHANGED newBufferQueues
     ELSE LET q == Head(newBufferQueues) IN
            /\ newBufferQueues' = Tail(newBufferQueues)
            /\ Continue((IF Object = "none" THEN <<>> ELSE <<Call(Object, q)>>)
                          \o <<Call("AddBufferQueue", q), Head(work)>>)
  /\ UNCHANGED <<newAdapters, adapterCollection, bufferQueueCollection,
                 bufferQueue>>

AddBufferQueue ==
  /\ Working("AddBufferQueue")
  /\ bufferQueueCollection' = Append(bufferQueueCollection, Object)
  /\ Continue(<<>>)
  /\ UNCHANGED <<newAdapters, newBufferQueues, adapterCollection, bufferQueue>>

\* IoStart, IoStop and IoFlush of a buffer queue exchange its poll functions;
\* IoFlush returns when the driver has returned every buffer.
BufferQueueCall(function, state) ==
  /\ Working(function)
  /\ bufferQueue' = [bufferQueue EXCEPT ![Object] = state]
  /\ Continue(<<>>)
  /\ UNCHANGED <<newAdapters, newBufferQueues, adapterCollection,
                 bufferQueueCollection>>

ListWork ==
  /\ \/ NextNewAdapter \/ AddAdapter
     \/ NextNewBufferQueue \/ AddBufferQueue
     \/ BufferQueueCall("QueueIoStart", "started")
     \/ BufferQueueCall("QueueIoStop", "stopped")
     \/ BufferQueueCall("QueueIoFlush", "stopped")
  /\ ReturnWhenDone
  /\ UNCHANGED <<wdfEventProcessed, adapterVars>>

DeviceStep ==
  \/ TakeDeviceEvent \/ WdfEventProcessed
  \/ BeginOperation \/ AdapterWork \/ ListWork
=============================================================================
