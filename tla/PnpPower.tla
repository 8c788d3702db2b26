------------------------------ MODULE PnpPower ------------------------------
(****************************************************************************)
(* The device, its adapters and their threads: the PnP callbacks that WDF   *)
(* calls one after the other, a surprise removal beside them, the threads   *)
(* that create adapters and buffer queues, the client driver that starts    *)
(* and stops its adapters, the arrival of network interfaces, and the       *)
(* destruction of the objects.                                              *)
(****************************************************************************)
EXTENDS DevicePnpPower

CONSTANTS CreatorThread,   \* the thread inside NetAdapterCreate
          ClientThread,    \* the thread the client driver calls from
          LowPower,        \* the power down events but the final one
          AdaptersIn,      \* where WDF may be when the driver creates an adapter
          BufferQueuesIn,  \* and a buffer queue
          MaxRestarts      \* bounds how often WDF starts the device again

ASSUME PnpAssumption == /\ {CreatorThread, ClientThread} \subseteq Callers
                        /\ AdaptersIn \cup BufferQueuesIn
                             \subseteq {"Added", "Prepared", "D0", "Dx"}
                        /\ MaxRestarts \in Nat

VARIABLES
  wdf,        \* where WDF is: the last callback that returned
  callback,   \* where it will be when the callback that runs returns
  surprise,   \* the device was surprise removed
  restarts,   \* how often the device was started again
  creation    \* how far each adapter is

pnpVars == <<wdf, callback, surprise, restarts, creation>>
vars == <<adapterVars, deviceVars, pnpVars>>

None == "none"
WdfStates == {"Added", "Prepared", "D0", "Dx", "D3Final", "Released", "Failed",
              "Removing", "Removed"}
CreationSteps == {"none", "initialized", "announced", "starting", "created",
                  "failed", "unlisted", "cleanedUp", "destroyed"}

TypeOK ==
  /\ AdapterTypeOK
  /\ DeviceTypeOK
  /\ wdf \in WdfStates
  /\ callback \in WdfStates \cup {None}
  /\ surprise \in BOOLEAN
  /\ restarts \in 0..MaxRestarts
  /\ creation \in [Adapters -> CreationSteps]

Init ==
  /\ AdapterInit
  /\ DeviceInit
  /\ wdf = "Added"
  /\ callback = None
  /\ surprise = FALSE
  /\ restarts = 0
  /\ creation = [a \in Adapters |-> "none"]

-----------------------------------------------------------------------------
(* The callbacks of WDF. Each enqueues an event, waits for the answer of    *)
(* the device and returns. The device is not stopped for good while the     *)
(* driver is inside NetAdapterCreate: see the hazards in README.md.         *)

NotCreating ==
  \A a \in Adapters : creation[a] \notin {"initialized", "announced", "starting"}

WdfCalls(from, event, to) ==
  /\ callback = None
  /\ wdf \in from
  /\ EnqueueDeviceEvent(event)
  /\ callback' = to
  /\ UNCHANGED <<adapterVars, work, listVars, wdfEventProcessed, wdf, surprise,
                 creation>>

PrePrepareHardware ==
  /\ ~surprise
  /\ wdf = "Released" => restarts < MaxRestarts
  /\ WdfCalls({"Added", "Released"}, "Start", "Prepared")
  /\ restarts' = IF wdf = "Released" THEN restarts + 1 ELSE restarts

\* A device that never reached D0 is not started again.
PreReleaseHardware ==
  /\ NotCreating
  /\ \/ WdfCalls({"Prepared"}, "Stop", "Failed")
     \/ WdfCalls({"D3Final"}, "Stop", "Released")
     \/ surprise /\ WdfCalls({"Dx"}, "Stop", "Released")
  /\ UNCHANGED restarts

PostHardwareEnabled ==
  /\ WdfCalls({"Prepared", "Dx"}, "PowerUp", "D0")
  /\ UNCHANGED restarts

PreHardwareDisabled ==
  /\ \/ \E e \in LowPower : WdfCalls({"D0"}, e, "Dx")
     \/ NotCreating /\ WdfCalls({"D0"}, "PowerDownD3Final", "D3Final")
  /\ UNCHANGED restarts

CallbackReturns ==
  /\ callback # None
  /\ wdfEventProcessed
  /\ wdfEventProcessed' = FALSE
  /\ wdf' = callback
  /\ callback' = None
  /\ UNCHANGED <<adapterVars, deviceMachine, work, listVars, surprise, restarts,
                 creation>>

\* WDF does not serialize this callback with those that change power. It does
\* come between the other PnP callbacks only.
PreSurpriseRemoval ==
  /\ ~surprise
  /\ \/ callback = None /\ wdf = "Added" /\ NotCreating
     \/ callback = None /\ wdf \in {"D0", "Dx"}
     \/ <<wdf, callback>> \in {<<"D0", "Dx">>, <<"Dx", "D0">>}
  /\ surprise' = TRUE
  /\ EnqueueDeviceEvent("SurpriseRemove")
  /\ UNCHANGED <<adapterVars, work, listVars, wdfEventProcessed, wdf, callback,
                 restarts, creation>>

\* EvtDeviceCleanup. No driver is inside NetAdapterCreate any more; the adapters
\* are cleaned up before or after.
DeviceCleanup ==
  /\ callback = None
  /\ wdf \in {"Added", "Released", "Failed"}
  /\ NotCreating
  /\ wdf' = "Removing"
  /\ EnqueueDeviceEvent("Cleanup")
  /\ UNCHANGED <<adapterVars, work, listVars, wdfEventProcessed, callback,
                 surprise, restarts, creation>>

\* The destructor, when every child of the device is gone.
DestroyDevice ==
  /\ wdf = "Removing"
  /\ \A a \in Adapters : creation[a] \in {"none", "destroyed"}
  /\ wdf' = "Removed"
  /\ EnqueueDeviceEvent("Destroy")
  /\ UNCHANGED <<adapterVars, work, listVars, wdfEventProcessed, callback,
                 surprise, restarts, creation>>

-----------------------------------------------------------------------------
(* NetAdapterCreate: NxAdapter::Initialize, and the deletion of the object  *)
(* when it fails. NetBufferQueueCreate.                                     *)

\* The driver creates objects once the device is added and as long as it is not
\* about to stop.
MayCreate(states) ==
  /\ wdf \in states
  /\ wdf = "Added" => ~surprise
  /\ callback \in {None, "Prepared", "D0", "Dx"}

OthersUnchanged == UNCHANGED <<wdf, callback, surprise, restarts>>

CreateAdapter(a) ==
  /\ creation[a] = "none"
  /\ MayCreate(AdaptersIn)
  /\ InitializeAdapter(a)
  /\ creation' = [creation EXCEPT ![a] = "initialized"]
  /\ UNCHANGED <<requestVars, ndisVars, ioEventProcessed, deviceVars>>
  /\ OthersUnchanged

AnnounceAdapter(a) ==
  /\ creation[a] = "initialized"
  /\ AdapterCreated(a)
  /\ creation' = [creation EXCEPT ![a] = "announced"]
  /\ UNCHANGED <<adapterVars, work, newBufferQueues, adapterCollection,
                 bufferQueueCollection, bufferQueue, wdfEventProcessed>>
  /\ OthersUnchanged

\* The driver may start by default: NetAdapterCx withdraws its own objection.
StartByDefault(a) ==
  /\ creation[a] = "announced"
  /\ a \in Range(adapterCollection)
  /\ NetAdapterStart(a, CreatorThread, NetAdapterCx)
  /\ creation' = [creation EXCEPT ![a] = "starting"]
  /\ AdapterRestUnchanged
  /\ UNCHANGED deviceVars
  /\ OthersUnchanged

CreateReturns(a) ==
  /\ creation[a] = "starting"
  /\ CallReturns(a, CreatorThread)
  /\ creation' = [creation EXCEPT ![a] =
       IF call[a][CreatorThread].result = "success" THEN "created" ELSE "failed"]
  /\ UNCHANGED <<adapterMachine, deviceVars>>
  /\ AdapterRestUnchanged
  /\ OthersUnchanged

CreateBufferQueue(q) ==
  /\ bufferQueue[q] = "absent"
  /\ MayCreate(BufferQueuesIn)
  /\ BufferQueueCreated(q)
  /\ UNCHANGED <<adapterVars, work, newAdapters, adapterCollection,
                 bufferQueueCollection, wdfEventProcessed, creation>>
  /\ OthersUnchanged

-----------------------------------------------------------------------------
(* The client driver and NDIS.                                              *)

ClientUnchanged == UNCHANGED <<deviceVars, pnpVars>> /\ AdapterRestUnchanged

ClientStart(a) ==
  /\ creation[a] = "created"
  /\ ~DriverStartedAdapter(a, Owner)
  /\ NetAdapterStart(a, ClientThread, Owner)
  /\ ClientUnchanged

ClientStop(a) ==
  /\ creation[a] = "created"
  /\ NetAdapterStop(a, ClientThread, Owner)
  /\ ClientUnchanged

ClientReturns(a) ==
  /\ CallReturns(a, ClientThread)
  /\ UNCHANGED adapterMachine
  /\ ClientUnchanged

\* NetInterfaceChangeNotification: the handle it opens, and what it does then.
OpenInterface(a) ==
  /\ arrival[a] = "pending"
  /\ interface[a] = "started"
  /\ arrival' = [arrival EXCEPT ![a] = "opened"]
  /\ UNCHANGED <<adapterMachine, requestVars, interface, datapath,
                 ioEventProcessed, referenced, deviceVars, pnpVars>>

IoInterfaceArrived(a) ==
  /\ arrival[a] = "opened"
  /\ arrival' = [arrival EXCEPT ![a] = "none"]
  /\ EnqueueEvent(a, "IoInterfaceArrival")
  /\ UNCHANGED <<requestVars, interface, datapath, ioEventProcessed,
                 referenced, deviceVars, pnpVars>>

-----------------------------------------------------------------------------
(* The adapter object goes: when its creation failed, when the driver       *)
(* deletes it after it has stopped it, or with the device.                  *)

MayDelete(a) ==
  \/ creation[a] = "failed"
  \/ /\ creation[a] = "created"
     /\ call[a][ClientThread].status = "none"
     /\ \/ wdf = "Removing" /\ deviceMachine.stack = <<"Removed">>
        \/ ~driverState[a][Owner].Started

\* EvtCleanup, first half: the adapter leaves the collection of the device.
UnlistAdapter(a) ==
  /\ MayDelete(a)
  /\ AdapterDeleted(a)
  /\ creation' = [creation EXCEPT ![a] = "unlisted"]
  /\ UNCHANGED <<adapterVars, deviceMachine, work, newAdapters, newBufferQueues,
                 bufferQueueCollection, bufferQueue, wdfEventProcessed>>
  /\ OthersUnchanged

\* Second half: no notification is running or comes any more.
CleanUpAdapter(a) ==
  /\ creation[a] = "unlisted"
  /\ arrival[a] # "opened"
  /\ arrival' = [arrival EXCEPT ![a] = "none"]
  /\ EnqueueEvent(a, "Cleanup")
  /\ creation' = [creation EXCEPT ![a] = "cleanedUp"]
  /\ UNCHANGED <<requestVars, interface, datapath, ioEventProcessed,
                 referenced, deviceVars>>
  /\ OthersUnchanged

\* The destructor, once the last reference is gone.
DestroyAdapter(a) ==
  /\ creation[a] = "cleanedUp"
  /\ ~referenced[a]
  /\ EnqueueEvent(a, "Destroy")
  /\ creation' = [creation EXCEPT ![a] = "destroyed"]
  /\ UNCHANGED <<requestVars, ndisVars, ioEventProcessed, referenced, deviceVars>>
  /\ OthersUnchanged

AdapterRuns(a) == AdapterStep(a) /\ UNCHANGED <<deviceVars, pnpVars>>
DeviceRuns == DeviceStep /\ UNCHANGED pnpVars

WdfThread ==
  \/ PrePrepareHardware \/ PreReleaseHardware \/ PostHardwareEnabled
  \/ PreHardwareDisabled \/ CallbackReturns \/ PreSurpriseRemoval
  \/ DeviceCleanup \/ DestroyDevice

AdapterThreads(a) ==
  \/ CreateAdapter(a) \/ AnnounceAdapter(a) \/ StartByDefault(a) \/ CreateReturns(a)
  \/ ClientStart(a) \/ ClientStop(a) \/ ClientReturns(a)
  \/ OpenInterface(a) \/ IoInterfaceArrived(a)
  \/ UnlistAdapter(a) \/ CleanUpAdapter(a) \/ DestroyAdapter(a)

\* Everything has been destroyed: the end of the story.
Gone ==
  /\ wdf = "Removed"
  /\ deviceMachine.stack = <<>>
  /\ \A a \in Adapters : adapterMachine[a].stack = <<>>
Terminating == Gone /\ UNCHANGED vars

Next ==
  \/ DeviceRuns \/ WdfThread \/ Terminating
  \/ \E a \in Adapters : AdapterRuns(a) \/ AdapterThreads(a)
  \/ \E q \in BufferQueues : CreateBufferQueue(q)

Spec == Init /\ [][Next]_vars

-----------------------------------------------------------------------------
(* What must hold.                                                          *)

\* nxadapter.cpp:846: while a notification runs, the adapter object is kept.
NotificationIsSafe == \A a \in Adapters : arrival[a] = "opened" => referenced[a]

LegalCalls ==
  \A a \in Adapters :
    LET op == adapterMachine[a].op
        started == interface[a] = "started"
    IN /\ op \in {"StartIo", "StartIoD0"} => started /\ ~datapath[a]
       /\ op \in {"StopIoD1", "StopIoD2", "StopIoD3", "StopIoD3Final"} =>
            started /\ datapath[a]
       /\ op = "StartNetworkInterface" => interface[a] = "halted" /\ ~datapath[a]
       /\ op \in {"StopNetworkInterface", "ReportSurpriseRemoval"} =>
            started /\ ~datapath[a]
       /\ op = "AllowBindings" => started /\ datapath[a]

\* No event reaches a state that has no transition for it. The one exception
\* is an arrival whose notification was running when the interface stopped.
EventsAreExpected ==
  /\ deviceMachine.unhandled = {}
  /\ \A a \in Adapters :
       adapterMachine[a].unhandled
         \subseteq {<<"InterfaceStopped", "IoInterfaceArrival">>}

\* NDIS and the data path machine are called in an order they can follow: the
\* interface is started once before it is stopped, the data path exists within
\* that time only, a removed interface has no data path, protocols may bind
\* only when packets can flow, and no notification of an arrival finds the
\* adapter freed. Nor do the machines get an event that they do not expect.
NdisContract == LegalCalls /\ NotificationIsSafe /\ EventsAreExpected

\* An interface runs only while no driver, and not NetAdapterCx, wants the
\* adapter stopped.
StartedByAll ==
  \A a \in Adapters : interface[a] = "started" =>
    \A d \in Drivers : driverState[a][d].Started \/ driverState[a][d].StartInProgress

\* WDF has been told that the device has left D0: no adapter has a data path.
\* After a surprise removal that is so from the release of the hardware on
\* only. With the hardware released, no interface is started either.
OutsideD0 ==
  /\ callback = None
  /\ wdf \notin {"D0", "Dx", "D3Final"} \/ (wdf # "D0" /\ ~surprise)
NoIoOutsideD0 ==
  OutsideD0 => \A a \in Adapters :
    /\ ~datapath[a]
    /\ wdf \in {"Released", "Failed"} => interface[a] # "started"

\* In D0, with nothing left to do, exactly the adapters that are started have a
\* data path: neither a start nor a power event is forgotten, whichever comes
\* first.
AdaptersQuiet == \A a \in Adapters : Idle(AdapterTables, adapterMachine[a])
AllQuiet == AdaptersQuiet /\ Idle(DeviceMachine, deviceMachine)
D0MeansIo ==
  wdf = "D0" /\ callback = None /\ ~surprise /\ AllQuiet =>
    \A a \in Range(adapterCollection) :
      datapath[a] <=> \A d \in Drivers : driverState[a][d].Started

\* I/O follows both the power state and the drivers' requests: a start or stop
\* that meets a power event neither gets lost nor runs an adapter too long.
IoFollowsPowerAndDrivers == StartedByAll /\ NoIoOutsideD0 /\ D0MeansIo

\* Buffer queues of the device hand out buffers whenever a data path may want
\* one: they start before it and stop after it.
BuffersOutlastDatapath ==
  (\E a \in Adapters : datapath[a]) /\ ~surprise =>
    \A q \in Range(bufferQueueCollection) : bufferQueue[q] = "started"

\* Nobody waits for ever. When no adapter's machine has anything to do, every
\* call into an adapter, of the device or of a driver, has its answer and an
\* adapter that was cleaned up may go; when the device has nothing to do either,
\* WDF has its answer too and no new object is left in a list.
NobodyIsStuck ==
  /\ AdaptersQuiet =>
       /\ Working("WaitIoEventProcessed") => ioEventProcessed[Object]
       /\ \A a \in Adapters :
            /\ \A c \in Callers : call[a][c].status # "waiting"
            /\ creation[a] = "cleanedUp" => ~referenced[a]
  /\ AllQuiet =>
       /\ callback # None => wdfEventProcessed
       /\ newAdapters = <<>> /\ newBufferQueues = <<>>
       /\ \A a \in Adapters :
            creation[a] = "announced" => a \in Range(adapterCollection)
=============================================================================
