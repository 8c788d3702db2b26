--------------------------- MODULE AdapterPnpPower ---------------------------
(****************************************************************************)
(* adapterpnppower.cpp: how one NETADAPTER follows the power state of its   *)
(* device and the NetAdapterStart and NetAdapterStop calls of its drivers.  *)
(* A state machine per adapter (tables in AdapterPnpPowerStateMachine)      *)
(* takes the events; a thread that starts or stops the adapter, or the I/O  *)
(* of the adapter, waits for the machine to answer.                         *)
(*                                                                          *)
(* Below the machine are NDIS, whose view of the adapter is interface, and  *)
(* the data path machine of NxAdapter, of which only the outcome is kept    *)
(* here: datapath says that the data path is created. The module NxAdapter  *)
(* shows what that machine makes of the calls.                              *)
(****************************************************************************)
EXTENDS SmFx, FiniteSets

CONSTANTS Adapters,       \* the adapters of the device
          Drivers,        \* the drivers that may start and stop an adapter
          NetAdapterCx,   \* the class extension, one of them
          Callers         \* the threads that call NetAdapterStart and Stop

ASSUME DriversAssumption == NetAdapterCx \in Drivers

Tables == INSTANCE AdapterPnpPowerStateMachine
AdapterTables == Tables!Machine

VARIABLES
  adapterMachine,      \* the state machine of each adapter, as in SmFx
  driverState,         \* [Started, StartInProgress] of each driver
  startRequests,       \* m_startRequests: the callers that wait, oldest first
  stopRequests,        \* m_stopRequests
  netAdapterStartContext,   \* the caller whose request is being processed
  netAdapterStopContext,
  call,                \* what each caller has asked for and its answer
  ioEventProcessed,    \* the auto-reset event IoStart and IoStop wait for
  interface,           \* NDIS: "halted", "started" or "surpriseRemoved"
  datapath,            \* the data path of the adapter is created
  arrival,             \* the arrival notification of the network interface
  referenced           \* the reference Initialize takes and Deleted drops

adapterVars ==
  <<adapterMachine, driverState, startRequests, stopRequests,
    netAdapterStartContext, netAdapterStopContext, call, ioEventProcessed,
    interface, datapath, arrival, referenced>>

requestVars == <<startRequests, stopRequests, netAdapterStartContext,
                 netAdapterStopContext, call, driverState>>
ndisVars == <<interface, datapath, arrival>>

Nobody == "nobody"
NoCall == [status |-> "none", driver |-> NetAdapterCx, result |-> "unsuccessful"]
Calls == [status : {"none", "waiting", "processed"}, driver : Drivers,
          result : {"unsuccessful", "success", "invalidDeviceRequest", "failed"}]

AdapterTypeOK ==
  /\ \A a \in Adapters :
       /\ \A i \in DOMAIN adapterMachine[a].stack :
            adapterMachine[a].stack[i] \in DOMAIN Tables!States
       /\ \A i \in DOMAIN adapterMachine[a].queue :
            adapterMachine[a].queue[i] \in Tables!Events
       /\ Len(adapterMachine[a].stack) <= 3
  /\ driverState \in
       [Adapters -> [Drivers -> [Started : BOOLEAN, StartInProgress : BOOLEAN]]]
  /\ startRequests \in [Adapters -> Seq(Callers)]
  /\ stopRequests \in [Adapters -> Seq(Callers)]
  /\ netAdapterStartContext \in [Adapters -> Callers \cup {Nobody}]
  /\ netAdapterStopContext \in [Adapters -> Callers \cup {Nobody}]
  /\ call \in [Adapters -> [Callers -> Calls]]
  /\ ioEventProcessed \in [Adapters -> BOOLEAN]
  /\ interface \in [Adapters -> {"halted", "started", "surpriseRemoved"}]
  /\ datapath \in [Adapters -> BOOLEAN]
  /\ arrival \in [Adapters -> {"none", "pending", "opened"}]
  /\ referenced \in [Adapters -> BOOLEAN]

AdapterInit ==
  /\ adapterMachine = [a \in Adapters |-> NotInitialized]
  /\ driverState = [a \in Adapters |->
       [d \in Drivers |-> [Started |-> FALSE, StartInProgress |-> FALSE]]]
  /\ startRequests = [a \in Adapters |-> <<>>]
  /\ stopRequests = [a \in Adapters |-> <<>>]
  /\ netAdapterStartContext = [a \in Adapters |-> Nobody]
  /\ netAdapterStopContext = [a \in Adapters |-> Nobody]
  /\ call = [a \in Adapters |-> [c \in Callers |-> NoCall]]
  /\ ioEventProcessed = [a \in Adapters |-> FALSE]
  /\ interface = [a \in Adapters |-> "halted"]
  /\ datapath = [a \in Adapters |-> FALSE]
  /\ arrival = [a \in Adapters |-> "none"]
  /\ referenced = [a \in Adapters |-> FALSE]

-----------------------------------------------------------------------------
(* The calls other threads make. Each enqueues an event; those that wait do *)
(* so in an action of the caller. A caller that inserts its request in the  *)
(* list and then enqueues the event is one action: the machine takes the    *)
(* oldest request whichever event arrives first.                            *)

EnqueueEvent(a, e) ==
  adapterMachine' = [adapterMachine EXCEPT ![a] = Enqueued(@, e)]

\* The constructor and Initialize: a machine in its initial state, and a
\* reference on the adapter until the machine has seen Cleanup.
InitializeAdapter(a) ==
  /\ adapterMachine' =
       [adapterMachine EXCEPT ![a] = Started(AdapterTables, @)]
  /\ referenced' = [referenced EXCEPT ![a] = TRUE]

NetAdapterStart(a, c, d) ==
  /\ call[a][c].status = "none"
  /\ call' = [call EXCEPT ![a][c] = [NoCall EXCEPT !.status = "waiting", !.driver = d]]
  /\ startRequests' = [startRequests EXCEPT ![a] = Append(@, c)]
  /\ EnqueueEvent(a, "NetAdapterStart")
  /\ UNCHANGED <<driverState, stopRequests, netAdapterStartContext,
                 netAdapterStopContext>>

NetAdapterStop(a, c, d) ==
  /\ call[a][c].status = "none"
  /\ call' = [call EXCEPT ![a][c] = [NoCall EXCEPT !.status = "waiting", !.driver = d]]
  /\ stopRequests' = [stopRequests EXCEPT ![a] = Append(@, c)]
  /\ EnqueueEvent(a, "NetAdapterStop")
  /\ UNCHANGED <<driverState, startRequests, netAdapterStartContext,
                 netAdapterStopContext>>

\* NetAdapterStart or NetAdapterStop returns to its caller.
CallReturns(a, c) ==
  /\ call[a][c].status = "processed"
  /\ call' = [call EXCEPT ![a][c] = NoCall]
  /\ UNCHANGED <<driverState, startRequests, stopRequests,
                 netAdapterStartContext, netAdapterStopContext>>

\* The verifier stops a driver that starts an adapter it has started already.
DriverStartedAdapter(a, d) == driverState[a][d].Started

\* The I/O events, and the wait for the answer to one of them.
IoStart(a) == EnqueueEvent(a, "IoStart")
IoStop(a, target) == EnqueueEvent(a, target)
WaitIoEventProcessed(a) ==
  /\ ioEventProcessed[a]
  /\ ioEventProcessed' = [ioEventProcessed EXCEPT ![a] = FALSE]

SurpriseRemoved(a) == EnqueueEvent(a, "SurpriseRemove")
PnPRebalance(a) == EnqueueEvent(a, "DeviceRestart")

-----------------------------------------------------------------------------
(* The entry functions. Each runs when the machine has it to run, returns   *)
(* an event, and the machine moves on.                                      *)

Runs(a, op) == adapterMachine[a].op = op

Return(a, e) ==
  adapterMachine' =
    [adapterMachine EXCEPT ![a] = Returned(AdapterTables, @, e)]

GoToNextState(a) == Return(a, "GoToNextState")

TakeEvent(a) ==
  /\ CanDequeue(AdapterTables, adapterMachine[a])
  /\ adapterMachine' =
       [adapterMachine EXCEPT ![a] = Dequeued(AdapterTables, @)]
  /\ UNCHANGED <<requestVars, ndisVars, ioEventProcessed, referenced>>

ShouldStartNetworkInterface(a) ==
  /\ Runs(a, "ShouldStartNetworkInterface")
  /\ Return(a, IF \A d \in Drivers : \/ driverState[a][d].Started
                                     \/ driverState[a][d].StartInProgress
               THEN "Yes" ELSE "No")
  /\ UNCHANGED <<requestVars, ndisVars, ioEventProcessed, referenced>>

SetResult(a, result) ==
  call' = [call EXCEPT ![a][netAdapterStartContext[a]].result = result]

DeferStartNetworkInterface(a) ==
  /\ Runs(a, "DeferStartNetworkInterface")
  /\ SetResult(a, "success")
  /\ GoToNextState(a)
  /\ UNCHANGED <<driverState, startRequests, stopRequests, ndisVars, referenced,
                 netAdapterStartContext, netAdapterStopContext, ioEventProcessed>>

StartNetworkInterfaceInvalidDeviceState(a) ==
  /\ Runs(a, "StartNetworkInterfaceInvalidDeviceState")
  /\ SetResult(a, "invalidDeviceRequest")
  /\ GoToNextState(a)
  /\ UNCHANGED <<driverState, startRequests, stopRequests, ndisVars, referenced,
                 netAdapterStartContext, netAdapterStopContext, ioEventProcessed>>

\* Mutant: the status of NDIS is not looked at.
StartNetworkInterfaceUnchecked(a) ==
  /\ Runs(a, "StartNetworkInterface")
  /\ Return(a, "Success")
  /\ \/ SetResult(a, "failed") /\ UNCHANGED ndisVars
     \/ /\ SetResult(a, "success")
        /\ interface' = [interface EXCEPT ![a] = "started"]
        /\ arrival' = [arrival EXCEPT ![a] = IF @ = "opened" THEN @ ELSE "pending"]
        /\ UNCHANGED datapath
  /\ UNCHANGED <<driverState, startRequests, stopRequests, referenced,
                 netAdapterStartContext, netAdapterStopContext, ioEventProcessed>>

\* Registering the ring extensions or starting the miniport may fail. When
\* NDIS has started the miniport it will announce the interface.
StartNetworkInterface(a) ==
  /\ Runs(a, "StartNetworkInterface")
  /\ \/ /\ SetResult(a, "failed")
        /\ Return(a, "Fail")
        /\ UNCHANGED ndisVars
     \/ /\ SetResult(a, "success")
        /\ Return(a, "Success")
        /\ interface' = [interface EXCEPT ![a] = "started"]
        /\ arrival' = [arrival EXCEPT ![a] = IF @ = "opened" THEN @ ELSE "pending"]
        /\ UNCHANGED datapath
  /\ UNCHANGED <<driverState, startRequests, stopRequests, referenced,
                 netAdapterStartContext, netAdapterStopContext, ioEventProcessed>>

\* NDIS halts the miniport; an announcement nobody has opened yet is void.
StopNetworkInterface(a) ==
  /\ Runs(a, "StopNetworkInterface")
  /\ interface' = [interface EXCEPT ![a] = "halted"]
  /\ arrival' = [arrival EXCEPT ![a] = IF @ = "opened" THEN @ ELSE "none"]
  /\ GoToNextState(a)
  /\ UNCHANGED <<requestVars, datapath, ioEventProcessed, referenced>>

StopNetworkInterfaceNoOp(a) ==
  /\ Runs(a, "StopNetworkInterfaceNoOp")
  /\ GoToNextState(a)
  /\ UNCHANGED <<requestVars, ndisVars, ioEventProcessed, referenced>>

\* DatapathCreate and DatapathDestroy, each with the wait for the data path
\* machine. The calls that tell NDIS of the new power state are left out.
SetDatapath(a, created) ==
  /\ datapath' = [datapath EXCEPT ![a] = created]
  /\ GoToNextState(a)
  /\ UNCHANGED <<requestVars, interface, arrival, ioEventProcessed,
                 referenced>>

StartIo(a)       == Runs(a, "StartIo") /\ SetDatapath(a, TRUE)
StartIoD0(a)     == Runs(a, "StartIoD0") /\ SetDatapath(a, TRUE)
StopIoD1(a)      == Runs(a, "StopIoD1") /\ SetDatapath(a, FALSE)
StopIoD2(a)      == Runs(a, "StopIoD2") /\ SetDatapath(a, FALSE)
StopIoD3(a)      == Runs(a, "StopIoD3") /\ SetDatapath(a, FALSE)
StopIoD3Final(a) == Runs(a, "StopIoD3Final") /\ SetDatapath(a, FALSE)

IoEventProcessed(a) ==
  /\ Runs(a, "IoEventProcessed")
  /\ ioEventProcessed' = [ioEventProcessed EXCEPT ![a] = TRUE]
  /\ GoToNextState(a)
  /\ UNCHANGED <<requestVars, ndisVars, referenced>>

\* NDIS may let protocols bind to the interface.
AllowBindings(a) ==
  /\ Runs(a, "AllowBindings")
  /\ GoToNextState(a)
  /\ UNCHANGED <<requestVars, ndisVars, ioEventProcessed, referenced>>

ReportSurpriseRemoval(a) ==
  /\ Runs(a, "ReportSurpriseRemoval")
  /\ interface' = [interface EXCEPT ![a] = "surpriseRemoved"]
  /\ GoToNextState(a)
  /\ UNCHANGED <<requestVars, datapath, arrival, ioEventProcessed,
                 referenced>>

DeviceReleased(a) ==
  /\ Runs(a, "DeviceReleased")
  /\ GoToNextState(a)
  /\ UNCHANGED <<requestVars, ndisVars, ioEventProcessed, referenced>>

\* The adapter object may go from now on.
Deleted(a) ==
  /\ Runs(a, "Deleted")
  /\ referenced' = [referenced EXCEPT ![a] = FALSE]
  /\ GoToNextState(a)
  /\ UNCHANGED <<requestVars, ndisVars, ioEventProcessed>>

DequeueNetAdapterStart(a) ==
  /\ Runs(a, "DequeueNetAdapterStart")
  /\ LET c == Head(startRequests[a]) IN
       /\ netAdapterStartContext' = [netAdapterStartContext EXCEPT ![a] = c]
       /\ driverState' =
            [driverState EXCEPT ![a][call[a][c].driver].StartInProgress = TRUE]
  /\ startRequests' = [startRequests EXCEPT ![a] = Tail(@)]
  /\ GoToNextState(a)
  /\ UNCHANGED <<stopRequests, netAdapterStopContext, call, ndisVars,
                 ioEventProcessed, referenced>>

\* Mutant: a caller whose request failed is not told.
CompleteSuccessfulStart(a) ==
  /\ Runs(a, "CompleteNetAdapterStart")
  /\ LET c == netAdapterStartContext[a]
         started == call[a][c].result = "success"
     IN /\ driverState' =
             [driverState EXCEPT ![a][call[a][c].driver] =
                [Started |-> started, StartInProgress |-> FALSE]]
        /\ call' = IF started THEN [call EXCEPT ![a][c].status = "processed"]
                   ELSE call
  /\ netAdapterStartContext' = [netAdapterStartContext EXCEPT ![a] = Nobody]
  /\ GoToNextState(a)
  /\ UNCHANGED <<startRequests, stopRequests, netAdapterStopContext, ndisVars,
                 ioEventProcessed, referenced>>

CompleteNetAdapterStart(a) ==
  /\ Runs(a, "CompleteNetAdapterStart")
  /\ LET c == netAdapterStartContext[a] IN
       /\ driverState' =
            [driverState EXCEPT ![a][call[a][c].driver] =
               [Started |-> call[a][c].result = "success",
                StartInProgress |-> FALSE]]
       /\ call' = [call EXCEPT ![a][c].status = "processed"]
  /\ netAdapterStartContext' = [netAdapterStartContext EXCEPT ![a] = Nobody]
  /\ GoToNextState(a)
  /\ UNCHANGED <<startRequests, stopRequests, netAdapterStopContext, ndisVars,
                 ioEventProcessed, referenced>>

DequeueNetAdapterStop(a) ==
  /\ Runs(a, "DequeueNetAdapterStop")
  /\ netAdapterStopContext' =
       [netAdapterStopContext EXCEPT ![a] = Head(stopRequests[a])]
  /\ stopRequests' = [stopRequests EXCEPT ![a] = Tail(@)]
  /\ GoToNextState(a)
  /\ UNCHANGED <<startRequests, netAdapterStartContext, call, driverState,
                 ndisVars, ioEventProcessed, referenced>>

CompleteNetAdapterStop(a) ==
  /\ Runs(a, "CompleteNetAdapterStop")
  /\ LET c == netAdapterStopContext[a] IN
       /\ driverState' =
            [driverState EXCEPT ![a][call[a][c].driver].Started = FALSE]
       /\ call' = [call EXCEPT ![a][c].status = "processed"]
  /\ netAdapterStopContext' = [netAdapterStopContext EXCEPT ![a] = Nobody]
  /\ GoToNextState(a)
  /\ UNCHANGED <<startRequests, stopRequests, netAdapterStartContext, ndisVars,
                 ioEventProcessed, referenced>>

\* One step of the machine of adapter a.
AdapterStep(a) ==
  \/ TakeEvent(a)
  \/ ShouldStartNetworkInterface(a) \/ DeferStartNetworkInterface(a)
  \/ StartNetworkInterfaceInvalidDeviceState(a)
  \/ StartNetworkInterface(a) \/ StopNetworkInterface(a)
  \/ StopNetworkInterfaceNoOp(a)
  \/ StartIo(a) \/ StartIoD0(a)
  \/ StopIoD1(a) \/ StopIoD2(a) \/ StopIoD3(a) \/ StopIoD3Final(a)
  \/ IoEventProcessed(a) \/ AllowBindings(a) \/ ReportSurpriseRemoval(a)
  \/ DeviceReleased(a) \/ Deleted(a)
  \/ DequeueNetAdapterStart(a) \/ CompleteNetAdapterStart(a)
  \/ DequeueNetAdapterStop(a) \/ CompleteNetAdapterStop(a)
=============================================================================
