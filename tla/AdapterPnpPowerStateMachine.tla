-------------------- MODULE AdapterPnpPowerStateMachine ---------------------
(****************************************************************************)
(* The tables of adapterpnppowerstatemachine.h: the PnP and power state     *)
(* machine of one network adapter.  AdapterPnpPower runs its operations,    *)
(* SmFx interprets the tables.                                              *)
(****************************************************************************)
EXTENDS TLC

\* The only transition of most synchronous states.
Next(state) == [GoToNextState |-> state]

\* The events of the machine.
Events ==
    {"Cleanup", "Destroy", "DeviceRestart", "Fail", "GoToNextState",
     "IoInterfaceArrival", "IoStart", "IoStopD1", "IoStopD2", "IoStopD3",
     "IoStopD3Final", "NetAdapterStart", "NetAdapterStop", "No", "Success",
     "SurpriseRemove", "Yes"}

\* The initial state of the machine and of each submachine.
Submachines ==
    [AdapterPnpPower |-> "IoStopped",
     InterfaceStopped |-> "InterfaceStopped",
     InvalidObjectState |-> "InvalidObjectState",
     NetworkInterfaceStop |-> "DequeueNetAdapterStop",
     NetworkInterfaceStopNoOp |-> "DequeueNetAdapterStopNoOp",
     SignalIoEvent |-> "SignalIoEvent"]

\* State table: the type of each state, or the submachine a Call state enters.
RequestStates ==
    [CompleteInvalidNetAdapterStart |-> "Sync",
     CompleteNetAdapterStart |-> "Sync",
     CompleteNetAdapterStartDefer |-> "Sync",
     CompleteNetAdapterStop |-> "Sync",
     CompleteNetAdapterStopNoOp |-> "Sync", DeferInterfaceStart |-> "Sync",
     DequeueInvalidNetAdapterStart |-> "Sync",
     DequeueNetAdapterStart |-> "Sync", DequeueNetAdapterStop |-> "Sync",
     DequeueNetAdapterStopNoOp |-> "Sync"]

GoingStates ==
    [DeviceSurpriseRemoved |-> "InvalidObjectState",
     GoingToInterfaceStoppedImplicitIoStopped |-> "Sync",
     GoingToInterfaceStoppedIoStarted |-> "NetworkInterfaceStop",
     GoingToInterfaceStoppedIoStopped |-> "NetworkInterfaceStop",
     GoingToInterfaceStoppedIoStoppedD3Final |-> "NetworkInterfaceStop",
     InterfaceAlreadyStopped |-> "NetworkInterfaceStopNoOp",
     InterfaceStartedGoingToIoStarted |-> "SignalIoEvent",
     InterfaceStartedGoingToIoStoppedD1 |-> "SignalIoEvent",
     InterfaceStartedGoingToIoStoppedD2 |-> "SignalIoEvent",
     InterfaceStartedGoingToIoStoppedD3 |-> "SignalIoEvent"]

StartedStates ==
    [InterfaceStartedGoingToIoStoppedD3Final |-> "SignalIoEvent",
     InterfaceStartedImplicitIoStarted |-> "Sync",
     InterfaceStartedImplicitIoStoppedGoingToSurpriseRemoved |-> "Sync",
     InterfaceStartedIoStarted |-> "Async",
     InterfaceStartedIoStartingD0 |-> "SignalIoEvent",
     InterfaceStartedIoStopped |-> "Async",
     InterfaceStartedIoStoppedD3Final |-> "Async",
     InterfaceStartedIoStoppedDx |-> "Async",
     InterfaceStartedIoStoppedGoingToSurpriseRemoved |-> "Sync",
     InterfaceStop |-> "NetworkInterfaceStopNoOp"]

StoppedStates ==
    [InterfaceStopped |-> "Async",
     InterfaceStoppedIoStoppedD3Final |-> "InvalidObjectState",
     InterfaceStoppedSignalIoStarted |-> "SignalIoEvent",
     InterfaceStoppedSignalIoStopped |-> "SignalIoEvent",
     InterfaceStoppedSignalIoStoppedD3Final |-> "SignalIoEvent",
     InvalidNetAdapterStart |-> "Sync", InvalidObjectState |-> "Async",
     IoEventNoOp |-> "SignalIoEvent", IoStarted |-> "InterfaceStopped",
     IoStopped |-> "InterfaceStopped"]

InterfaceStates ==
    [ObjectDeleted |-> "InvalidObjectState", ShouldStartInterface |-> "Sync",
     SignalIoEvent |-> "Sync", StartingInterface |-> "Sync",
     StopNetworkInterface |-> "Sync", StopNetworkInterfaceNoOp |-> "Sync"]

States ==
    RequestStates @@ GoingStates @@ StartedStates @@ StoppedStates @@
    InterfaceStates

\* Entry functions: the operation a state runs when it is entered.
RequestEntries ==
    [CompleteInvalidNetAdapterStart |-> "CompleteNetAdapterStart",
     CompleteNetAdapterStart |-> "CompleteNetAdapterStart",
     CompleteNetAdapterStartDefer |-> "CompleteNetAdapterStart",
     CompleteNetAdapterStop |-> "CompleteNetAdapterStop",
     CompleteNetAdapterStopNoOp |-> "CompleteNetAdapterStop",
     DeferInterfaceStart |-> "DeferStartNetworkInterface",
     DequeueInvalidNetAdapterStart |-> "DequeueNetAdapterStart",
     DequeueNetAdapterStart |-> "DequeueNetAdapterStart",
     DequeueNetAdapterStop |-> "DequeueNetAdapterStop",
     DequeueNetAdapterStopNoOp |-> "DequeueNetAdapterStop",
     GoingToInterfaceStoppedImplicitIoStopped |-> "StopIoD3Final"]

StartedEntries ==
    [InterfaceStartedGoingToIoStarted |-> "StartIo",
     InterfaceStartedGoingToIoStoppedD1 |-> "StopIoD1",
     InterfaceStartedGoingToIoStoppedD2 |-> "StopIoD2",
     InterfaceStartedGoingToIoStoppedD3 |-> "StopIoD3",
     InterfaceStartedGoingToIoStoppedD3Final |-> "StopIoD3Final",
     InterfaceStartedImplicitIoStarted |-> "StartIo",
     InterfaceStartedImplicitIoStoppedGoingToSurpriseRemoved |-> "StopIoD3Final",
     InterfaceStartedIoStartingD0 |-> "StartIoD0",
     InterfaceStartedIoStoppedGoingToSurpriseRemoved |-> "ReportSurpriseRemoval"]

StoppedEntries ==
    [InterfaceStoppedIoStoppedD3Final |-> "DeviceReleased",
     InvalidNetAdapterStart |-> "StartNetworkInterfaceInvalidDeviceState",
     ObjectDeleted |-> "Deleted",
     ShouldStartInterface |-> "ShouldStartNetworkInterface",
     SignalIoEvent |-> "IoEventProcessed",
     StartingInterface |-> "StartNetworkInterface",
     StopNetworkInterface |-> "StopNetworkInterface",
     StopNetworkInterfaceNoOp |-> "StopNetworkInterfaceNoOp"]

EntryFuncs ==
    RequestEntries @@ StartedEntries @@ StoppedEntries

\* External transitions: the state an event takes the machine to.
RequestTransitions ==
    [CompleteInvalidNetAdapterStart |-> Next("InvalidObjectState"),
     CompleteNetAdapterStartDefer |-> Next("InterfaceStopped"),
     DeferInterfaceStart |-> Next("CompleteNetAdapterStartDefer"),
     DequeueInvalidNetAdapterStart |-> Next("InvalidNetAdapterStart"),
     DequeueNetAdapterStart |-> Next("ShouldStartInterface"),
     DequeueNetAdapterStop |-> Next("StopNetworkInterface"),
     DequeueNetAdapterStopNoOp |-> Next("StopNetworkInterfaceNoOp"),
     DeviceSurpriseRemoved |-> [Cleanup |-> "ObjectDeleted"],
     GoingToInterfaceStoppedImplicitIoStopped |-> Next("GoingToInterfaceStoppedIoStarted")]

GoingTransitions ==
    [GoingToInterfaceStoppedIoStarted |-> Next("IoStarted"),
     GoingToInterfaceStoppedIoStopped |-> Next("IoStopped"),
     GoingToInterfaceStoppedIoStoppedD3Final |-> Next("InterfaceStoppedIoStoppedD3Final"),
     InterfaceAlreadyStopped |-> Next("InterfaceStopped"),
     InterfaceStartedGoingToIoStarted |-> Next("InterfaceStartedIoStarted"),
     InterfaceStartedGoingToIoStoppedD1 |-> Next("InterfaceStartedIoStoppedDx"),
     InterfaceStartedGoingToIoStoppedD2 |-> Next("InterfaceStartedIoStoppedDx"),
     InterfaceStartedGoingToIoStoppedD3 |-> Next("InterfaceStartedIoStoppedDx"),
     InterfaceStartedGoingToIoStoppedD3Final |-> Next("InterfaceStartedIoStoppedD3Final")]

StartedTransitions ==
    [InterfaceStartedImplicitIoStarted |-> Next("InterfaceStartedIoStarted"),
     InterfaceStartedImplicitIoStoppedGoingToSurpriseRemoved |-> Next("InterfaceStartedIoStoppedGoingToSurpriseRemoved"),
     InterfaceStartedIoStarted |-> [IoStopD1 |-> "InterfaceStartedGoingToIoStoppedD1",
         IoStopD2 |-> "InterfaceStartedGoingToIoStoppedD2",
         IoStopD3 |-> "InterfaceStartedGoingToIoStoppedD3",
         IoStopD3Final |-> "InterfaceStartedGoingToIoStoppedD3Final",
         NetAdapterStop |-> "GoingToInterfaceStoppedImplicitIoStopped",
         SurpriseRemove |-> "InterfaceStartedImplicitIoStoppedGoingToSurpriseRemoved"],
     InterfaceStartedIoStartingD0 |-> Next("InterfaceStartedIoStarted"),
     InterfaceStartedIoStopped |-> [IoStart |-> "InterfaceStartedGoingToIoStarted",
         NetAdapterStop |-> "GoingToInterfaceStoppedIoStopped",
         SurpriseRemove |-> "InterfaceStartedIoStoppedGoingToSurpriseRemoved"],
     InterfaceStartedIoStoppedD3Final |-> [NetAdapterStop |-> "GoingToInterfaceStoppedIoStoppedD3Final",
         SurpriseRemove |-> "InterfaceStartedIoStoppedGoingToSurpriseRemoved"]]

SleepingTransitions ==
    [InterfaceStartedIoStoppedDx |-> [IoStart |-> "InterfaceStartedIoStartingD0",
         NetAdapterStop |-> "GoingToInterfaceStoppedIoStopped",
         SurpriseRemove |-> "InterfaceStartedIoStoppedGoingToSurpriseRemoved"],
     InterfaceStartedIoStoppedGoingToSurpriseRemoved |-> Next("DeviceSurpriseRemoved"),
     InterfaceStop |-> Next("InvalidObjectState"),
     InterfaceStopped |-> [NetAdapterStart |-> "DequeueNetAdapterStart",
         NetAdapterStop |-> "InterfaceAlreadyStopped"],
     InterfaceStoppedIoStoppedD3Final |-> [Cleanup |-> "ObjectDeleted",
         DeviceRestart |-> "IoStopped"],
     InterfaceStoppedSignalIoStarted |-> Next("IoStarted"),
     InterfaceStoppedSignalIoStopped |-> Next("IoStopped")]

InvalidTransitions ==
    [InterfaceStoppedSignalIoStoppedD3Final |-> Next("InterfaceStoppedIoStoppedD3Final"),
     InvalidNetAdapterStart |-> Next("CompleteInvalidNetAdapterStart"),
     InvalidObjectState |-> [IoStart |-> "IoEventNoOp",
         IoStopD1 |-> "IoEventNoOp",
         IoStopD2 |-> "IoEventNoOp",
         IoStopD3 |-> "IoEventNoOp",
         IoStopD3Final |-> "IoEventNoOp",
         NetAdapterStart |-> "DequeueInvalidNetAdapterStart",
         NetAdapterStop |-> "InterfaceStop"],
     IoEventNoOp |-> Next("InvalidObjectState")]

IoTransitions ==
    [IoStarted |-> [Cleanup |-> "ObjectDeleted",
         IoStopD1 |-> "InterfaceStoppedSignalIoStopped",
         IoStopD2 |-> "InterfaceStoppedSignalIoStopped",
         IoStopD3 |-> "InterfaceStoppedSignalIoStopped",
         IoStopD3Final |-> "InterfaceStoppedSignalIoStoppedD3Final",
         NetAdapterStart |-> "InterfaceStartedImplicitIoStarted",
         SurpriseRemove |-> "DeviceSurpriseRemoved"],
     IoStopped |-> [Cleanup |-> "ObjectDeleted",
         IoStart |-> "InterfaceStoppedSignalIoStarted",
         NetAdapterStart |-> "InterfaceStartedIoStopped",
         SurpriseRemove |-> "DeviceSurpriseRemoved"],
     ShouldStartInterface |-> [No |-> "DeferInterfaceStart",
         Yes |-> "StartingInterface"],
     StartingInterface |-> [Fail |-> "CompleteNetAdapterStartDefer",
         Success |-> "CompleteNetAdapterStart"],
     StopNetworkInterface |-> Next("CompleteNetAdapterStop")]

InterfaceTransitions ==
    [StopNetworkInterfaceNoOp |-> Next("CompleteNetAdapterStopNoOp")]

ExternalTransitions ==
    RequestTransitions @@ GoingTransitions @@ StartedTransitions @@
    SleepingTransitions @@ InvalidTransitions @@ IoTransitions @@
    InterfaceTransitions

\* Internal transitions: the operation an event runs without leaving the state.
InternalTransitions ==
    [InterfaceStartedIoStarted |-> [IoInterfaceArrival |-> "AllowBindings"],
     InterfaceStartedIoStoppedD3Final |-> [IoInterfaceArrival |-> "none"],
     InterfaceStoppedIoStoppedD3Final |-> [SurpriseRemove |-> "none"],
     InvalidObjectState |-> [IoInterfaceArrival |-> "none"],
     ObjectDeleted |-> [DeviceRestart |-> "none"]]

\* Pop transitions: the event the end of a submachine returns to its caller.
PopTransitions ==
    [CompleteNetAdapterStart |-> Next("NetAdapterStart"),
     CompleteNetAdapterStop |-> Next("GoToNextState"),
     CompleteNetAdapterStopNoOp |-> Next("GoToNextState"),
     ObjectDeleted |-> [Destroy |-> "Destroy"],
     SignalIoEvent |-> Next("GoToNextState")]

\* Events left in the queue while the machine is in the state.
DeferredEvents ==
    [InterfaceStartedIoStarted |-> {"Cleanup"},
     InterfaceStartedIoStopped |-> {"Cleanup", "IoInterfaceArrival"},
     InterfaceStartedIoStoppedD3Final |-> {"Cleanup"},
     InterfaceStartedIoStoppedDx |-> {"Cleanup", "IoInterfaceArrival"}]

\* Events dropped from the queue when the state is entered.
PurgeEvents ==
    [IoStarted |-> {"IoInterfaceArrival"},
     IoStopped |-> {"IoInterfaceArrival"}]

\* The tables as SmFx takes them.
Machine ==
    [states |-> States, submachines |-> Submachines, entry |-> EntryFuncs,
     external |-> ExternalTransitions, internal |-> InternalTransitions,
     pop |-> PopTransitions, deferred |-> DeferredEvents, purge |-> PurgeEvents,
     initial |-> "AdapterPnpPower"]
==============================================================================
