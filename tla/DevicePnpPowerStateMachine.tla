--------------------- MODULE DevicePnpPowerStateMachine ---------------------
(****************************************************************************)
(* The tables of devicepnppowerstatemachine.h: the PnP and power state      *)
(* machine of a network device.  DevicePnpPower runs its operations, SmFx   *)
(* interprets the tables.                                                   *)
(****************************************************************************)
EXTENDS TLC

\* The only transition of most synchronous states.
Next(state) == [GoToNextState |-> state]

\* The events of the machine.
Events ==
    {"AdapterCreated", "Cleanup", "Destroy", "GoToNextState", "PowerDownD1",
     "PowerDownD2", "PowerDownD3", "PowerDownD3Final", "PowerUp", "Start",
     "Stop", "SurpriseRemove"}

\* The initial state of the machine and of each submachine.
Submachines ==
    [DevicePnpPower |-> "Created"]

\* State table: the type of each state, or the submachine a Call state enters.
WorkingStates ==
    [Created |-> "Async", D0 |-> "Async", D3Final |-> "Async",
     DeviceAddFailed |-> "Sync", Dx |-> "Async", PoweringDownD1 |-> "Sync",
     PoweringDownD2 |-> "Sync", PoweringDownD3 |-> "Sync",
     PoweringDownD3Final |-> "Sync", PoweringUp |-> "Sync"]

SignallingStates ==
    [Removed |-> "Async", Restarting |-> "Sync", SignalD0 |-> "Sync",
     SignalD3Final |-> "Sync", SignalDx |-> "Sync", SignalStarted |-> "Sync",
     SignalStoppingD3Final |-> "Sync", Started |-> "Async",
     Stopped |-> "Async", StoppingD3Final |-> "Sync"]

SurpriseStates ==
    [SurpriseRemovedInD0 |-> "Async", SurpriseRemovedInDx |-> "Async",
     SurpriseRemovedNotStarted |-> "Async",
     SurpriseRemovedSignalD0 |-> "Sync",
     SurpriseRemovedSignalD3Final |-> "Sync",
     SurpriseRemovedSignalDx |-> "Sync",
     SurpriseRemovedSignalStopDx |-> "Sync",
     SurpriseRemovedStopped |-> "Async", SurpriseRemovedStopping |-> "Sync",
     SurpriseRemovingInD0 |-> "Sync"]

SurpriseRemovingStates ==
    [SurpriseRemovingInDx |-> "Sync", SurpriseRemovingNotStarted |-> "Sync"]

States ==
    WorkingStates @@ SignallingStates @@ SurpriseStates @@
    SurpriseRemovingStates

\* Entry functions: the operation a state runs when it is entered.
PowerEntries ==
    [DeviceAddFailed |-> "Stopping", PoweringDownD1 |-> "PoweringDownD1",
     PoweringDownD2 |-> "PoweringDownD2",
     PoweringDownD3 |-> "PoweringDownD3",
     PoweringDownD3Final |-> "PoweringDownD3Final",
     PoweringUp |-> "PoweringUp", Removed |-> "Removed",
     Restarting |-> "Restarting", SignalD0 |-> "WdfEventProcessed",
     SignalD3Final |-> "WdfEventProcessed", SignalDx |-> "WdfEventProcessed",
     SignalStarted |-> "WdfEventProcessed"]

SurpriseEntries ==
    [SignalStoppingD3Final |-> "WdfEventProcessed",
     StoppingD3Final |-> "Stopping",
     SurpriseRemovedSignalD0 |-> "WdfEventProcessed",
     SurpriseRemovedSignalD3Final |-> "WdfEventProcessed",
     SurpriseRemovedSignalDx |-> "WdfEventProcessed",
     SurpriseRemovedSignalStopDx |-> "WdfEventProcessed",
     SurpriseRemovedStopping |-> "Stopping",
     SurpriseRemovingInD0 |-> "SurpriseRemoving",
     SurpriseRemovingInDx |-> "SurpriseRemoving",
     SurpriseRemovingNotStarted |-> "Stopping"]

EntryFuncs ==
    PowerEntries @@ SurpriseEntries

\* External transitions: the state an event takes the machine to.
PoweringTransitions ==
    [Created |-> [Cleanup |-> "DeviceAddFailed",
         Start |-> "SignalStarted",
         SurpriseRemove |-> "SurpriseRemovingNotStarted"],
     D0 |-> [PowerDownD1 |-> "PoweringDownD1",
         PowerDownD2 |-> "PoweringDownD2",
         PowerDownD3 |-> "PoweringDownD3",
         PowerDownD3Final |-> "PoweringDownD3Final",
         SurpriseRemove |-> "SurpriseRemovingInD0"],
     D3Final |-> [Stop |-> "StoppingD3Final"],
     DeviceAddFailed |-> Next("Removed"),
     Dx |-> [PowerUp |-> "PoweringUp",
         SurpriseRemove |-> "SurpriseRemovingInDx"],
     PoweringDownD1 |-> Next("SignalDx")]

SignalTransitions ==
    [PoweringDownD2 |-> Next("SignalDx"),
     PoweringDownD3 |-> Next("SignalDx"),
     PoweringDownD3Final |-> Next("SignalD3Final"),
     PoweringUp |-> Next("SignalD0"),
     Restarting |-> Next("SignalStarted"),
     SignalD0 |-> Next("D0"),
     SignalD3Final |-> Next("D3Final"),
     SignalDx |-> Next("Dx"),
     SignalStarted |-> Next("Started")]

StopTransitions ==
    [SignalStoppingD3Final |-> Next("Stopped"),
     Started |-> [PowerUp |-> "PoweringUp",
         Stop |-> "StoppingD3Final"],
     Stopped |-> [Cleanup |-> "Removed", Start |-> "Restarting"],
     StoppingD3Final |-> Next("SignalStoppingD3Final"),
     SurpriseRemovedInD0 |-> [PowerDownD1 |-> "SurpriseRemovedSignalDx",
         PowerDownD2 |-> "SurpriseRemovedSignalDx",
         PowerDownD3 |-> "SurpriseRemovedSignalDx",
         PowerDownD3Final |-> "SurpriseRemovedSignalD3Final"],
     SurpriseRemovedInDx |-> [PowerUp |-> "SurpriseRemovedSignalD0",
         Stop |-> "SurpriseRemovedStopping"],
     SurpriseRemovedNotStarted |-> [Cleanup |-> "Removed"]]

SurpriseTransitions ==
    [SurpriseRemovedSignalD0 |-> Next("SurpriseRemovedInD0"),
     SurpriseRemovedSignalD3Final |-> Next("SurpriseRemovedInDx"),
     SurpriseRemovedSignalDx |-> Next("SurpriseRemovedInDx"),
     SurpriseRemovedSignalStopDx |-> Next("SurpriseRemovedStopped"),
     SurpriseRemovedStopped |-> [Cleanup |-> "Removed"],
     SurpriseRemovedStopping |-> Next("SurpriseRemovedSignalStopDx"),
     SurpriseRemovingInD0 |-> Next("SurpriseRemovedInD0"),
     SurpriseRemovingInDx |-> Next("SurpriseRemovedInDx"),
     SurpriseRemovingNotStarted |-> Next("SurpriseRemovedNotStarted")]

ExternalTransitions ==
    PoweringTransitions @@ SignalTransitions @@ StopTransitions @@
    SurpriseTransitions

\* Internal transitions: the operation an event runs without leaving the state.
PresentTransitions ==
    [Created |-> [AdapterCreated |-> "AdapterCreatedNoEventsToPlay"],
     D0 |-> [AdapterCreated |-> "AdapterCreatedPlayPowerUp"],
     D3Final |-> [AdapterCreated |-> "AdapterCreatedNoEventsToPlay"],
     Dx |-> [AdapterCreated |-> "AdapterCreatedNoEventsToPlay"],
     Started |-> [AdapterCreated |-> "AdapterCreatedNoEventsToPlay"],
     Stopped |-> [AdapterCreated |-> "AdapterCreatedNoEventsToPlay"],
     SurpriseRemovedInD0 |-> [AdapterCreated |-> "AdapterCreatedPlaySurpriseRemove"]]

RemovedTransitions ==
    [SurpriseRemovedInDx |-> [AdapterCreated |-> "AdapterCreatedPlaySurpriseRemove"],
     SurpriseRemovedNotStarted |-> [AdapterCreated |-> "AdapterCreatedPlaySurpriseRemove"],
     SurpriseRemovedStopped |-> [AdapterCreated |-> "AdapterCreatedPlaySurpriseRemove"]]

InternalTransitions ==
    PresentTransitions @@ RemovedTransitions

\* Pop transitions: the event the end of a submachine returns to its caller.
PopTransitions ==
    [Removed |-> [Destroy |-> "Destroy"]]

\* Events left in the queue while the machine is in the state.
DeferredEvents == <<>>

\* Events dropped from the queue when the state is entered.
PurgeEvents == <<>>

\* The tables as SmFx takes them.
Machine ==
    [states |-> States, submachines |-> Submachines, entry |-> EntryFuncs,
     external |-> ExternalTransitions, internal |-> InternalTransitions,
     pop |-> PopTransitions, deferred |-> DeferredEvents, purge |-> PurgeEvents,
     initial |-> "DevicePnpPower"]
==============================================================================
