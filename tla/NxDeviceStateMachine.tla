------------------------ MODULE NxDeviceStateMachine ------------------------
(****************************************************************************)
(* The tables of nxdevicestatemachine.h: the reset state machine of a       *)
(* device.  NxDevice runs its operations, SmFx interprets the tables.       *)
(****************************************************************************)

\* The only transition of most synchronous states.
Done(state) == [SyncSuccess |-> state]

\* The events of the machine.
Events ==
    {"D0EntryPostHardwareEnabled", "D0ExitPreHardwareDisabledD3Final",
     "D0ExitPreHardwareDisabledDx", "No", "RequestPlatformLevelDeviceReset",
     "SyncFail", "SyncSuccess", "WdfDeviceObjectCleanup", "Yes"}

\* The initial state of the machine and of each submachine.
Submachines ==
    [PowerStateMachine |-> "D0", StateMachine |-> "Initialized"]

\* State table: the type of each state, or the submachine a Call state enters.
States ==
    [CollectingDiagnostics |-> "Sync", D0 |-> "Async", D3Final |-> "Async",
     Dx |-> "Async", Initialized |-> "Async",
     PnPStarted |-> "PowerStateMachine",
     TriggeringPlatformLevelDeviceReset |-> "Async"]

\* Entry functions: the operation a state runs when it is entered.
EntryFuncs ==
    [CollectingDiagnostics |-> "CollectDiagnostics",
     TriggeringPlatformLevelDeviceReset |-> "TriggerPlatformLevelDeviceReset"]

\* External transitions: the state an event takes the machine to.
ExternalTransitions ==
    [CollectingDiagnostics |-> Done("TriggeringPlatformLevelDeviceReset"),
     D0 |-> [D0ExitPreHardwareDisabledDx |-> "Dx"],
     D3Final |-> [D0EntryPostHardwareEnabled |-> "PnPStarted"],
     Dx |-> [D0EntryPostHardwareEnabled |-> "D0"],
     Initialized |-> [D0EntryPostHardwareEnabled |-> "PnPStarted",
         RequestPlatformLevelDeviceReset |-> "CollectingDiagnostics"],
     PnPStarted |-> [D0ExitPreHardwareDisabledD3Final |-> "D3Final",
         RequestPlatformLevelDeviceReset |-> "CollectingDiagnostics"],
     TriggeringPlatformLevelDeviceReset |-> [D0ExitPreHardwareDisabledD3Final |-> "D3Final"]]

\* Internal transitions: the operation an event runs without leaving the state.
InternalTransitions ==
    [D3Final |-> [RequestPlatformLevelDeviceReset |-> "none"],
     TriggeringPlatformLevelDeviceReset |-> [D0EntryPostHardwareEnabled |-> "none"]]

\* Pop transitions: the event the end of a submachine returns to its caller.
PopTransitions ==
    [D0 |-> [D0ExitPreHardwareDisabledD3Final |-> "D0ExitPreHardwareDisabledD3Final"],
     D3Final |-> [WdfDeviceObjectCleanup |-> "WdfDeviceObjectCleanup"],
     Initialized |-> [WdfDeviceObjectCleanup |-> "WdfDeviceObjectCleanup"],
     PnPStarted |-> [WdfDeviceObjectCleanup |-> "WdfDeviceObjectCleanup"],
     TriggeringPlatformLevelDeviceReset |-> [WdfDeviceObjectCleanup |-> "WdfDeviceObjectCleanup"]]

\* Events left in the queue while the machine is in the state.
DeferredEvents == <<>>

\* Events dropped from the queue when the state is entered.
PurgeEvents == <<>>

\* The tables as SmFx takes them.
Machine ==
    [states |-> States, submachines |-> Submachines, entry |-> EntryFuncs,
     external |-> ExternalTransitions, internal |-> InternalTransitions,
     pop |-> PopTransitions, deferred |-> DeferredEvents, purge |-> PurgeEvents,
     initial |-> "StateMachine"]
==============================================================================
