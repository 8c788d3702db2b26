----------------------- MODULE NxAdapterStateMachine ------------------------
(****************************************************************************)
(* The tables of nxadapterstatemachine.h: the data path of one adapter      *)
(* between NDIS and the adapter's PnP and power machine.  NxAdapter runs    *)
(* its operations, SmFx interprets the tables.                              *)
(****************************************************************************)

\* Two tables that have no state in common.
Rows(f, g) == [s \in DOMAIN f \cup DOMAIN g |-> IF s \in DOMAIN f THEN f[s] ELSE g[s]]

\* The only transition of most synchronous states.
Done(state) == [SyncSuccess |-> state]

\* The events of the machine.
Events ==
    {"DatapathCreate", "DatapathDestroy", "EvtCleanup", "NdisMiniportHalt",
     "NdisMiniportInitializeEx", "NdisMiniportPause", "NdisMiniportRestart",
     "SyncSuccess"}

\* The initial state of the machine and of each submachine.
Submachines ==
    [NxAdapter |-> "Halted"]

\* State table: the type of each state, or the submachine a Call state enters.
PausedStates ==
    [AdapterPauseComplete |-> "Sync", AdapterPaused |-> "Async",
     AdapterRestartComplete |-> "Sync", AdapterRestarted |-> "Async",
     DatapathPaused |-> "Async", DatapathPausedCreating |-> "Sync",
     DatapathPausedDestroying |-> "Sync", DatapathPausedStarting |-> "Sync",
     DatapathPauseStopping |-> "Sync", DatapathRestartDestroying |-> "Sync"]

RunningStates ==
    [DatapathRestartedCreating |-> "Sync",
     DatapathRestartedStarting |-> "Sync",
     DatapathRestartStopping |-> "Sync", DatapathRunning |-> "Async",
     Halted |-> "Async", Halting |-> "Sync"]

States ==
    Rows(PausedStates, RunningStates)

\* Entry functions: the operation a state runs when it is entered.
PausedEntries ==
    [AdapterPauseComplete |-> "DatapathPauseComplete",
     AdapterPaused |-> "AsyncTransitionComplete",
     AdapterRestartComplete |-> "DatapathRestartComplete",
     AdapterRestarted |-> "AsyncTransitionComplete",
     DatapathPaused |-> "AsyncTransitionComplete",
     DatapathPausedCreating |-> "DatapathCreate",
     DatapathPausedDestroying |-> "DatapathDestroy",
     DatapathPausedStarting |-> "DatapathStartRestartComplete",
     DatapathPauseStopping |-> "DatapathStopPauseComplete",
     DatapathRestartDestroying |-> "DatapathDestroy",
     DatapathRestartedCreating |-> "DatapathCreate",
     DatapathRestartedStarting |-> "DatapathStart"]

RunningEntries ==
    [DatapathRestartStopping |-> "DatapathStop",
     DatapathRunning |-> "AsyncTransitionComplete",
     Halted |-> "AsyncTransitionComplete", Halting |-> "NdisHalt"]

EntryFuncs ==
    Rows(PausedEntries, RunningEntries)

\* External transitions: the state an event takes the machine to.
PausedTransitions ==
    [AdapterPauseComplete |-> Done("AdapterPaused"),
     AdapterPaused |-> [DatapathCreate |-> "DatapathPausedCreating",
         NdisMiniportHalt |-> "Halting",
         NdisMiniportRestart |-> "AdapterRestartComplete"],
     AdapterRestartComplete |-> Done("AdapterRestarted"),
     AdapterRestarted |-> [DatapathCreate |-> "DatapathRestartedCreating",
         NdisMiniportPause |-> "AdapterPauseComplete"],
     DatapathPaused |-> [DatapathDestroy |-> "DatapathPausedDestroying",
         NdisMiniportRestart |-> "DatapathPausedStarting"],
     DatapathPausedCreating |-> Done("DatapathPaused"),
     DatapathPausedDestroying |-> Done("AdapterPaused")]

RunningTransitions ==
    [DatapathPausedStarting |-> Done("DatapathRunning"),
     DatapathPauseStopping |-> Done("DatapathPaused"),
     DatapathRestartDestroying |-> Done("AdapterRestarted"),
     DatapathRestartedCreating |-> Done("DatapathRestartedStarting"),
     DatapathRestartedStarting |-> Done("DatapathRunning"),
     DatapathRestartStopping |-> Done("DatapathRestartDestroying"),
     DatapathRunning |-> [DatapathDestroy |-> "DatapathRestartStopping",
         NdisMiniportPause |-> "DatapathPauseStopping"],
     Halted |-> [NdisMiniportInitializeEx |-> "AdapterPaused"],
     Halting |-> Done("Halted")]

ExternalTransitions ==
    Rows(PausedTransitions, RunningTransitions)

\* Internal transitions: the operation an event runs without leaving the state.
InternalTransitions == <<>>

\* Pop transitions: the event the end of a submachine returns to its caller.
PopTransitions ==
    [Halted |-> [EvtCleanup |-> "EvtCleanup"]]

\* Events left in the queue while the machine is in the state.
DeferredEvents == <<>>

\* Events dropped from the queue when the state is entered.
PurgeEvents == <<>>

\* The tables as SmFx takes them.
Machine ==
    [states |-> States, submachines |-> Submachines, entry |-> EntryFuncs,
     external |-> ExternalTransitions, internal |-> InternalTransitions,
     pop |-> PopTransitions, deferred |-> DeferredEvents, purge |-> PurgeEvents,
     initial |-> "NxAdapter"]
==============================================================================
