----------------------------- MODULE DevicePower -----------------------------
(****************************************************************************)
(* The power callbacks that WDF makes to a device with one adapter, in      *)
(* their order, and everything they drive: the idle state machine, the      *)
(* reset machine, and, through the PnP and power machines, the data path    *)
(* machine of the adapter. Other threads invoke powered callbacks of the    *)
(* client driver, start and stop the adapter, and ask for a reset.          *)
(*                                                                          *)
(* PnpPower is the module of the PnP and power machines themselves; here    *)
(* they are one thread that creates the data path between IoStart and       *)
(* IoStop while the adapter is started.                                     *)
(****************************************************************************)
EXTENDS NxAdapter

VARIABLES
  phase,      \* where the WDF thread is
  target,     \* the state it powers down to
  request,    \* what it has asked the PnP and power machines for
  powered     \* they are between IoStart and IoStop

wdfVars == <<phase, target, request, powered>>
vars == <<idleVars, resetVars, adapterVars, wdfVars>>

\* The phases in which the WDF thread is in no callback.
Settled == {"added", "prepared", "D0", "Dx", "failed", "released", "removed"}

TypeOK ==
  /\ IdleTypeOK /\ ResetTypeOK /\ AdapterTypeOK
  /\ phase \in Settled \cup {"entering", "starting", "enabled", "suspended",
       "stopping", "exiting", "closing", "releasing", "cleaning"}
  /\ target \in {"Dx", "D3Final"}
  /\ request \in {"none", "IoStart", "IoStop", "Stop", "taken", "done"}
  /\ powered \in BOOLEAN

Init ==
  /\ IdleInit /\ ResetInit /\ AdapterInit
  /\ phase = "added"
  /\ target = "D3Final"
  /\ request = "none"
  /\ powered = FALSE

GoesOn(p, q) == phase = p /\ phase' = q

\* The thread of WDF is not inside the client driver.
WdfIsBack == invocation[WdfThread] = "none"

-----------------------------------------------------------------------------
(* The callbacks of WDF, cut where they wait.                               *)

PrePrepareHardware ==
  /\ phase \in {"added", "released"}
  /\ phase' = "prepared"
  /\ UNCHANGED <<target, request, powered, idleVars, resetVars, adapterVars>>

PreD0Entry ==
  /\ phase \in {"prepared", "Dx"}
  /\ phase' = "entering"
  /\ D0Entry
  /\ UNCHANGED <<target, request, powered, resetVars, adapterVars>>

\* The hardware is enabled before the adapters are told, whose machines may
\* need it.
PostHardwareEnabled ==
  /\ GoesOn("entering", "starting")
  /\ WdfIsBack
  /\ EnqueueResetEvent("D0EntryPostHardwareEnabled")
  /\ HardwareEnabled
  /\ request' = "IoStart"
  /\ UNCHANGED <<target, powered, adapterVars, pldrRequested, pldrComplete,
                 pldrReferences, requester>>

\* The client driver fails its D0Entry: WDF removes the device, and there is
\* no callback in which NetAdapterCx could learn of it before the release.
D0EntryFails ==
  /\ GoesOn("entering", "failed")
  /\ WdfIsBack
  /\ UNCHANGED <<target, request, powered, idleVars, resetVars, adapterVars>>

PowerUpReturns ==
  /\ GoesOn("starting", "enabled")
  /\ request = "done"
  /\ request' = "none"
  /\ UNCHANGED <<target, powered, idleVars, resetVars, adapterVars>>

PostSelfManagedIo ==
  /\ GoesOn("enabled", "D0")
  /\ SelfManagedIoStart
  /\ UNCHANGED <<target, request, powered, resetVars, adapterVars>>

\* From here on WDF would refuse to keep the device in D0.
PreSelfManagedIoSuspend ==
  /\ GoesOn("D0", "suspended")
  /\ target' \in {"Dx", "D3Final"}
  /\ SelfManagedIoSuspend
  /\ UNCHANGED <<request, powered, resetVars, adapterVars>>

PreHardwareDisabled ==
  /\ GoesOn("suspended", "stopping")
  /\ WdfIsBack
  /\ request' = "IoStop"
  /\ UNCHANGED <<target, powered, idleVars, resetVars, adapterVars>>

PowerDownReturns ==
  /\ GoesOn("stopping", "exiting")
  /\ request = "done"
  /\ request' = "none"
  /\ HardwareDisabled(target = "D3Final")
  /\ EnqueueResetEvent(IF target = "D3Final"
       THEN "D0ExitPreHardwareDisabledD3Final" ELSE "D0ExitPreHardwareDisabledDx")
  /\ UNCHANGED <<target, powered, adapterVars, pldrRequested, pldrComplete,
                 pldrReferences, requester>>

PostD0Exit ==
  /\ GoesOn("exiting", "closing")
  /\ WdfIsBack
  /\ D0ExitCloses
  /\ UNCHANGED <<target, request, powered, resetVars, adapterVars>>

PostD0ExitReturns ==
  /\ phase = "closing"
  /\ D0ExitReturns
  /\ phase' = IF target = "D3Final" THEN "prepared" ELSE "Dx"
  /\ UNCHANGED <<target, request, powered, idleVars, resetVars, adapterVars>>

PreReleaseHardware ==
  /\ phase \in {"prepared", "failed"}
  /\ phase' = "releasing"
  /\ request' = "Stop"
  /\ UNCHANGED <<target, powered, idleVars, resetVars, adapterVars>>

ReleaseReturns ==
  /\ GoesOn("releasing", "released")
  /\ request = "done"
  /\ request' = "none"
  /\ UNCHANGED <<target, powered, idleVars, resetVars, adapterVars>>

DeviceCleanup ==
  /\ phase \in {"added", "released"}
  /\ phase' = "cleaning"
  /\ \A r \in Requesters : requester[r] # "requesting"
  /\ UNCHANGED <<target, request, powered, idleVars, resetVars, adapterVars>>

DeviceCleanupReturns ==
  /\ GoesOn("cleaning", "removed")
  /\ EvtDeviceCleanup
  /\ UNCHANGED <<target, request, powered, idleVars, adapterVars>>

\* A step of a callback that has begun.
WdfStep ==
  \/ PostHardwareEnabled \/ D0EntryFails \/ PowerUpReturns \/ PostSelfManagedIo
  \/ PreHardwareDisabled \/ PowerDownReturns \/ PostD0Exit
  \/ PostD0ExitReturns \/ ReleaseReturns \/ DeviceCleanupReturns

-----------------------------------------------------------------------------
(* The PnP and power machines: what they do with a request, and what with   *)
(* NetAdapterStart and NetAdapterStop. The machines take events in the      *)
(* order of their arrival.                                                  *)

PnpIdle == script = <<>> /\ waiting[PnpPower] = NoOp
Requested == request \in {"IoStart", "IoStop", "Stop"}
InterfaceStarted == miniport # "halted"

TakeRequest ==
  /\ PnpIdle /\ Requested
  /\ request' = "taken"
  /\ powered' = (request = "IoStart")
  /\ script' = (IF ~InterfaceStarted THEN <<>>
                 ELSE CASE request = "IoStart" -> <<"DatapathCreate">>
                        [] request = "IoStop" -> <<"DatapathDestroy">>
                        [] request = "Stop" -> <<"NdisMiniportHalt">>) \o <<"Answer">>
  /\ UNCHANGED <<phase, target, idleVars, resetVars, datapathMachine,
                 transitionComplete, waiting, miniport, app>>

\* IoEventProcessed, and CompleteNetAdapterStop for a stop.
AnswerRequest ==
  /\ script = <<"Answer">>
  /\ waiting[PnpPower] = NoOp
  /\ request' = "done"
  /\ script' = <<>>
  /\ UNCHANGED <<phase, target, powered, idleVars, resetVars, datapathMachine,
                 transitionComplete, waiting, miniport, app>>

\* NetAdapterStart by the client driver; it starts the data path in D0.
StartInterface ==
  /\ PnpIdle /\ ~Requested
  /\ datapathMachine.stack # <<>>
  /\ ~InterfaceStarted
  /\ phase \notin {"added", "releasing", "released", "cleaning", "removed"}
  /\ script' = <<"NdisMiniportInitializeEx">>
                 \o (IF powered THEN <<"DatapathCreate">> ELSE <<>>)
  /\ UNCHANGED <<wdfVars, idleVars, resetVars, datapathMachine,
                 transitionComplete, waiting, miniport, app>>

\* NetAdapterStop by the client driver.
StopInterface ==
  /\ PnpIdle /\ ~Requested
  /\ InterfaceStarted
  /\ script' = (IF powered THEN <<"DatapathDestroy">> ELSE <<>>)
                 \o <<"NdisMiniportHalt">>
  /\ UNCHANGED <<wdfVars, idleVars, resetVars, datapathMachine,
                 transitionComplete, waiting, miniport, app>>

PnpStep ==
  \/ TakeRequest \/ AnswerRequest
  \/ /\ NdisInitialize \/ EvtNdisHalt \/ StartIo \/ StopIo
     /\ UNCHANGED <<wdfVars, idleVars, resetVars>>

-----------------------------------------------------------------------------
(* Powered callbacks.                                                       *)

\* The threads in which client driver callbacks for OIDs run.
OtherCallers == Callers \ {WdfThread, DatapathThread}

\* The answer of WDF to WdfDeviceStopIdle.
StopIdleStatus ==
  CASE phase = "D0" -> "success"
    [] phase \in {"added", "prepared", "failed", "releasing", "released",
                  "cleaning", "removed"} -> "failed"
    [] phase = "closing" /\ target = "D3Final" -> "failed"
    [] OTHER -> "pending"

\* An OID thread, the machine's thread while it creates the data path, and the
\* thread of WDF while the client driver's own power callbacks run.
MayInvoke(c) ==
  CASE c = WdfThread -> phase \in {"entering", "suspended", "exiting"}
    [] c = DatapathThread -> datapathMachine.op = "DatapathCreate"
    [] OTHER -> InterfaceStarted

InvokePoweredCallback(c) ==
  /\ MayInvoke(c)
  /\ StopIdle(c, StopIdleStatus)
  /\ UNCHANGED <<wdfVars, resetVars, adapterVars>>

PoweredCallbackStep(c) ==
  /\ HardwareWaitReturns(c) \/ CallbackReturns(c)
  /\ UNCHANGED <<wdfVars, resetVars, adapterVars>>

-----------------------------------------------------------------------------
CreateAdapter ==
  /\ phase \notin {"cleaning", "removed"}
  /\ Initialize
  /\ UNCHANGED <<wdfVars, idleVars, resetVars>>

CleanUpAdapter ==
  /\ phase = "removed"
  /\ datapathMachine.queue = <<>>
  /\ EvtCleanup
  /\ UNCHANGED <<wdfVars, idleVars, resetVars>>

NdisStep ==
  /\ EvtNdisRestart \/ EvtNdisPause
  /\ UNCHANGED <<wdfVars, idleVars, resetVars>>

DatapathMachineStep ==
  /\ DatapathStep
  /\ UNCHANGED <<wdfVars, idleVars, resetVars>>

EnqueueEventSyncReturns(t) ==
  /\ TransitionCompletes(t)
  /\ UNCHANGED <<wdfVars, idleVars, resetVars>>

\* A driver may ask for a reset as long as it has the device.
RequestReset(r) ==
  /\ phase \notin {"cleaning", "removed"}
  /\ FindNoRequest(r)
  /\ UNCHANGED <<wdfVars, idleVars, adapterVars>>

ResetRequested(r) ==
  /\ PlatformLevelDeviceResetWithDiagnostics(r)
  /\ UNCHANGED <<wdfVars, idleVars, adapterVars>>

ResetMachineStep ==
  /\ ResetStep
  /\ UNCHANGED <<wdfVars, idleVars, adapterVars>>

Waiters == {t \in {Ndis, PnpPower} : waiting[t] # NoOp}

\* A second signal has met the first, which nobody had taken: more threads wait
\* for the end of a transition than there are transitions to end and signals.
SignalLost ==
  Cardinality(Waiters) >
    Len(datapathMachine.queue) + Cardinality({datapathMachine.op} \ {NoOp})
      + (IF transitionComplete THEN 1 ELSE 0)

\* The power-up that a powered callback waits for has failed: nothing sets
\* m_hardwareEnabled any more.
PowerUpFailed ==
  /\ ~hardwareEnabled
  /\ phase \in {"failed", "releasing", "released", "prepared", "cleaning", "removed"}

\* A request that reaches the reset machine after D3Final is ignored, and
\* nothing will ever set m_pldrComplete. The removal of the device hangs.
ResetIgnored ==
  /\ phase = "cleaning" /\ pldrRequested /\ ~pldrComplete
  /\ Idle(ResetTables, resetMachine)

\* Nothing is left, or nothing can go on.
Terminating ==
  /\ \/ phase = "removed" /\ datapathMachine.stack = <<>>
     \/ ResetIgnored \/ SignalLost
  /\ UNCHANGED vars

Next ==
  \/ PrePrepareHardware \/ PreD0Entry \/ PreSelfManagedIoSuspend
  \/ PreReleaseHardware \/ DeviceCleanup \/ WdfStep
  \/ PnpStep \/ StartInterface \/ StopInterface
  \/ \E c \in Callers : InvokePoweredCallback(c) \/ PoweredCallbackStep(c)
  \/ CreateAdapter \/ CleanUpAdapter \/ NdisStep \/ DatapathMachineStep
  \/ \E t \in {Ndis, PnpPower} : EnqueueEventSyncReturns(t)
  \/ \E r \in Requesters : RequestReset(r) \/ ResetRequested(r)
  \/ ResetMachineStep
  \/ Terminating

(* What the code schedules: the WDF thread goes on with a callback it has   *)
(* begun, the machines run, callbacks of the client driver return and make  *)
(* finitely many calls, a wait ends when its event is set again and again   *)
(* (the waiters of a kernel event are served in their order). NDIS pauses   *)
(* what it is about to halt. WDF tries to power the device up for a caller  *)
(* that waits.                                                              *)
Fairness ==
  /\ SF_vars(WdfStep) /\ SF_vars(PnpStep) /\ SF_vars(DatapathMachineStep)
  /\ \A t \in {Ndis, PnpPower} : SF_vars(EnqueueEventSyncReturns(t))
  /\ WF_vars(ResetMachineStep)
  /\ \A r \in Requesters : WF_vars(ResetRequested(r))
  /\ \A c \in {WdfThread, DatapathThread} : WF_vars(PoweredCallbackStep(c))
  /\ \A c \in OtherCallers : SF_vars(PoweredCallbackStep(c))
  /\ WF_vars(EvtNdisPause /\ script # <<>> /\ Head(script) = "NdisMiniportHalt"
             /\ UNCHANGED <<wdfVars, idleVars, resetVars>>)
  /\ WF_vars(PreD0Entry /\ \E c \in Callers : invocation[c] = "waiting")

Spec == Init /\ [][Next]_vars /\ Fairness

-----------------------------------------------------------------------------
\* Whatever the power callbacks and NDIS do at the same time, the translation
\* app and NDIS see an order of calls that Datapath allows, and a data path
\* that may run is started (nxadapter.cpp, DatapathCreate and following).
Promised == INSTANCE Datapath WITH
  restarted <- miniport \in {"restarted", "pausing"},
  created <- app.created,
  running <- app.running
DatapathImplemented == Promised!Spec

\* The data path machine has still to destroy the data path.
Destroying ==
  \/ datapathMachine.op \in {"DatapathStop", "DatapathDestroy"}
  \/ \E i \in DOMAIN datapathMachine.queue : datapathMachine.queue[i] = "DatapathDestroy"

\* The data path exists only while the hardware is enabled: the power callbacks
\* wait, through three state machines and two events, for the app that has
\* created or destroyed it (nxdevice.cpp, PostD0EntryPostHardwareEnabled and
\* PreD0ExitPreHardwareDisabled). One thing breaks this: a thread of NDIS that
\* waits on the same event (nxadapter.cpp:1106), whose signal IoStop has taken;
\* then the destruction is under way, but WDF does not wait for it.
DatapathNeedsHardware ==
  app.created =>
    \/ /\ hardwareEnabled
       /\ phase \in {"starting", "enabled", "D0", "suspended", "stopping"}
    \/ Destroying /\ waiting[Ndis] # NoOp

\* A callback that began while the device was powering down has returned when
\* WDF goes on from D0Exit (idlestatemachine.cpp, StopIdle: "we will block the
\* power transition until this reference is released").
DxWaitsForCallbacks ==
  Holders("rundown") # {} =>
    phase \in {"suspended", "stopping", "exiting", "closing"}

Requests == {r \in Requesters : requester[r] = "requested"}

\* The driver is not unloaded under a reset that runs (nxdevice.hpp:179,
\* "Prevent unloading driver after PLDR is requested").
NoResetAfterRemoval == phase = "removed" => resetMachine.op = NoOp

\* If a reset was requested, device cleanup returns only when one has ended, and
\* then no other can run, unless a second thread has passed the look at
\* m_pldrRequested before the first assigned it (nxdevice.cpp:534).
ResetBeforeRemoval ==
  phase = "removed" =>
    /\ pldrRequested => pldrReferences < Cardinality(Requests)
    /\ Cardinality(Requests) <= 1 =>
         /\ resetMachine.op = NoOp
         /\ pldrReferences > 0 => Idle(ResetTables, resetMachine)

\* The thread of WDF goes on only when everybody who needs the state that it
\* leaves is done: the data path, the powered callbacks, the reset.
PowerWaits == DatapathNeedsHardware /\ DxWaitsForCallbacks /\ ResetBeforeRemoval

\* No wait is for ever: a power callback that has begun returns, although the
\* machines it waits for may themselves wait for the hardware, and so does NDIS,
\* and whoever invokes a powered callback, in low power and in the thread that
\* powers the device up. Three things do wait for ever, each in one state that
\* the code may reach: the removal after an ignored reset, one of two threads
\* that waited for a signal each when one was lost (nxadapter.cpp:1106), and a
\* powered callback whose power-up failed (idlestatemachine.cpp:132).
EverybodyReturns ==
  /\ []<>(phase \in Settled \/ ResetIgnored \/ SignalLost)
  /\ []<>(waiting[Ndis] = NoOp \/ SignalLost)
  /\ \A c \in OtherCallers : []<>(invocation[c] # "waiting" \/ PowerUpFailed)
=============================================================================
