------------------------------- MODULE NxDevice -------------------------------
(****************************************************************************)
(* The platform level reset of nxdevice.cpp: a driver whose hardware is     *)
(* stuck asks for it, the reset machine collects diagnostics and resets the *)
(* device, and the removal of the device waits for the end of the reset.    *)
(****************************************************************************)
EXTENDS IdleStateMachine

CONSTANTS Requesters,     \* the threads that may ask for a reset
          MaxResetQueue   \* bound: events the reset machine is behind

ASSUME RequestersAssumption == IsFiniteSet(Requesters)
ASSUME MaxResetQueueAssumption == MaxResetQueue \in Nat \ {0}

DeviceTables == INSTANCE NxDeviceStateMachine
ResetTables == DeviceTables!Machine

VARIABLES
  resetMachine,    \* the machine, as in SmFx
  pldrRequested,   \* m_pldrRequested
  pldrComplete,    \* m_pldrComplete, an auto-reset event
  pldrReferences,  \* the references with PLDR_TAG on the device
  requester        \* where each thread is in a request

resetVars == <<resetMachine, pldrRequested, pldrComplete, pldrReferences,
               requester>>

ResetTypeOK ==
  /\ \A i \in DOMAIN resetMachine.stack :
       resetMachine.stack[i] \in DOMAIN DeviceTables!States
  /\ \A i \in DOMAIN resetMachine.queue :
       resetMachine.queue[i] \in DeviceTables!Events
  /\ pldrRequested \in BOOLEAN
  /\ pldrComplete \in BOOLEAN
  /\ pldrReferences \in 0..Cardinality(Requesters)
  /\ requester \in [Requesters -> {"idle", "requesting", "requested"}]

ResetInit ==
  /\ resetMachine = Started(ResetTables, NotInitialized)
  /\ pldrRequested = FALSE
  /\ pldrComplete = FALSE
  /\ pldrReferences = 0
  /\ requester = [r \in Requesters |-> "idle"]

EnqueueResetEvent(e) ==
  /\ Len(resetMachine.queue) < MaxResetQueue
  /\ resetMachine' = Enqueued(resetMachine, e)

-----------------------------------------------------------------------------
(* NetDeviceRequestReset. Nothing orders the look at m_pldrRequested and the *)
(* assignment that follows it with those of another thread.                 *)

FindNoRequest(r) ==
  /\ requester[r] = "idle"
  /\ ~pldrRequested
  /\ requester' = [requester EXCEPT ![r] = "requesting"]
  /\ UNCHANGED <<resetMachine, pldrRequested, pldrComplete, pldrReferences>>

PlatformLevelDeviceResetWithDiagnostics(r) ==
  /\ requester[r] = "requesting"
  /\ requester' = [requester EXCEPT ![r] = "requested"]
  /\ pldrRequested' = TRUE
  /\ pldrReferences' = pldrReferences + 1
  /\ EnqueueResetEvent("RequestPlatformLevelDeviceReset")
  /\ UNCHANGED pldrComplete

-----------------------------------------------------------------------------
TakeResetEvent ==
  /\ CanDequeue(ResetTables, resetMachine)
  /\ resetMachine' = [Dequeued(ResetTables, resetMachine) EXCEPT !.unhandled = {}]
  /\ UNCHANGED <<pldrRequested, pldrComplete, pldrReferences, requester>>

CollectDiagnostics ==
  /\ resetMachine.op = "CollectDiagnostics"
  /\ resetMachine' = Returned(ResetTables, resetMachine, "SyncSuccess")
  /\ UNCHANGED <<pldrRequested, pldrComplete, pldrReferences, requester>>

\* Whether the bus resets the device or WDF restarts it: the reset is over.
TriggerPlatformLevelDeviceReset ==
  /\ resetMachine.op = "TriggerPlatformLevelDeviceReset"
  /\ resetMachine' = Returned(ResetTables, resetMachine, NoOp)
  /\ pldrComplete' = TRUE
  /\ pldrReferences' = pldrReferences - 1
  /\ UNCHANGED <<pldrRequested, requester>>

ResetStep ==
  TakeResetEvent \/ CollectDiagnostics \/ TriggerPlatformLevelDeviceReset

\* EvtDeviceCleanup waits for a requested reset and then tells the machine.
WaitDeviceResetFinishIfRequested ==
  /\ pldrRequested => pldrComplete
  /\ pldrComplete' = (pldrComplete /\ ~pldrRequested)

EvtDeviceCleanup ==
  /\ WaitDeviceResetFinishIfRequested
  /\ EnqueueResetEvent("WdfDeviceObjectCleanup")
  /\ UNCHANGED <<pldrRequested, pldrReferences, requester>>
=============================================================================
