--------------------------- MODULE IdleStateMachine ---------------------------
(****************************************************************************)
(* idlestatemachine.cpp and InvokePoweredCallback: NetAdapterCx calls the   *)
(* client driver's callbacks that touch the hardware with a power           *)
(* reference. While the device powers down a rundown takes the place of the *)
(* reference of WDF, and a caller that finds the device in low power waits  *)
(* until the hardware is enabled again.                                     *)
(****************************************************************************)
EXTENDS SmFx, FiniteSets

CONSTANTS Callers,     \* the threads that invoke powered callbacks
          WdfThread    \* the thread of the power callbacks of WDF, one of them

ASSUME WdfThreadAssumption == WdfThread \in Callers

VARIABLES
  dxRundown,        \* m_dxRundown: TRUE when closed
  hardwareEnabled,  \* m_hardwareEnabled, a notification event
  powerUpThread,    \* m_powerUpThread is the WDF thread
  invocation,       \* where each caller is in InvokePoweredCallback
  powerReference    \* the reference it holds

idleVars == <<dxRundown, hardwareEnabled, powerUpThread, invocation,
              powerReference>>

IdleTypeOK ==
  /\ dxRundown \in BOOLEAN
  /\ hardwareEnabled \in BOOLEAN
  /\ powerUpThread \in BOOLEAN
  /\ invocation \in [Callers -> {"none", "waiting", "calling"}]
  /\ powerReference \in [Callers -> {"none", "rundown", "wdf", "failed"}]

IdleInit ==
  /\ dxRundown = TRUE
  /\ hardwareEnabled = FALSE
  /\ powerUpThread = FALSE
  /\ invocation = [c \in Callers |-> "none"]
  /\ powerReference = [c \in Callers |-> "none"]

Holders(kind) == {c \in Callers : powerReference[c] = kind}

-----------------------------------------------------------------------------
(* The calls of the power callbacks. Each but the last is a critical section *)
(* of m_lock and so one step.                                               *)

D0Entry ==
  /\ powerUpThread' = TRUE
  /\ UNCHANGED <<dxRundown, hardwareEnabled, invocation, powerReference>>

HardwareEnabled ==
  /\ hardwareEnabled' = TRUE
  /\ UNCHANGED <<dxRundown, powerUpThread, invocation, powerReference>>

SelfManagedIoStart ==
  /\ powerUpThread' = FALSE
  /\ UNCHANGED <<dxRundown, hardwareEnabled, invocation, powerReference>>

SelfManagedIoSuspend ==
  /\ dxRundown' = FALSE
  /\ UNCHANGED <<hardwareEnabled, powerUpThread, invocation, powerReference>>

HardwareDisabled(targetStateIsD3Final) ==
  /\ hardwareEnabled' = (hardwareEnabled /\ targetStateIsD3Final)
  /\ UNCHANGED <<dxRundown, powerUpThread, invocation, powerReference>>

\* D0Exit closes the rundown, and then waits for those who hold it.
D0ExitCloses ==
  /\ dxRundown' = TRUE
  /\ UNCHANGED <<hardwareEnabled, powerUpThread, invocation, powerReference>>

D0ExitReturns == Holders("rundown") = {}

-----------------------------------------------------------------------------
\* Mutant: the thread that powers the device up waits like all others.
StopIdleAnyThread(c, status) ==
  /\ invocation[c] = "none"
  /\ \/ /\ ~dxRundown
        /\ powerReference' = [powerReference EXCEPT ![c] = "rundown"]
        /\ invocation' = [invocation EXCEPT ![c] = "calling"]
     \/ /\ dxRundown
        /\ powerReference' = [powerReference EXCEPT
             ![c] = IF status = "failed" THEN "failed" ELSE "wdf"]
        /\ invocation' = [invocation EXCEPT
             ![c] = IF status = "pending" THEN "waiting" ELSE "calling"]
  /\ UNCHANGED <<dxRundown, hardwareEnabled, powerUpThread>>

\* StopIdle, as InvokePoweredCallback calls it: it waits for D0. The status is
\* the answer of WDF, which is asked only if the rundown is closed. A failed
\* reference does not keep the callback from being called.
StopIdle(c, status) ==
  /\ invocation[c] = "none"
  /\ \/ /\ ~dxRundown
        /\ powerReference' = [powerReference EXCEPT ![c] = "rundown"]
        /\ invocation' = [invocation EXCEPT ![c] = "calling"]
     \/ /\ dxRundown
        /\ powerReference' = [powerReference EXCEPT
             ![c] = IF status = "failed" THEN "failed" ELSE "wdf"]
        /\ invocation' = [invocation EXCEPT
             ![c] = IF status = "pending" /\ ~(powerUpThread /\ c = WdfThread)
                    THEN "waiting" ELSE "calling"]
  /\ UNCHANGED <<dxRundown, hardwareEnabled, powerUpThread>>

\* The wait for m_hardwareEnabled ends.
HardwareWaitReturns(c) ==
  /\ invocation[c] = "waiting"
  /\ hardwareEnabled
  /\ invocation' = [invocation EXCEPT ![c] = "calling"]
  /\ UNCHANGED <<dxRundown, hardwareEnabled, powerUpThread, powerReference>>

\* The callback returns and ~PowerReferenceHolder drops the reference.
CallbackReturns(c) ==
  /\ invocation[c] = "calling"
  /\ invocation' = [invocation EXCEPT ![c] = "none"]
  /\ powerReference' = [powerReference EXCEPT ![c] = "none"]
  /\ UNCHANGED <<dxRundown, hardwareEnabled, powerUpThread>>
=============================================================================
