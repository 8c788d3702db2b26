------------------------------ MODULE NxAdapter ------------------------------
(****************************************************************************)
(* The data path machine of nxadapter.cpp. Two parties give it events and   *)
(* wait for their end on one auto-reset event: NDIS, which initializes,     *)
(* restarts, pauses and halts the miniport, and the PnP and power machine   *)
(* of the adapter, which creates the data path when the device is in D0 and *)
(* destroys it before the device leaves D0. The machine tells the           *)
(* translation app what to do.                                              *)
(*                                                                          *)
(* The client driver may have callbacks called with a power reference while *)
(* the app creates the data path: receive scaling is configured again.      *)
(****************************************************************************)
EXTENDS NxDevice

CONSTANTS Ndis,             \* the thread on which NDIS pauses and restarts
          PnpPower,         \* the thread of the adapter's PnP and power machine
          DatapathThread    \* the thread that runs the data path machine

ASSUME DatapathThreadAssumption ==
  /\ DatapathThread \in Callers
  /\ Ndis # PnpPower

DatapathMachine == INSTANCE NxAdapterStateMachine
DatapathTables == DatapathMachine!Machine

VARIABLES
  datapathMachine,      \* the machine, as in SmFx
  transitionComplete,   \* m_transitionComplete
  waiting,              \* the event whose end each thread waits for, or NoOp
  miniport,             \* what NDIS knows of the miniport
  app,                  \* what the translation app has been told
  script                \* what the PnP and power machine has yet to do

adapterVars == <<datapathMachine, transitionComplete, waiting, miniport, app,
                 script>>

Steps == {"NdisMiniportInitializeEx", "DatapathCreate", "DatapathDestroy",
          "NdisMiniportHalt", "Answer"}

AdapterTypeOK ==
  /\ \A i \in DOMAIN datapathMachine.stack :
       datapathMachine.stack[i] \in DOMAIN DatapathMachine!States
  /\ \A i \in DOMAIN datapathMachine.queue :
       datapathMachine.queue[i] \in DatapathMachine!Events
  /\ transitionComplete \in BOOLEAN
  /\ waiting \in [{Ndis, PnpPower} -> DatapathMachine!Events \cup {NoOp}]
  /\ miniport \in {"halted", "paused", "restarting", "restarted", "pausing"}
  /\ app \in [created : BOOLEAN, running : BOOLEAN]
  /\ \A i \in DOMAIN script : script[i] \in Steps

AdapterInit ==
  /\ datapathMachine = NotInitialized
  /\ transitionComplete = FALSE
  /\ waiting = [t \in {Ndis, PnpPower} |-> NoOp]
  /\ miniport = "halted"
  /\ app = [created |-> FALSE, running |-> FALSE]
  /\ script = <<>>

-----------------------------------------------------------------------------
\* Mutant: the signal of the initial state is left in the event.
InitializeWithoutClear ==
  /\ datapathMachine = NotInitialized
  /\ datapathMachine' =
       [Started(DatapathTables, datapathMachine) EXCEPT !.op = NoOp]
  /\ transitionComplete' = TRUE
  /\ UNCHANGED <<waiting, miniport, app, script>>

\* Initialize starts the machine, whose initial state signals the event, and
\* clears the event.
Initialize ==
  /\ datapathMachine = NotInitialized
  /\ datapathMachine' =
       [Started(DatapathTables, datapathMachine) EXCEPT !.op = NoOp]
  /\ transitionComplete' = FALSE
  /\ UNCHANGED <<waiting, miniport, app, script>>

\* _EvtCleanup ends the machine.
EvtCleanup ==
  /\ datapathMachine.stack # <<>>
  /\ datapathMachine' = Enqueued(datapathMachine, "EvtCleanup")
  /\ UNCHANGED <<transitionComplete, waiting, miniport, app, script>>

\* EnqueueEventSync, and what StartIo, StopIo and NdisInitialize do likewise.
\* One auto-reset event serves both threads, and nothing keeps one from waiting
\* while the other does: the signal goes to either of them, and a second signal
\* is lost while nobody has taken the first.
EnqueueEventSync(t, e) ==
  /\ waiting[t] = NoOp
  /\ waiting' = [waiting EXCEPT ![t] = e]
  /\ datapathMachine' = Enqueued(datapathMachine, e)
  /\ UNCHANGED <<transitionComplete, app>>

TransitionCompletes(t) ==
  /\ waiting[t] # NoOp
  /\ transitionComplete
  /\ transitionComplete' = FALSE
  /\ waiting' = [waiting EXCEPT ![t] = NoOp]
  /\ UNCHANGED <<datapathMachine, miniport, app, script>>

-----------------------------------------------------------------------------
(* NDIS. It restarts and pauses a miniport that it has initialized whenever *)
(* protocols come and go, and pauses it before it halts it: its calls wait   *)
(* for each other.                                                          *)

EvtNdisRestart ==
  /\ miniport = "paused"
  /\ waiting[PnpPower] # "NdisMiniportInitializeEx"
  /\ Head(script \o <<"Answer">>) # "NdisMiniportHalt"
  /\ EnqueueEventSync(Ndis, "NdisMiniportRestart")
  /\ miniport' = "restarting"
  /\ UNCHANGED script

EvtNdisPause ==
  /\ miniport = "restarted"
  /\ EnqueueEventSync(Ndis, "NdisMiniportPause")
  /\ miniport' = "pausing"
  /\ UNCHANGED script

-----------------------------------------------------------------------------
(* The thread of the PnP and power machine, step by step.                   *)

\* NdisInitialize, in StartNetworkInterface. It may fail before it tells the
\* machine; then nothing has changed, and there is no interface to start.
NdisInitialize ==
  /\ script # <<>> /\ Head(script) = "NdisMiniportInitializeEx"
  /\ \/ /\ EnqueueEventSync(PnpPower, "NdisMiniportInitializeEx")
        /\ miniport' = "paused"
        /\ script' = Tail(script)
     \/ /\ waiting[PnpPower] = NoOp
        /\ script' = <<>>
        /\ UNCHANGED <<waiting, datapathMachine, transitionComplete, app,
                       miniport>>

EvtNdisHalt ==
  /\ script # <<>> /\ Head(script) = "NdisMiniportHalt"
  /\ miniport = "paused"
  /\ waiting[Ndis] = NoOp
  /\ EnqueueEventSync(PnpPower, "NdisMiniportHalt")
  /\ miniport' = "halted"
  /\ script' = Tail(script)

StartIo ==
  /\ script # <<>> /\ Head(script) = "DatapathCreate"
  /\ EnqueueEventSync(PnpPower, "DatapathCreate")
  /\ script' = Tail(script)
  /\ UNCHANGED miniport

StopIo ==
  /\ script # <<>> /\ Head(script) = "DatapathDestroy"
  /\ EnqueueEventSync(PnpPower, "DatapathDestroy")
  /\ script' = Tail(script)
  /\ UNCHANGED miniport

-----------------------------------------------------------------------------
(* The operations of the machine.                                           *)

Runs(op) == datapathMachine.op = op
SyncSuccess ==
  datapathMachine' = Returned(DatapathTables, datapathMachine, "SyncSuccess")

TakeEvent ==
  /\ CanDequeue(DatapathTables, datapathMachine)
  /\ datapathMachine' =
       [Dequeued(DatapathTables, datapathMachine) EXCEPT !.unhandled = {}]
  /\ UNCHANGED <<transitionComplete, waiting, miniport, app, script>>

\* CreateDatapath returns when no callback of the client driver is left.
DatapathCreate ==
  /\ Runs("DatapathCreate")
  /\ invocation[DatapathThread] = "none"
  /\ app' = [app EXCEPT !.created = TRUE]
  /\ SyncSuccess
  /\ UNCHANGED <<transitionComplete, waiting, miniport, script>>

DatapathDestroy ==
  /\ Runs("DatapathDestroy")
  /\ app' = [app EXCEPT !.created = FALSE]
  /\ SyncSuccess
  /\ UNCHANGED <<transitionComplete, waiting, miniport, script>>

DatapathStart ==
  /\ Runs("DatapathStart")
  /\ app' = [app EXCEPT !.running = TRUE]
  /\ SyncSuccess
  /\ UNCHANGED <<transitionComplete, waiting, miniport, script>>

DatapathStop ==
  /\ Runs("DatapathStop")
  /\ app' = [app EXCEPT !.running = FALSE]
  /\ SyncSuccess
  /\ UNCHANGED <<transitionComplete, waiting, miniport, script>>

DatapathStartRestartComplete ==
  /\ Runs("DatapathStartRestartComplete")
  /\ app' = [app EXCEPT !.running = TRUE]
  /\ miniport' = "restarted"
  /\ SyncSuccess
  /\ UNCHANGED <<transitionComplete, waiting, script>>

\* Mutant: NDIS is told that the miniport has paused, and the data path stops
\* with its destruction.
DatapathPauseCompleteOnly ==
  /\ Runs("DatapathStopPauseComplete")
  /\ miniport' = "paused"
  /\ SyncSuccess
  /\ UNCHANGED <<app, transitionComplete, waiting, script>>

DatapathStopPauseComplete ==
  /\ Runs("DatapathStopPauseComplete")
  /\ app' = [app EXCEPT !.running = FALSE]
  /\ miniport' = "paused"
  /\ SyncSuccess
  /\ UNCHANGED <<transitionComplete, waiting, script>>

DatapathPauseComplete ==
  /\ Runs("DatapathPauseComplete")
  /\ miniport' = "paused"
  /\ SyncSuccess
  /\ UNCHANGED <<transitionComplete, waiting, app, script>>

DatapathRestartComplete ==
  /\ Runs("DatapathRestartComplete")
  /\ miniport' = "restarted"
  /\ SyncSuccess
  /\ UNCHANGED <<transitionComplete, waiting, app, script>>

\* Forgets the attributes and extensions, which are not kept here.
NdisHalt ==
  /\ Runs("NdisHalt")
  /\ SyncSuccess
  /\ UNCHANGED <<transitionComplete, waiting, miniport, app, script>>

AsyncTransitionComplete ==
  /\ Runs("AsyncTransitionComplete")
  /\ transitionComplete' = TRUE
  /\ datapathMachine' = Returned(DatapathTables, datapathMachine, NoOp)
  /\ UNCHANGED <<waiting, miniport, app, script>>

DatapathStep ==
  \/ TakeEvent \/ AsyncTransitionComplete
  \/ DatapathCreate \/ DatapathDestroy \/ DatapathStart \/ DatapathStop
  \/ DatapathStartRestartComplete \/ DatapathStopPauseComplete
  \/ DatapathPauseComplete \/ DatapathRestartComplete \/ NdisHalt
=============================================================================
