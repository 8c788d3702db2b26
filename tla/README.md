# Verification of the Network Adapter Class Extension

This directory holds TLA+ specifications of the Network Adapter Class
Extension (NetAdapterCx), TLC configurations that check them on small
instances, and TLAPS proofs. Every definition is translated from the source
under `src/`; `PROJECT.json` maps each of them to its lines.

1. [Inventory of the system](#1-inventory-of-the-system)
2. [Plan](#2-plan)
3. [Modules](#3-modules)
4. [Runs, bounds and what they show](#4-runs-bounds-and-what-they-show)
5. [Fairness](#5-fairness)
6. [Proofs](#6-proofs)
7. [Limits](#7-limits)
8. [Notes on the code](#8-notes-on-the-code)

## 1. Inventory of the system

NetAdapterCx stands between NDIS (the network stack above), WDF (the driver
framework and its PnP and power callbacks) and the client driver of a network
card. Its parts, with the directory each lives in under `src/netcx`:

### Execution context: `ec/`
* **State.** `m_state` (Stopped, WaitingWorkerThread, WaitingWorkerDpc,
  Running), the task queue, `m_hasPollWork`, the poll and notification lists,
  a worker thread with an auto-reset event, a poll DPC, a notify DPC, the
  affinity fields.
* **Operations.** QueueTask, RunSynchronousTask, RegisterPoll/UnregisterPoll,
  ChangePollFunction, RegisterNotification/UnregisterNotification, Notify,
  SetWorkerThreadAffinity, Destroy.
* **Interactions.** Poll functions of the translator's queues, notifications of
  NDIS and of the client driver's interrupts, tasks of client drivers.
* **Hard.** Any processor may call Notify; the EC may run in a DPC or in the
  thread and hands over between both; the lists have no lock; the lock is
  released around tasks and polls; Destroy races with everything on its way.
* **Correct when** code in the EC is serialized, the state agrees with the
  wake-ups on their way, no task or work item is forgotten, synchronous calls
  return, nothing is used after its unregistration.

### Client driver tasks: `adapter/nxexecutioncontexttask.cpp`
* **State.** `m_taskQueued`, the `m_taskCompleted` event, `m_taskThread`, WDF
  references. **Operations.** Create, Enqueue, WaitCompletion, deletion.
* **Hard.** Deletion from the task's own callback, a wait or deletion racing
  with the end of a run, enqueueing again from the callback.
* **Correct when** references match their holders, completion means that no run
  is left, nothing runs after the deletion, the deletion ends.

### Translator queues and datapath control: `translator/queue.cpp`, `queuecontrol.cpp`, `nxtranslationapp.cpp`
* **State.** A queue's poll function, `m_readyToStop`, notification flags;
  QueueControl's datapath state, list of queues, on-demand queues, work item
  and synchronization event.
* **Operations.** Create/Start/Cancel/Stop/Destroy of all queues, provisioning
  of on-demand queues, power transitions (SetDatapathState,
  SynchronizeDatapathState).
* **Hard.** Changes of the datapath state while the work item runs, on-demand
  creation from the data path, cancellation that waits for a poll.
* **Correct when** the queues agree with the datapath state once it is
  synchronized and every queue goes through its life cycle in order.

### Packet translation: `translator/nxtxxlat.cpp`, `nxrxxlat.cpp`, rings, NBL queue, packet gate, bounce buffers, DMA
* **State.** Rings with begin/next/end indices, NBL queues, the gate's rundown
  count, per-packet contexts, DMA resources.
* **Hard.** NBLs must be completed exactly once whatever path they take; the
  gate closes while NBLs are in flight; rings wrap around.

### Packet queues and data buffers: `adapter/nxqueue.cpp`, `adapter/queue/queue.cpp`, `bm/`
* **State.** Ring indices, data buffer reference counts, the free list of a
  buffer pool. **Hard.** The driver may return buffers in any order; the pool
  may be empty; a stop reclaims what the driver holds.

### Adapter and device PnP and power: `adapter/adapterpnppower.cpp`, `devicepnppower.cpp`, `statemachines/`
* **State.** Two generated hierarchical state machines (the engine, SmFx, is a
  library), lists of adapters, IO events waited for by NDIS.
* **Operations.** Adapter start/stop/cleanup, NDIS pause/restart, D0
  entry/exit, surprise removal, device release.
* **Hard.** Power events and adapter life-cycle events come from different
  threads in any order; events are deferred or ignored per state; requests are
  completed exactly once.

### NxAdapter datapath machine and NxDevice reset machine: `adapter/nxadapter.cpp`, `nxdevice.cpp`
* **State.** Datapath (created, started, paused), NDIS halt; failures and reset
  diagnostics, platform level reset.
* **Hard.** Pause, restart and destruction in any order with the client's
  stop; a reset request racing with surprise removal.

### Idle: `adapter/idle/`
* **State.** Power references, whether the hardware is enabled, a rundown.
  **Hard.** A reference taken while the device leaves D0, a wait for a power-up
  that a surprise removal prevents.

### Scaling, offloads, power policy and wake
* Receive-scaling indirection table and its moves, demultiplexing of transmit
  queues, capability records, lists of wake sources and protocol offloads.

### Requests, handles and WMI: `adapter/nxadapterextension*`, `nxadapter.cpp`, `nxdevice.cpp`, `nxadaptercollection.cpp`
* **State.** The chain of an adapter's media extensions, the dispatch context in
  each request; the collection of a device's adapters under its lock, references
  to miniports, `FsContext` of each file.
* **Operations.** Dispatching regular, direct and synchronous requests; IRPs for
  handles and WMI, which find an adapter by name or walk along all of them.
* **Hard.** Each extension answers, keeps or passes a request on by functions that
  differ in who gets the status; adapters leave while IRPs look for them, and a handle
  outlives its adapter.
* **Correct when** each request is answered once and each handler has it in order, and a
  miniport is used with a reference or under the lock only.

### Leaves
* `rtl/inc`: rundown protection, work items, reference counts, containers.
* Configuration (registry), verification of parameters, layouts of packet
  extensions, statistics, versions, header parsing (frame layout, checksum,
  segmentation, coalescing), metadata: data without control.

`PROJECT.json` lists the same parts with their files, their status and the
reason for what is left out, and under `hazards` what is hard to test at the
line where it bites.

## 2. Plan

In the order of what matters most; modules marked *done* exist.

| Module | Models | Properties aimed at |
|---|---|---|
| `ExecutionContext` *(done)* | scheduler, two DPCs, worker thread, clients, Destroy | serialization, no lost wake-up, list stability, termination |
| `NxExecutionContextTask` *(done)* | a driver's task object | completion event, references, deletion |
| `QueueControl` *(done)* | datapath state, on-demand queues, work item, event, the transmit gate | the queues agree with a synchronized state; Cancel/Stop order; NBLs go out or are dropped |
| `AdapterPnpPower`, `DevicePnpPower`, `PnpPower` *(done)* | both generated machines, their operations, WDF, the driver's threads | legal order of calls to NDIS, I/O exactly in D0 of started adapters, nobody stuck |
| `NxAdapter`, `NxDevice`, `IdleStateMachine`, `DevicePower`, abstract `Datapath` *(done)* | datapath, reset and idle machines under the power callbacks | the data path machine implements `Datapath`; low power waits for callbacks; everybody returns |
| `Transmit` *(done)* | rings, NBLs spread over packets, bounce buffers, scatter/gather lists, segmentation | every NBL is completed once with its packets intact, resources come back |
| `Receive` *(done)* | NBLs, MDLs and data buffers with references, coalescing, three ways to allocate | memory has one owner, a stop finds everything and ends |
| `RxScaling` *(done)* | receive scaling: parameters, indirection table, queues | translator, adapter and driver agree; entries go where NDIS put them |
| `Offload` *(done)* | offload settings of registry, NDIS and driver | everybody believes the same is active, what the registry disabled stays disabled |
| `WakeSources` *(done)* | wake patterns, protocol offloads, PM parameters | the driver arms what NDIS asked for, within its limits |
| `PowerReferences` *(done)* | NDIS's power references and the idle restrictions | references balance, the device may idle exactly when allowed |
| `OidDispatch` *(done)* | a request and the media extensions | answered once, handled in order |
| `WmiAllData`, `DeviceIrps` *(done)* | handles and WMI while adapters come and go, the answer for all of them | miniports are not used when gone, handles keep their server, the answer is whole |
| `MCRequests`, `MCDriverTasks` *(done)* | the six components from `RxScaling` on, and the two of the EC, as one instance each | |

*Abstract specifications.* `Datapath` is implemented by `NxAdapter` under every
order of power callbacks. `SerialExecutor` (a set of requests, at most one
running, every accepted request runs) is what `ExecutionContext` is to be shown
to implement.

*Theorems.* Done: the invariants of `ExecutionContext` (control, clients),
`NxExecutionContextTask`, `QueueControl`, `PowerReferences`, `WakeSources`,
`RxScaling`, `Offload`, `OidDispatch`, `DeviceIrps`, `Transmit`, `Receive` and
`DevicePower`, with the steps of the refinement of `Datapath` (section 6). Next: the
refinement of `SerialExecutor`, `NdisContract` of `PnpPower` from the lemmas on the
framework.

## 3. Modules

### `ExecutionContext`

The EC and the code around it: translator queues as clients, the threads that
enqueue packets for them, a thread that changes the affinity and the thread that
destroys the EC.

*State.* `state`, `hasPollWork`, `taskQueue`, `pollList`, `notifications`,
`terminate` are the fields with an `m_` in front; `workerRequested` is the event
`m_workerThreadRequested`; `pollDpcQueued` and `notifyDpcQueued` say that the DPC
object is in a queue; `affinity` holds the three affinity values (`saved #
Unset` is `m_affinityChanged`). `pc` and `frame` are the program counters and
the locals of `Poll` of the worker thread and of each processor that runs a DPC.
`stage`, `call`, `pollFn`, `readyToStop`, `armed`, `work` belong to the
translator's `Queue` and its poll functions.

*Steps.* A region that holds `m_lock` is one action, and so is each stretch of
code between two such regions that touches shared state: `RunLockHeld` up to
the point where it releases the lock, each task function (`RunTask`), the
signal of its completion (`SignalTask`), arming of the notifications
(`StartPoll`), each poll function (`PollClient`), the end of a round
(`EndRound`), the look at the task queue (`CheckTasks`), and so on. An enqueued
packet takes three steps (`Produce`, `ExchangeArmed`, `ProducerNotify`), so that
the poll can come between any two.

*Reductions.* Arming or disarming all notifications is one step: no other
thread reads two of the flags. A poll function is one step per call, with
nondeterministic progress within its contract. A DPC may run on any processor.
The runtime knobs are read nondeterministically, since their owner may change
them at any time. `TransmitNblsStopping` leaves the counters of an earlier poll
in place when it neither yields nor drains (nxtxxlat.cpp:272); the module's
`PollClient` keeps this: such a poll may report work although it did none.
`Destroy` starts from a quiet state (`Quiesced`): the owner has unregistered its
clients or stopped their sources of Notify, and no notify DPC is queued; the
code documents no check of it.

### `NxExecutionContextTask`

A task object: `taskQueued`, `taskCompleted`, the link in the EC's queue, the
references by tag, the calls of driver threads. `EnqueueLocked` and `QueueTask`
are two steps, as are the parts of `TaskHandler` around the callback. In the
callback the driver may enqueue or delete the task itself (then `at[Worker]`
moves). `RequeueUnfinished` chooses between drivers that enqueue a task only
when it has finished and drivers that enqueue it again while it runs, which the
check in `NetExecutionContextTaskEnqueue` lets pass. The module takes the driver
to serialize its Enqueue calls and to make none once it deletes the task.

### `QueueControl`

How the queues of the translator follow the datapath state, with everybody who
may interfere: the thread that starts, stops, destroys and creates the datapath
(`app`), the system threads that run the work item (`worker`), the
initialization of receive scaling (`rss`), the thread that destroys the queue of
a Wi-Fi peer (`peer`) and a thread for each NET_BUFFER_LIST sent (`sender`).

*State.* `datapath` is `m_state`, `event` is `m_event`, `workQueued` is
`KCoalescingWorkItem::m_queued`, `syncLock` the owner of `m_workSyncLock`. `life`
folds `m_created`, `m_started` and `m_stopping` of each queue into one value;
`starting` is the moment between the registration of the poll and `m_started`.
`txClosed` and `rundown` are the gate of `NxNblDatapath`. `place` says where an
NBL is: with the OS, held by its sender, queued at its queue, in the ring.

*Steps.* A region that holds the spin lock `m_workQueueLock` is one action. With
the push lock `m_workSyncLock` held, the work item takes one action per queue
that it creates, starts or stops, because it returns or waits there; cancelling
all queues is one action (no other thread reads `m_stopping` without the lock).
The check `IsDatapathStateSynchronized` is one action, as is the look of a
sender at `m_created` and `m_started`. A sender takes five steps: the flag, the
reference, the enqueue, the look, the signal.

*Reductions.* The execution context is reduced to the polls it makes while a
queue is registered; `ExecutionContext` covers the handshake. Receive queues have
no traffic here: they stop as soon as they are polled. An NBL takes one packet
and goes through alone; a chain is several senders. Drops for a peer that is gone
complete at once, like an NBL the gate refuses. A failed `NT_FRE_ASSERT` is a
value of `failed`, after which only `Halted` is enabled. Receive scaling is
initialized while the datapath exists only.

### `SmFx` and the table modules

Four state machines of the adapter directory are generated: a header of tables in
`statemachines/` and handwritten operations. The engine that runs the tables
(SmFx) is not in the repository. `SmFx` states what the tables and their users
presuppose of it: an event that the current state defers stays in the queue; an
event is handled by the innermost state of the call stack that has a transition
for it, and dropped (`unhandled`) when none has; a synchronous state runs its entry
operation and takes the event that it returns; an asynchronous state runs it and
waits; a Call state runs it and enters a submachine; a pop transition goes back to
the Call state with an event for it, and ends the machine when there is no
caller; an internal transition runs an action without leaving the state;
entering a state purges the events it lists; other events are taken in the order
they were enqueued.

`AdapterPnpPowerStateMachine`, `DevicePnpPowerStateMachine`,
`NxAdapterStateMachine` and `NxDeviceStateMachine` are the tables: state
types, entry operations, transitions, pops, deferred and purged events, state by state.

### `AdapterPnpPower`, `DevicePnpPower`, `PnpPower`

*State.* `adapterMachine`, `deviceMachine` are machines of `SmFx`; `call` and
`driverState` are the requests of `NetAdapterStart`/`NetAdapterStop` and each
driver's wishes; `interface`, `datapath`, `arrival` what NDIS and the translation
app have been told; `work` is the walk of the device machine over its adapters
and buffer queues, a step for each, with `newAdapters`, `newBufferQueues` and the
collections that new objects join between two walks. `PnpPower` adds WDF
(`wdf`, `callback`), the threads that create and delete objects, and the client
driver.

*Steps.* Dequeueing an event is a step and so is every operation, since the
machines run in threads of their own. An operation that waits for another thread
is two steps.

*Environment.* WDF calls its PnP callbacks one after the other; a surprise
removal comes beside them in Added, D0, Dx and between D0 and Dx. No
NetAdapterCreate is in progress when WDF powers down for good, stops or cleans up
the device, or removes it in Added: the start by default (nxadapter.cpp:976)
would undo the stop of `DevicePnpPower::Stopping` (devicepnppower.cpp:371). A
device that failed before D0 is not started again (devicepnppower.cpp:398).
A driver serializes its own calls and deletes an adapter that it has stopped, or
leaves it to the removal of the device.

### `NxAdapter`, `NxDevice`, `IdleStateMachine`, `DevicePower`, `Datapath`

`NxAdapter` is the data path machine: NDIS's thread and the PnP thread each
enqueue an event and wait for the one auto-reset event `m_transitionComplete`
(nxadapter.cpp:1106, adapterpnppower.cpp:402); the operations
create, start, stop and destroy the data path of the translation app. Nothing in the
code keeps the two from waiting at the same time: a signal then goes to either of them,
whoever's transition it ends, and a second signal that comes before the first is taken is
lost (`TransitionCompletes`). So IoStop may return while the data path is still to be
destroyed, with NDIS's thread waiting for the signal that IoStop took
(`DatapathNeedsHardware` tells this case apart), or one of the two waits for ever
(`SignalLost`). `NxDevice`
is the reset machine from its initialization on, with the request, the collection
of diagnostics and the wait at the cleanup. `IdleStateMachine` is the power
references, the event `m_hardwareEnabled`, the rundown and `m_powerUpThread`. Any thread
of `Requesters` may ask for a reset; the look at `m_pldrRequested` and its assignment are
two steps (`FindNoRequest`, `PlatformLevelDeviceResetWithDiagnostics`). A power-up may fail
in the client driver (`D0EntryFails`, phase `failed`), and then WDF releases the device.
`DevicePower` composes the three under the power callbacks of WDF, each cut where
it waits; the PnP machines of `PnpPower` are one thread here that creates and
destroys the data path between IoStart and IoStop (`script`), because
`device_power` shows what they do. StopIdle just before SelfManagedIoSuspend may get
STATUS_PENDING while the hardware is still enabled; the model takes WDF's commitment
to leave D0 and SelfManagedIoSuspend as one step. `MCDevicePower` has the constraint
`OneConcern`: a behaviour has an adapter with all its threads, or requests for a reset,
which meet the rest in WDF's callbacks only; the theorems hold without it.

`Datapath` is the abstract specification: a data path that exists runs exactly
while NDIS has it restarted, and is stopped before NDIS hears of a pause and before
it is destroyed. `DatapathImplemented` maps it: `restarted` to the
miniport's state, `created` and `running` to the calls the app has received.

### `Transmit`, `MCTransmit`

A transmit queue of the translator. *State.* The packet ring `pr` has the three
indices that the code keeps (`OSReserved0`, `BeginIndex`, `EndIndex`; the slot
flag that overlays `OSReserved2[0]` is reset by `NxQueue::Start`), the fragment
ring `fr` two; `packets` holds the elements with their `PacketContext`;
`currentNbl`, `currentNb`, `completedChain` and the counters are the fields of
`NxTxXlat`. *Data.* What an MDL chain looks like is the *kind* of a NET_BUFFER:
into how many fragments it maps, how many of these the NIC can use, whether there is
room for the backfill and whether its length is supported. *Steps.* The poll
function is cut where a sender may come between: drain, swap of the queue,
translation of one NET_BUFFER, `Advance`. The driver returns packets in
order inside Advance and Cancel. `ChangePollFunction` with the driver's EvtCancel
is one step, since the EC runs both. Mapping ways: KvmOnly, UseHal, AlwaysBounce
(BypassHal walks MDLs like KvmOnly). With `SharedDma` other owners may hold the map
registers, so that UseHal may fail whatever this queue holds. *Where the code goes wrong*,
the module follows it, and history variables mark what it has hit, so that the properties
can be strict about the rest: a drain stops after `Batch` NBLs while `BeginIndex` has moved
on, and then `over` has the packets that were bounced into a fragment of a packet that was
not drained, `lost` the bounce buffers whose note in `FragmentContext` was overwritten;
`strayClones` has the NBLs whose clone a stop gave to NDIS. `RefusedByHal` and `PoolLost`
are states: the queue sleeps for want of map registers that others hold, with nothing of
its own that could come back, and no bounce buffer is left.

### `Receive`

A receive queue with the packet queue below it. Rings are two sequences each
(what the driver holds, what it has given back): where in the ring they start makes no
difference. `Modes` are the three ways to allocate (DRIVER, ATTACH, ALLOCATE).
*Contract of the driver*, from the code that relies on it: a shared
data buffer goes to packets with one fragment only, and is let go with the last
fragment that is attached to it; in mode ALLOCATE Cancel gives back everything. Nothing limits how many
packets and fragments the driver gives back at once. A batch that is full leaves drained
packets in the ring, whose fragments PostAdvanceRefCounting counts again in the next poll:
`leftOver` is the history of the data buffers that this has hit. When the last fragments
come back without a packet, the poll that takes them counts no work, and a stopping queue
may sleep then: `LastPollUnseen` is that state. The EC's idle polls are cut by one:
`awake` ends one poll earlier than in the code, since a poll that did nothing
changes nothing.

### `RxScaling`, `Offload`, `WakeSources`, `PowerReferences`, `MCRequests`

What NDIS configures by requests. `RxScaling` goes from the OID to the
driver through the translator's cache (`table`, `number`, `slots`, `affinity`) and
NetAdapterCx (`adapterEnabled`, `hash`); each call of the driver may fail, a move
of entries is a step per part, and the data path comes and goes in between.
A partial move makes the cache forget how many entries are in use, and the next change of
their number may then replicate over entries that the driver still has otherwise, or miss a
growth (first note on receive scaling in section 8). The history variable `overwritten` has
the entries where this left the cache and NDIS apart, until a move sets them; what is said
of the table is said of all others.
`Offload` has the three copies of each offload (hardware, default, active) in
NetAdapterCx and the translator's answer to NDIS, with steps for each group of
offloads, since a driver pauses and resumes them beside the OIDs and no lock orders
both. `WakeSources` has the lists of patterns and protocol offloads, the PM
parameters that enable them, and the list a driver walks during a power
transition. `PowerReferences` has the references that NDIS takes through the
adapter, those that WDF refused, and the reference of the idle restrictions,
whose conditions are set without the lock and evaluated under it.
They share no state, neither with each other nor with the two modules that follow,
so `MCRequests` runs all six side by side: a behaviour exercises one of them, and its
state space is the sum of theirs.

### `OidDispatch`, `WmiAllData`, `DeviceIrps`

`OidDispatch` follows one request at a time through the media extensions.
`nextHandlerIndex` is the field of the dispatch context, `holder` says who has the
request, `returnsTo` who gets the status that the callback of an extension returns,
`ndisStatus` and `completions` are the two ways to answer, and `shownTo` is a history
of who had it. NDIS sends the next request only when it has its answer, so one is enough;
a direct request that nobody answers ends the behaviour. Synchronous requests are answered
by NetAdapterCx itself, since no extension can register for them.

`WmiAllData` has the layout of a WNODE_ALL_DATA and the arithmetic by which the answers of
several adapters are merged: sizes and offsets in bytes, no contents. `DeviceIrps` has the
collection of adapters, NDIS's references to their miniports, threads with an IRP (`irp` is
the step of each and what it has found) and files. Removal of a miniport is NDIS's:
it waits for the references, and grants none once it has begun. A query of all instances
holds the lock of the collection from its first adapter to its last and has no references;
everything else takes references under the lock and calls NDIS without it.

### `MCExecutionContext`, `MCDriverTasks`, `MCQueueControl`

Constant functions for TLC (poll types, work bounds), a state constraint for the
second client and the symmetry sets. `MCDriverTasks` runs the EC with its clients and a
driver's task side by side: a behaviour exercises one of the two, chosen at the start
(`FairBoth`).

## 4. Runs, bounds and what they show

| Run | Instance | Shows |
|---|---|---|
| `ec_scheduling` | 2 clients of different poll types, one with 2 items; 2 DPC processors, worker thread, 2 affinities, every knob value | the scheduler is right in every interleaving: serialization, wake-ups, no lost work, affinity, clean termination; unregistration is final and lists are stable while they are walked |
| `ec_liveness` | 1 client with 2 items, 1 processor, every knob value; or 2 driver threads and the callback of a task | calls return, work is polled, cancelled queues stop, Destroy returns; a task's references, completion, deletion |
| `queue_work` | an on-demand transmit queue of a peer, a default and a receive-scaling receive queue, 2 worker threads, 2 NBLs | references and NBLs agree, nothing is left at a stop, no change of state or signal is lost |
| `queue_liveness` | the same without receive scaling and peers, 1 NBL at a time, 2 worker threads | waits for the event end, queued NBLs go out |
| `queue_cancelled` | as `queue_work` | **violation**: StopQueues meets a queue that was never cancelled |
| `queue_stop_returns` | 1 worker thread, 1 NBL | **violation**: StopDatapath never returns |
| `device_power` | 1 adapter, 1 buffer queue, 2 drivers with a wish (NetAdapterCx, the client), 3 threads that call, 1 restart of the device | NDIS, data path and buffer queues are called in a legal order, no event is unexpected, I/O runs exactly in D0 of a started adapter, nobody is stuck |
| `power` | 1 adapter, NDIS, the PnP thread and powered callbacks in 3 threads; or 2 requesters of a reset; power-ups that may fail | the data path machine implements `Datapath`; the data path needs the hardware, low power waits for callbacks, removal for a reset; everybody returns, but for three states that the code may reach |
| `reset_removal` | 2 requesters of a reset, no adapter | **violation**: a reset runs on a device that was removed |
| `transmit` | 2 NBLs, of 2 NET_BUFFERs that never translate and of 1 that is segmented in 4; 7 usable packets, 3 usable fragments, 2 bounce buffers, drains that end with the first NBL; mapped with bounce buffers or by a HAL with other users | packets keep the data the NIC reads, nothing is lost or completed twice, all that was sent comes back, but for what the notes A, C and D in section 8 name |
| `receive` | 3 NBLs, 2 pieces of memory and data buffers, 3 usable packets and fragments, batches of 2, 3 modes, coalescing | memory has one owner, a stop finds everything and ends, but for what the first and the last note on Receive in section 8 name |
| `requests` | 3 processors, 1 or 3 queues, a table of 4 entries of which 2 or 4 are used; 4 drivers with their registries; 2 drivers with wake capabilities, 27 PM parameters; 2 users of power references; 2 media extensions; 3 adapters with names of different lengths, 2 threads with IRPs, 1 file, buffers of 2 sizes | the components keep their copies in agreement; requests are answered once, in order; IRPs reach their adapter or nobody |

*Why the bounds are enough.* The EC distinguishes an empty from a non-empty
queue, so two items per client reach every case: the last item taken, one left,
one added while the other is polled. There is one poll DPC object and one notify
DPC object; two processors suffice for them to run side by side, with the worker
thread as the third context. Two clients of different types give every order of
registration; a third adds no new pair. While the second one is there the first has
no traffic and the affinity is left alone, and while either is so at most one
processor runs DPCs (`Bounds`): the theorems below hold without these limits.
Two affinities let a set value be overtaken by another. Symmetry is used for processors and affinities in safety
runs only.

`QueueControl` needs two worker threads because `m_queued` is cleared before the
callback runs, so two may be in it; a third waits for the lock like the second.
Two NBLs let one be dropped or translated while the other is being enqueued. One
queue of each kind suffices for the order of Create, Start, Cancel and Stop, for
the queues do not read each other's state. The liveness run leaves out the
destruction of peers: a driver that destroys a queue again and again could
starve an NBL, which is no fault of this code. The runs set CHECK_DEADLOCK
FALSE, because of the hang that `queue_stop_returns` shows.

`device_power` has one adapter: adapters share no state but the walks of the device
machine, which visit them one after the other, and a second one multiplies the
states beyond what TLC finishes. A restart lets every late answer of the first
life reach the second. The machines' queues are not bounded by a constant: each
caller has one event on its way. `power` bounds the queue of the reset machine
(`MaxResetQueue = 2`: an event of power beside a request, or the two requests of
`reset_removal`). No caller there is symmetric
to another: the thread of WDF, of the data path machine and of an OID differ. Two threads
wait for `m_transitionComplete` at most, since NDIS serializes pause, restart and halt of a
miniport. Two requesters of a reset are what it takes to pass nxdevice.cpp:534 at once;
further ones find `m_pldrRequested` set or do as the second does.

In `transmit` the fragment ring and the bounce pool are smaller than what the four
segments of the second NBL need, so that each runs short in the middle of an NBL. `Batch = 1`
stands for the 64 of nxnbltranslation.cpp:1409 and is smaller than the packet ring: a drain
may leave returned packets behind, whose fragments the next translation overwrites. The
first NBL takes packets but no fragments, so that its drain is one that ends early while
the fragments of the second come round. `SharedDma` is TRUE. AlwaysBounce is left
out, since KvmOnly bounces `Odd`, whose second fragment the NIC cannot use; the theorems
cover it. It sets CHECK_DEADLOCK
FALSE, because a queue that `RefusedByHal` or `PoolLost` describes does nothing more.

In `receive` each ring and pool is smaller than what the driver may give back at once:
three packets come back against batches of two, with fragments that then stay in the ring.
It sets CHECK_DEADLOCK FALSE because of `LastPollUnseen`.

In `requests` three processors and four entries let a move leave an entry behind, and let a
change of the number follow a partial move of a table that has more entries than the
change leaves: this is what overwrites the cache. Four constraints keep the components
apart: `OneMove` (several processors move entries at once only with a queue for each and
with all entries in use), `ThirdProcessor` (it gets the first two entries at most, and the
others then rest), `HashOrTables` (hashes and disabling with a single queue), and
`WalkFirst` below. The theorems hold without any of them. Two patterns fill a bitmap, and
two users of references include one that WDF granted its reference and one that it refused.
Two media extensions are a first one and a later one, each
with or without each callback. With three adapters an answer is merged into one that has
been merged; the names of 10, 6 and 32 bytes come in every order; a buffer of 104 bytes is
too small for the longest name and for two adapters together, and 200 bytes hold two of
some and not of others. One thread walks along the collection or uses a miniport while the
other does, and one file suffices, for no two share anything. `WalkFirst` lets queries
walk before a handle is opened only, since the two share nothing either; the theorems hold
without it. Its components may stop for good after a failed call, so
it sets CHECK_DEADLOCK FALSE.

*The findings.* `queue_cancelled` shows that `CancelQueues` may return with no queue cancelled.
`IsDatapathStateSynchronized` (queuecontrol.cpp:482) has no case for `Stopping`.
A work item that found all queues started, and takes `m_workQueueLock` for its
check after `SetDatapathState(Stopping)` has cleared the event, sets the event.
`StopDatapath` goes on to `StopQueues`, and the next work item finds in state
`Stopped` queues that are not stopping: `NT_FRE_ASSERT(queue->IsStopping())`
(queuecontrol.cpp:448 and 461) fails. All it takes is a signal by a sender or by
receive scaling shortly before the stop.

`queue_stop_returns` shows a stop that hangs. An NBL that is queued to an
on-demand queue keeps its rundown reference until it is completed. If
`m_state` becomes `Stopping` before the work item has created that queue, no
later step creates it, and the Stopping case drops the NBLs of *created* queues
only (queuecontrol.cpp:418), although the comment there has this race in mind.
`SetTxHandler(nullptr)` waits for the reference forever.

`reset_removal` shows a reset of a device that is gone. `m_pldrComplete` is there to
"Prevent unloading driver after PLDR is requested" (nxdevice.hpp:179), and EvtDeviceCleanup
waits for it once. Two threads in PlatformLevelDeviceResetWithDiagnostics may both find
`m_pldrRequested` false (nxdevice.cpp:534) before either sets it, and enqueue a request
each. The machine takes the first, ends that reset and sets the event; once the device
has gone through a power cycle, it takes the second, and when the cleanup finds the event
set, the second reset still runs. `ResetBeforeRemoval` in `power` says what
is left: one reset has ended before the removal, and with no second requester that passed
the look, none can follow.

The state space of `DevicePower` holds three waits that never end, and `EverybodyReturns`
names the state of each. `ResetIgnored`: a reset that is requested after the power-down to
D3Final is ignored by the machine, and EvtDeviceCleanup (nxdevice.cpp:556) waits for it.
`SignalLost`: the threads of NDIS and of the PnP machine both wait for
`m_transitionComplete` (nxadapter.cpp:1106), and the second transition ends before the
signal of the first is taken; one signal is left for two waiters. `PowerUpFailed`: a
powered callback waits for `m_hardwareEnabled` (idlestatemachine.cpp:132) while the
power-up fails. No text of the repository promises otherwise, so none of them is a run of
its own; nor are `strayClones`, `lost`, `over`, `leftOver`, `RefusedByHal`,
`LastPollUnseen` and `overwritten`, which section 8 describes.

The state space of `QueueControl` also holds the assertion of
`NxTxXlat::Destroy` that no NBL is queued, failing when a peer's queue is
destroyed while a sender is on its way to it. Whether a driver may do that is
its contract with NetAdapterCx, which the repository does not state: it is listed
as a hazard, not as a finding.

Every property has a mutant: a plausible error in one mapped definition that
makes TLC find the property violated under the run's own configuration.

## 5. Fairness

`FairSpec` of `ExecutionContext` assumes weak fairness of: the worker thread (a
scheduled system thread), each DPC once it is in a queue (the processor runs its
DPC queue), a thread inside a synchronous call, inside SetWorkerThreadAffinity or
inside Destroy, a thread between two steps of an enqueue, and a client that has
cancelled and must go on to Stop. It assumes nothing of traffic, of a client's
decision to register, start or cancel, of the decision to destroy, or of the
time budget, which may run out at the end of any round or never.

`TaskFairness` of `NxExecutionContextTask` assumes that the EC runs what is queued,
that the system runs a queued work item, and that a thread inside a call goes
on. A driver never has to enqueue, wait or delete.

`FairSpec` of `QueueControl` assumes weak fairness of a thread inside
StartDatapath or StopDatapath, inside ReceiveScalingInitialize, inside
DestroyOnDemandQueue and inside a send, of the system threads that run a queued
work item, and of the polls (with the hardware that completes packets). Strong
fairness stands for two things: a push lock serves its waiters, so a work item
gets `m_workSyncLock` in the end; and memory for a queue is found in the end,
for the code tries again without limit. Nobody has to send, start, stop or
create anything.

`Fairness` of `DevicePower` assumes that the thread of WDF goes on with a callback
it has begun, that the machines' threads run, that a driver's callback returns and
makes finitely many calls, that NDIS pauses a miniport which it is about to halt, and
that WDF tries to power the device up while someone waits for it; the attempt may fail
(`D0EntryFails`). It is strong for the
threads of WDF and of the machines: their steps are disabled again and again
while another thread holds what they wait for, and NDIS or an OID thread does not
keep them out for ever. It is strong for the two waits for `m_transitionComplete`, for a
kernel event serves its waiters in their order: a thread whose event is set again and again
is not passed over each time. It assumes nothing of OIDs, of power-downs, of a
driver's start, stop or reset.

The fairness of `Transmit` is weak for the poll, for the NIC's notification, for
the thread that stops the queue and for a sender that has begun, and strong for a
device that returns some packets in a poll. Nothing is assumed of map registers and
bounce buffers, which others may hold for ever: where the queue depends on them,
`SentComesBack` says so. A driver never has to send, start or
cancel. The fairness of `Receive` is weak for the poll, for the notification while
the driver holds something, for the stop and for NDIS, which returns what it was
given; it is strong for Cancel between two polls and for a driver that gives back
some packets and fragments.

`PnpPower` has no fairness: after a surprise
removal its liveness is beyond TLC's reach, so `NobodyIsStuck` states that no
quiescent state has a waiter.

## 6. Proofs

`ExecutionContext_proofs` proves, for any set of clients, processors, poll
types, knob values and bounds:

* `ControlInvariant`: the inductive invariant `ControlInv`. Its core: exactly
  one of these holds the right to run the EC, namely a context at a run point,
  a wake-up of the worker thread (event set or thread woken), a queued or
  started poll DPC, or nobody while the state is Stopped. `WakeUpMatchesState`
  alone is not inductive, for it does not say where the worker thread's task and
  its return lie; `ControlInv` adds the link between `task`, `pc` and
  `terminate`.
* `SerializedAlways`, `WakeUpMatchesStateAlways`, `StoppedHasNoWorkAlways`
  follow from it, `TypeCorrect` from it and a typing invariant, and
  `ListsStableAlways` (an action property) because whoever changes the lists
  holds the right to run, and so nobody polls.

In a second part it goes on with the clients (`ServiceInv` on top of
`ControlInv`):

* A synchronous task is Pending from its queueing until its function has run, at most
  once in the queue, and its client waits; the last task is the last of the
  queue, and at most one poll follows it. With this `CleanTerminationAlways`:
  Destroy ends with no DPC queued and no thread in the EC.
* What is in the poll list and in the list of notifications follows what each client
  has reached: `NothingAfterUnregisterAlways`. It needs `ListsStableAlways`' argument,
  since a walk of the list may be under way when a client asks to leave it.
* The affinity that the thread takes is the last one that was set:
  `LastAffinityAppliesAlways`.
* Assumptions: `ClientsAssumption` and `ContextAssumption`, which say that the sets of
  contexts and clients are disjoint and that the bounds are numbers.

`NxExecutionContextTask_proofs` proves, for any number of driver threads:

* `ReferencesAlwaysMatch` and `TypeCorrect`, with `QueueInv` (one Enqueue at a
  time, `m_taskQueued` covers a run from its Enqueue to its callback), also for
  drivers that enqueue a running task;
* `CompletedMeansFinishedAlways` and `NoRunAfterDeleteAlways` under the
  assumption `RequeueUnfinished = FALSE`, with `FinishedInv`. The assumption is
  needed: see the note on tasks in section 8.

`QueueControl_proofs` proves, for any queues, worker threads and NBLs:

* `ReferencesMatchNblsAlways` and `EmptyWhenStoppedAlways`, from the inductive
  `GateInv`. The two need each other: the rundown may be reinitialized at a start
  because nothing is left from the last stop, and nothing is left because the
  references counted every NBL. `GateInv` adds that the rundown is closed while
  StopDatapath waits, and where an NBL is while its sender is between two steps.
* `TypeCorrect`, from `GateInv` and a typing invariant of the rest.
* `QuietMeansSynchronizedAlways` from `SyncInv`: whatever `m_state` asks for has a
  run of the work item, or a thread ahead that will ask for one. For `Stopping` the
  run must be one that has still to read `m_state` or has read `Stopping`: this is
  where an earlier version of the invariant was not inductive.

`Requests_proofs` is about the components of `MCRequests`. About `PowerReferences`, for any
finite number of users of references:

* `IdleRestrictionsHold`: an evaluation of the idle condition is under way
  whenever the reference of the idle restrictions may be wrong.
* `ReferencesAreBalanced`: WDF's count is the number of granted references that
  have not been dropped, and the successful ones are never more than the holders.

About `WakeSources` it proves `WakeAsAskedAlways`, for any capabilities, any
identifiers and any number of patterns and offloads. `WakeInv`: each entry's
flag follows the PM parameters applied last, which are what NDIS asked for with
selective suspend taken into account, wake on media change and on packet filter
follow the flags, and the counters count the entries. `CapabilitiesAssumption` and
`ParametersAssumption` say what a record of capabilities and parameters is.

About `Offload`, for any set of drivers, registry settings and requests:

* `OffloadsAgreeAlways`, from `OffloadInv`. Each thread has done to all groups behind it
  what it does to a group: a request has set them to its target, an initialization to the
  default, a pause has emptied them, a resume has told the driver what is active. For the
  translator's copies this holds whoever else runs, for what the driver and NDIS were
  told only while the thread is alone, with no other beside it since it began
  (`Threads`). Nothing is assumed of what happened before, so a torn state is repaired
  by the next thread that runs alone. `LeftOut` covers what requests never reach: the groups
  of the callbacks that a driver of version 1 does not use, and the version 1 group, that
  pause and resume leave out. `Kept` is about a request under way: it asks for nothing
  that is off by default, as CheckActiveCapabilities refuses what would.
* `OffloadAssumption` says that a driver's capabilities are flags for each callback that
  it registered, and that `Nil` is no request.

About `RxScaling`, for any numbers of processors, queues and entries:

* `SwitchesAgreeAlways`, from `SwitchInv`: the adapter is ahead of the translator only
  between SetHashInfo and the end of the request. No bound is needed.
* `ScalingAgreesAlways` from `DriverInv`: the driver has what the cache has, except
  for the entries that a move has translated already, where what the move would
  restore is what the driver has, and for those that are `overwritten`.
* `EntriesGoToTheirProcessorAlways` from `ProcessorsInv`: with a queue for each
  processor a slot keeps its queue for good and no two slots share one. A processor
  without a slot finds a free queue, by the pigeonhole principle, so that the branch
  that takes the queue of the source processor is never taken. An entry that is not
  overwritten has the queue of the processor that NDIS chose, whatever number of entries the
  translator believes in: while it uses more of them than NDIS knows of, each of the others
  equals the one that it is `Meant` to be a copy of, and if that one is overwritten, so is
  the copy. This needs that each number of entries divides the larger ones
  (`ScalingAssumption`).

About `OidDispatch` and `DeviceIrps`, for any number of media extensions, adapters,
threads and files:

* `AnsweredOnceAlways` and `HandledInOrderAlways`, from `OidInv`. A request has been shown
  to exactly those who have a callback up to the index in its dispatch context, in
  increasing order; and whoever holds it can answer it, unless an extension passed a direct
  one on by the function without a status (`VoidShown`). Where the request is does not
  follow from its answers: `Place` adds which index and which way back each holder goes
  with.
* `IrpsReachTheirAdapterAlways`, from `IrpInv`: a thread has exactly the references of its
  step, all of them to miniports that are not gone, and what a query has still to visit is
  in the collection, which nobody changes while the query has the lock.
* `AllDataIsWholeAlways`, from `WalkInv` on top of it. That the whole fits does not
  follow from what has been merged so far: each adapter is only compared with the room
  that all adapters would need if their names were as long as its own. With `n` adapters,
  `count` of them merged, `n * used <= count * room` is what each step keeps; at the end
  `count <= n`, and so `used <= room`. `WmiAssumption` (names have a length) and
  `BufferAssumption` (sizes are natural numbers) are all it needs.

`DevicePower_proofs` proves, for any threads that invoke powered callbacks:

* First what the framework does with a machine (`Dequeued`, `Handled`, `Returned`, `Leave`
  of `SmFx`): lemmas for a machine with one level and one taker of an event. They read the
  tables where those are small, and the rest of the proof cites only the rows it needs.
* `PowerInvariant`. With two callers that wait on one event, a caller that has gone on says
  nothing of its own transition. What remains true is where the machine is going:
  `DatapathInv(final)` says that its present state (`Resting`, or `Transient` on the way to
  `GoalOf(state)`) and the events in its queue lead to one resting state, `final` (`Leads`,
  `Work`, `Machine`). Two events may be queued, one of each caller (`OneOfNdis`);
  `Awaited` says that the transitions that are to come, under way or signalled and not
  taken are not more than the threads that wait, from which it follows that no third
  event comes; `Alone`, that NDIS leaves a miniport alone that is halted or being
  initialized. `MiniportIn` and `AppIn` give what NDIS believes and what the app has been
  told, state by state. `PowerInv` adds the PnP thread, which has asked for what a request
  needs or is about to (`Serving`, `NotServing`), what WDF has asked it for in each phase of
  a transition (`PhaseInv`, `HardwareInv`, `WaitInv`, `ReleasedInv`, `BornInv`), and who
  holds the rundown when (`RundownInv`), all in terms of `final`.
* `DatapathOnHardware`: outside the phases in which the hardware is enabled `final` has no
  data path; so if there still is one, the machine is on its way to destroy it, and
  by `Awaited` somebody waits: NDIS's thread, whose signal IoStop has taken. That case
  is part of the statement. `RundownOutlastsCallbacks` follows from `RundownInv`.
* `ImplementsDatapath`: the initial states are initial in `Datapath`, and every step is a
  step of `Datapath` or a stutter, since only six operations of the machine change what the
  mapping reads; none of this depends on who takes which signal. This is the safety part of
  `DatapathImplemented`; that a start comes in the end (`WF_vars(Start)`) is left to TLC.
* `ResetEndsBeforeRemoval`, and with it `PowerTransitionsWait`, for any finite number of
  threads that ask (`RequestersAssumption`), who may all pass nxdevice.cpp:534 at once.
  `OrderlyReset`: the machine is in one of the stacks of states that its submachines allow
  (`ResetMachineInv`). `AskedInv` ties `m_pldrRequested` to those who have enqueued a
  request; `CountInv`: the references with PLDR_TAG are not more than the requests, and
  fewer once `m_pldrComplete` is set, that is, one reset has ended before a removal. What
  a second requester breaks is said of one only (`OnlyInv`): either no operation runs, no
  request is queued and there is no reference (`Quiet`), or there is one, one request at
  most is still queued, and nobody has been told that the reset is over (`Pending`).

`Transmit_proofs` proves, for any NBLs with any NET_BUFFERs, any bounce buffers, rings of
any size, any batch of a drain, all ways of mapping, and a DMA engine of its own or shared:

* `TransmitOwners`, the inductive invariant `OwnersInv`, and from it `TransmitSomewhere`
  (`NblsAreSomewhere`). An NBL, or the clone that stands for it, is in one of seven places
  (`NblInv`), and the clones in use are those of the current chain and of the packets
  (`CloneInv`). `RingInv` measures the packet ring from `OSReserved0`: first what has come
  back, then what the NIC has, then nothing; `OriginInv` says that what a packet was made of
  comes back with that packet or a later one, or is at the head of the current chain. With
  these an NBL cannot be with its owner while the NIC still has one of its packets, although
  only the last packet carries it. `LifeInv` says what each stage of the poll function and of
  a stop has emptied.
* `TransmitContents`, on top of it: `FragmentInv`, `DataInv` and `BufferInv`. The
  fragments of a packet are measured from the end of their ring, so that a put moves all
  of them by the same distance; those of a packet that the NIC has come behind those of an
  earlier one, and none beyond `BeginIndex`. A packet that has come back and is not drained
  has no claim on its fragments: a later one may be written over them, and `over` has that one
  until it is drained, since the drain of the earlier packet gives back what *it* finds
  there. A bounce buffer that is not in the pool is noted at exactly one fragment, which an
  undrained packet owns, or is `lost`; and a fragment of a packet that the NIC has points
  to the packet's bytes, or to a bounce buffer with their copy, unless the packet is `over`.
* `TransmitData` and `TransmitResources` follow: `PacketsKeepTheirData` and
  `NothingLostOrDoubled`. `NothingAssumption` says that NBLs, bytes and bounce buffers are
  different things.

`Receive_proofs` proves, for any numbers of NBLs, fragments and data buffers, any batch
and any driver of the three modes:

* `ReceiveOwners`, the inductive invariant `OwnersInv`. An NBL is in one of seven places,
  an MDL, a piece of the driver's memory or a data buffer in one of four (`NblInv`,
  `MdlInv`, `DriverMemoryInv`, `PoolInv`), and no list, no two units that NDIS holds and
  no two NBLs have it twice. Most actions move something from one place to another, and
  `Moves` and a lemma for each kind of list say what becomes of the invariant. Two parts
  tie the lists to each other: `LayoutInv` says that each packet that the driver has given
  back still points to fragments at the right distance, its own and nobody else's, however
  many skipped ones lie between; without it the poll function could put the memory of one
  packet into the NBL of another. `LifeInv` says what each stage of a stop has already
  emptied.
* `ReceiveDataBuffers`, on top of it, for data buffers: `CountInv` says that the count is at
  least the number of NBLs and, except between the driver's callback and the counting, of
  fragments that use the buffer, and equal to it unless the buffer is `leftOver`. So a
  burst errs on one side only: no data buffer returns to the pool while somebody uses
  it. `LeftInv` says why the history suffices: the fragments that stay in the ring after
  a full batch, which the next poll counts again, are all of buffers in `leftOver`.
* `ReceiveMemory` and `ReceiveStops` follow: that is, `MemoryHasOneOwner` and
  `StopFindsEverything`, in all three modes and for any bursts.

`ListLemmas` has the facts about sequences, minima, ranges and places that several of
these proofs cite (a nonempty set of naturals has a least element; what
removing, prepending or inserting does to the range of a sequence; what is in one of
several places stays in one when it moves). The other assumptions
are the named ASSUMEs of the modules: sets of threads are disjoint, knobs have a value,
bounds are natural numbers. Every type invariant is proved, none is in a run.

## 7. Limits

*Only model-checked:* the liveness properties, with the fairness part of
`DatapathImplemented` (out of the prover's reach, as is ENABLED); the invariants of
`PnpPower`, whose control is in the tables of two machines with submachines, so that an
invariant has to name the reachable combinations of their states one by one. That
a lost signal, an ignored reset, a failed power-up, a stray clone, map registers held by
others, lost bounce buffers and an unseen last poll are the only things that stop somebody
for ever is checked by TLC on the instances of section 4.

*Not modelled in the modules above:* thread priorities, names, tracing,
statistics; a failed Initialize of the EC (it has no thread then and Destroy
returns at once); failed allocations in the creation of a task (the object is
deleted before anyone has its handle); the memory of a freed object (a use after
free shows up as a violated property instead); in `QueueControl`, failed
allocations while the datapath is created, and readers of the arrays of queues
while these grow or are cleared; in `PnpPower`, what the NDIS calls carry, an
interface whose start fails after its registration (adapterpnppower.cpp:352,
not unregistered) and several adapters of one device; in `DevicePower`, function level
resets, which take no part in a wait, and the reset machine before its
initialization. Surprise removal does not wait for the adapters
(devicepnppower.cpp:417): D0Exit may then return before an adapter has
stopped its I/O, so `IoFollowsPowerAndDrivers` and `BuffersOutlastDatapath` exclude it.

In `DeviceIrps`: WMI events, the contents of WMI's registration (only whether the map of
GUIDs is there), the failure of a query for lack of memory beyond leaving the
walk, and the arithmetic's overflow (NDIS's answers are a few kilobytes at most).

In `Transmit`: the metadata of checksum and segmentation, the parsing of the layout,
creation and destruction of a queue, and the counters. In `RxScaling`: the contents of
keys, and the transmit side's demultiplexing.

Components that have no module yet are listed in `PROJECT.json` with the reason.

## 8. Notes on the code

Met while modelling. Each is what the code does as it is read here; the three findings in
section 4 are the ones that a run shows against a statement of the repository.

*Receive scaling*
* A move sets the number of entries in use to the number of entries *of the move*
  (rxscaling.cpp:756). After a partial move any later change of the size to more than
  that is taken for a growth (rxscaling.cpp:304), even a reduction, and overwrites the cached
  table with copies of its first entries. The driver need not have accepted them, and NDIS
  means others: `overwritten` marks these entries, and with four entries TLC reaches them. A
  growth that failed is not replicated either when it is tried again after a move, which
  marks entries, too.
* With fewer queues than processors, MapAffinitizedQueue moves the queue of the source
  processor to the target although other entries stay behind; a later move from there
  finds no queue (`failed = "no queue"`). Slots that are no longer used are never
  released. After such a remap of the default processor, Configure gives queue 0 to two slots.
* `Restore` of EvaluateIndirectionTableEntries holds the new values, so that a refusal
  restores nothing; the driver's key is cached before the driver has accepted it.
* `NxRxScaling::m_enabled` outlives the data path: Configure's Enable returns at once.

*Tasks*
* NetExecutionContextTaskEnqueue looks at `m_taskQueued` only, which TaskHandler clears
  before the callback (nxexecutioncontexttask.cpp:144): a task that is enqueued again
  while it runs is completed by the first run, and a waiter returns with a run queued.

*Reset*
* `m_pldrRequested` is tested and set in two statements (nxdevice.cpp:534): two
  requesters may take two references and enqueue two events. When the second event comes
  while the first reset runs, it is ignored and its reference never dropped; when it is
  queued still, `m_pldrComplete` lets the removal go on before it (run `reset_removal`).
  DispatchDeviceReset prepares the completion
  parameters of a function level reset and passes NULL (nxdevice.cpp:2790).

*Transmit*
* A: a stop while a clone of software segmentation heads the chain gives the clone
  to NDIS (nxtxxlat.cpp:264); the original is never completed (`strayClones`).
* B: UseHal leaves `MdlChain` and `UnmapMdlChain` set when it fails
  (nxnbltranslation.cpp:792-808), which the assertion at nxdma.cpp:195 does not expect.
* C: the drain stops after 64 NBLs (nxnbltranslation.cpp:1409) although `BeginIndex` has
  moved on: the next translation writes its fragments over those of packets that were not
  drained, with the notes of their bounce buffers. It takes a ring larger than the batch. A
  bounce buffer is then lost, and the drain of the older packet gives back one that a packet
  of the NIC uses (`lost`, `over`; both happen in the run `transmit`).
* D: when other owners hold the map registers and the ring is empty, nothing wakes
  the execution context (nxnbltranslation.cpp:1310), until NDIS sends again
  (`RefusedByHal`).

*Receive*
* A buffer pool whose buffers return in bursts leaves some behind the batch
  (queue.cpp:317-343), and their references are counted again by the next poll: they are not
  in the pool at the end, and ~BufferPool asserts that all are (bufferpool.cpp:9). The
  history variable is `leftOver`.
* A data buffer let go when its references are already zero is never freed.
* In mode ALLOCATE a skipped fragment takes a reference to data buffer 0.
* Data buffers that Cancel advances trip the assertion of PostStopReclaim.
* `m_outstandingNbls` is decremented for NBLs that were discarded before they went up.
* Fragments that come back without a packet do not count as work: a queue that stops
  may sleep although there is something to do (nxrxxlat.cpp:869; `LastPollUnseen`).

*Offloads*
* TX_RX_ENABLED of TCPIPv4Checksum clears flags that another field set
  (nxoffload.cpp:762-763); `switch (v4 | v6)` combines values that no case names.
* NO_CHANGE for LSO and USO enables what the registry disabled. CheckActiveGso's first
  condition mixes Clear(L3) and Set(Tcp); TCP and UDP are refused only if both ask.
* A change of the active capabilities while offloads are paused enables them again.
  Pause and Resume do not tell the callback of version 1. `m_isOffloadPaused`
  outlives a re-initialization. There is no lock; a torn state heals with the next call.

*Power*
* `m_transitionComplete` serves two threads that may wait at the same time
  (nxadapter.cpp:1106, :3487, adapterpnppower.cpp:402, 414, 443, 458, 473, 483): IoStop may take the signal
  that was for NDIS and return before DatapathDestroy has run, and of two signals one may
  be lost (`SignalLost`).
* A powered callback that found the device in low power waits for a power-up that
  may fail; nobody sets `m_hardwareEnabled` then (`PowerUpFailed`).
* `m_wakeListEntryCount` counts all patterns and is compared with `==` with the maximum
  of bitmap patterns (nxpowerpolicy.cpp:588). Capabilities set after the PM
  parameters do not enable anything when the flags stay the same. Entries have one
  link for the client, which two simultaneous lists share.
* Dropping a reference that WDF refused releases another caller's granted one
  (nxadapter.cpp:1441); `_EvtStopIdleWorkItem` clears its pending flag after it has
  notified NDIS (nxadapter.cpp:1505).

*Requests*
* NetAdapterDispatchPreprocessedDirectOidRequest returns nothing: what the next handler,
  or the default of nobody, returns for a direct request is lost, and the request is
  never answered (`AnsweredOnce` says exactly this).
* EvtNdisOidRequest answers OID_PM_PARAMETERS itself whatever the type of the request
  (nxadapter.cpp:2495): a query gets success and no data.
* Opening a handle to an adapter that is being removed goes to the client driver, for
  the name is then not found (nxdevice.cpp:1149).
* WmiWnodeAllDataMerge presupposes that all adapters have the same FixedInstanceSize. A
  comment says "Assert" (nxdevice.cpp:1988), no assertion follows.
