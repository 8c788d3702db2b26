---------------------------- MODULE QueueControl ----------------------------
(***************************************************************************)
(* The control of the translator's queues (src/netcx/translator): the      *)
(* datapath state that NxTranslationApp sets, the work item that brings    *)
(* the queues to it (queuecontrol.cpp), the gate of NxNblDatapath, and the *)
(* threads that send NET_BUFFER_LISTs to queues created on demand.         *)
(*                                                                         *)
(* m_workSyncLock is a variable; a region that holds m_workQueueLock is    *)
(* one action.  A failed NT_FRE_ASSERT stops the machine.  What the        *)
(* execution context does with a queue is reduced to its polls.            *)
(***************************************************************************)
EXTENDS Integers, FiniteSets

CONSTANTS
  TxQueues,     \* transmit queues
  OnDemand,     \* those of them that are created when they are used
  PeerQueues,   \* those of them that belong to peers of a Wi-Fi adapter
  RxQueues,     \* default receive queues
  RssQueues,    \* receive queues created for receive scaling
  Workers,      \* bound: system threads that run the work item
  Nbls,         \* bound: NET_BUFFER_LISTs, each sent by a thread of its own
  NoOne         \* the owner of a free lock, the target of an idle NBL

Queues == TxQueues \cup RxQueues \cup RssQueues

ASSUME QueuesAssumption ==
  /\ OnDemand \in {{}, TxQueues} /\ PeerQueues \subseteq OnDemand
  /\ TxQueues \cap (RxQueues \cup RssQueues) = {} /\ RxQueues \cap RssQueues = {}
ASSUME ThreadsAssumption ==
  /\ NoOne \notin Queues \cup Workers /\ "peer" \notin Workers /\ NoOne # "peer"
  /\ IsFiniteSet(Nbls)

VARIABLES
  datapath,    \* m_state
  event,       \* m_event, a manual-reset event
  workQueued,  \* KCoalescingWorkItem::m_queued
  worker,      \* each system thread: where it is, and the m_state it switched on
  syncLock,    \* the owner of m_workSyncLock
  life,        \* each queue: m_created, m_started, m_stopping
  readyToStop, \* Queue::m_readyToStop
  app,         \* where NxTranslationApp is in starting and stopping the datapath
  rss,         \* m_rxScaling and its initialization
  peer,        \* the thread that destroys the datapath of a Wi-Fi peer
  txClosed,    \* NxNblDatapath::m_txClosed
  rundown,     \* m_txRundown: closed, and the references it holds
  sender,      \* where the thread that sends each NBL is
  place,       \* where each NBL is
  target,      \* the queue each NBL is sent to
  failed       \* the assertion that stopped the machine

work     == <<workQueued, worker, syncLock>>
queues   == <<life, readyToStop>>
gate     == <<txClosed, rundown>>
traffic  == <<sender, place, target>>
vars == <<datapath, event, work, queues, app, rss, peer, gate, traffic, failed>>

None == "none"

\* m_created and m_started.  A queue that is starting is polled already.
IsCreated(q) == life[q] \in {"created", "starting", "started", "stopping"}
IsStarted(q) == life[q] \in {"started", "stopping"}
IsPolled(q)  == life[q] \in {"starting", "started"}

In(where, q) == {n \in Nbls : place[n] = where /\ target[n] = q}
IsQueuing(q) == In("queued", q) # {}

NewLife(q) == IF q \in OnDemand THEN "provisioned"
              ELSE IF q \in RssQueues /\ rss = "off" THEN "absent" ELSE "created"

\* CreateDatapath has returned: default queues are created, others provisioned.
Init ==
  /\ datapath = "Stopped" /\ event = FALSE /\ workQueued = FALSE
  /\ worker = [w \in Workers |-> [at |-> "idle", seen |-> "Stopped", changed |-> FALSE]]
  /\ syncLock = NoOne
  /\ rss = "off" /\ life = [q \in Queues |-> NewLife(q)]
  /\ readyToStop = [q \in Queues |-> FALSE]
  /\ app = "stopped" /\ peer = [at |-> "idle", queue |-> NoOne]
  /\ txClosed = TRUE /\ rundown = [closed |-> TRUE, refs |-> 0]
  /\ sender = [n \in Nbls |-> "idle"] /\ place = [n \in Nbls |-> "os"]
  /\ target = [n \in Nbls |-> NoOne]
  /\ failed = None

\* No assertion has failed.
Ok == failed = None /\ UNCHANGED failed

\* Mutant: a dropped chain gives up one reference, not one for each of its NBLs.
CompleteChain(S) ==
  /\ place' = [n \in Nbls |-> IF n \in S THEN "os" ELSE place[n]]
  /\ target' = [n \in Nbls |-> IF n \in S /\ sender[n] = "idle" THEN NoOne ELSE target[n]]
  /\ rundown' = [rundown EXCEPT !.refs = rundown.refs - (IF S = {} THEN 0 ELSE 1)]

\* NBLs are completed to the OS and give up their rundown references.
Complete(S) ==
  /\ place' = [n \in Nbls |-> IF n \in S THEN "os" ELSE place[n]]
  /\ target' = [n \in Nbls |-> IF n \in S /\ sender[n] = "idle" THEN NoOne ELSE target[n]]
  /\ rundown' = [rundown EXCEPT !.refs = rundown.refs - Cardinality(S)]

-----------------------------------------------------------------------------
(***************************************************************************)
(* The app starts, stops and destroys the datapath, one call at a time.    *)
(***************************************************************************)
\* Mutant: the work item is not queued while it runs.
QueueWorkUnlessRunning ==
  event' = FALSE /\ workQueued' = (\A w \in Workers : worker[w].at = "idle")

\* SetDatapathState and SignalQueueStateChange, with m_workQueueLock.
QueueWork == event' = FALSE /\ workQueued' = TRUE

WaitsFor == [waitStarted |-> "started", waitStopping |-> "close", waitStopped |-> "stopped"]

SetTxHandler ==
  /\ Ok /\ app = "stopped" /\ app' = "setStarted"
  /\ rundown' = [closed |-> FALSE, refs |-> 0] /\ txClosed' = FALSE
  /\ UNCHANGED <<datapath, event, work, queues, rss, peer, traffic>>

CloseTxHandler ==
  /\ Ok /\ app = "started" /\ app' = "setStopping"
  /\ txClosed' = TRUE
  /\ UNCHANGED <<datapath, event, work, queues, rss, peer, rundown, traffic>>

\* Mutant: the work item is left to whoever signals next.
SetDatapathStateOnly(from, state, to) ==
  /\ Ok /\ app = from /\ app' = to
  /\ datapath' = state /\ event' = FALSE
  /\ UNCHANGED <<work, queues, rss, peer, gate, traffic>>

SetDatapathState(from, state, to) ==
  /\ Ok /\ app = from /\ app' = to
  /\ datapath' = state /\ QueueWork
  /\ UNCHANGED <<worker, syncLock, queues, rss, peer, gate, traffic>>

\* m_event.Wait finds the event set, or the thread blocks.
BeginWait(at, blocked) ==
  /\ Ok /\ app = at
  /\ app' = IF event THEN WaitsFor[blocked] ELSE blocked
  /\ UNCHANGED <<datapath, event, work, queues, rss, peer, gate, traffic>>

CloseRundown ==
  /\ Ok /\ app = "close" /\ app' = "drain"
  /\ rundown' = [rundown EXCEPT !.closed = TRUE]
  /\ UNCHANGED <<datapath, event, work, queues, rss, peer, txClosed, traffic>>

\* Mutant: the handler is cleared without waiting for the NBLs.
DrainWithoutWait ==
  /\ Ok /\ app = "drain" /\ app' = "setStopped"
  /\ UNCHANGED <<datapath, event, work, queues, rss, peer, gate, traffic>>

Drain ==
  /\ Ok /\ app = "drain" /\ rundown.refs = 0 /\ app' = "setStopped"
  /\ UNCHANGED <<datapath, event, work, queues, rss, peer, gate, traffic>>

\* ~NxTxXlat calls Destroy, which asserts that no NBL is queued.  A peer's queue is
\* destroyed while the datapath exists.
DestroyQueues ==
  /\ failed = None /\ app = "stopped" /\ syncLock = NoOne /\ peer.at = "idle"
  /\ \/ /\ \A q \in TxQueues : IsCreated(q) => ~IsQueuing(q)
        /\ app' = "destroyed" /\ life' = [q \in Queues |-> "absent"]
        /\ UNCHANGED failed
     \/ /\ \E q \in TxQueues : IsCreated(q) /\ IsQueuing(q)
        /\ failed' = "IsQueuing" /\ UNCHANGED <<app, life>>
  /\ UNCHANGED <<datapath, event, work, readyToStop, rss, peer, gate, traffic>>

CreateDatapath ==
  /\ Ok /\ app = "destroyed" /\ app' = "stopped" /\ syncLock = NoOne
  /\ rss # "signal" /\ life' = [q \in Queues |-> NewLife(q)]
  /\ UNCHANGED <<datapath, event, work, readyToStop, rss, peer, gate, traffic>>

AppStep ==
  \/ SetTxHandler \/ CloseTxHandler \/ CloseRundown \/ Drain
  \/ SetDatapathState("setStarted", "Started", "checkStarted")
  \/ SetDatapathState("setStopping", "Stopping", "checkStopping")
  \/ SetDatapathState("setStopped", "Stopped", "checkStopped")
  \/ BeginWait("checkStarted", "waitStarted")
  \/ BeginWait("checkStopping", "waitStopping")
  \/ BeginWait("checkStopped", "waitStopped")
  \/ DestroyQueues \/ CreateDatapath

-----------------------------------------------------------------------------
(***************************************************************************)
(* Receive scaling adds queues, and a Wi-Fi driver removes the transmit    *)
(* queue of a peer, both while the datapath exists.                        *)
(***************************************************************************)
CreateRxScalingQueues ==
  /\ Ok /\ rss = "off" /\ app # "destroyed" /\ syncLock = NoOne
  /\ rss' = "signal"
  /\ life' = [q \in Queues |-> IF q \in RssQueues THEN "created" ELSE life[q]]
  /\ UNCHANGED <<datapath, event, work, readyToStop, app, peer, gate, traffic>>

SignalRss ==
  /\ Ok /\ rss = "signal" /\ rss' = "on" /\ QueueWork
  /\ UNCHANGED <<datapath, worker, syncLock, queues, app, peer, gate, traffic>>

\* DestroyOnDemandQueue up to Stop: Cancel a started queue, drop the NBLs of one
\* that is not started.
DestroyOnDemandQueue(q) ==
  /\ Ok /\ peer.at = "idle" /\ syncLock = NoOne /\ IsCreated(q)
  /\ syncLock' = "peer"
  /\ \/ /\ IsStarted(q)
        /\ peer' = [at |-> "stop", queue |-> q]
        /\ life' = [life EXCEPT ![q] = "stopping"]
        /\ UNCHANGED <<place, target, rundown>>
     \/ /\ ~IsStarted(q)
        /\ peer' = [at |-> "destroy", queue |-> q]
        /\ Complete(In("queued", q)) /\ UNCHANGED life
  /\ UNCHANGED <<datapath, event, workQueued, worker, readyToStop, app, rss, txClosed,
                 sender>>

StopQueue(q) ==
  /\ readyToStop[q]
  /\ life' = [life EXCEPT ![q] = "created"]
  /\ readyToStop' = [readyToStop EXCEPT ![q] = FALSE]

PeerStop ==
  /\ Ok /\ peer.at = "stop" /\ peer' = [peer EXCEPT !.at = "destroy"]
  /\ StopQueue(peer.queue)
  /\ UNCHANGED <<datapath, event, work, app, rss, gate, traffic>>

PeerDestroy ==
  /\ failed = None /\ peer.at = "destroy"
  /\ \/ /\ ~IsQueuing(peer.queue)
        /\ life' = [life EXCEPT ![peer.queue] = "provisioned"]
        /\ peer' = [at |-> "idle", queue |-> NoOne] /\ syncLock' = NoOne
        /\ UNCHANGED failed
     \/ /\ IsQueuing(peer.queue) /\ failed' = "IsQueuing"
        /\ UNCHANGED <<life, peer, syncLock>>
  /\ UNCHANGED <<datapath, event, workQueued, worker, readyToStop, app, rss, gate, traffic>>

PeerStep == (\E q \in PeerQueues : DestroyOnDemandQueue(q)) \/ PeerStop \/ PeerDestroy

-----------------------------------------------------------------------------
(***************************************************************************)
(* The work item: SynchronizeDatapathWork in a system thread.  m_queued is *)
(* cleared first, so two threads may be in it at once.                     *)
(***************************************************************************)
TakeWork(w) ==
  /\ Ok /\ worker[w].at = "idle" /\ workQueued
  /\ workQueued' = FALSE /\ worker' = [worker EXCEPT ![w].at = "sync"]
  /\ UNCHANGED <<datapath, event, syncLock, queues, app, rss, peer, gate, traffic>>

\* SynchronizeDatapathState takes the lock and switches on m_state.
LockSync(w) ==
  /\ Ok /\ worker[w].at = "sync" /\ syncLock = NoOne
  /\ syncLock' = w
  /\ worker' = [worker EXCEPT ![w] = [at |-> "locked", seen |-> datapath, changed |-> FALSE]]
  /\ UNCHANGED <<datapath, event, workQueued, queues, app, rss, peer, gate, traffic>>

\* SynchronizeDatapathState returns.
Unlock(w, again) ==
  /\ syncLock' = NoOne
  /\ worker' = [worker EXCEPT ![w] =
       [at |-> IF again THEN "sync" ELSE "check", seen |-> "Stopped", changed |-> FALSE]]

NeedsCreate(q) == q \in TxQueues /\ life[q] = "provisioned" /\ IsQueuing(q)
NeedsStart(q)  == life[q] \in {"created", "starting"}

At(w, state) == worker[w].at = "locked" /\ worker[w].seen = state

\* The status of Create is ignored: if it fails the loop tries it again.
CreateQueue(w, q) ==
  /\ Ok /\ At(w, "Started") /\ NeedsCreate(q)
  /\ life' = [life EXCEPT ![q] = "created"] /\ Unlock(w, TRUE)
  /\ UNCHANGED <<datapath, event, workQueued, readyToStop, app, rss, peer, gate, traffic>>

CreateFails(w) ==
  /\ Ok /\ At(w, "Started") /\ \E q \in TxQueues : NeedsCreate(q)
  /\ Unlock(w, TRUE)
  /\ UNCHANGED <<datapath, event, workQueued, queues, app, rss, peer, gate, traffic>>

\* Start registers the poll, then sets m_started.
StartQueue(w, q) ==
  /\ Ok /\ At(w, "Started") /\ life[q] = "created"
  /\ life' = [life EXCEPT ![q] = "starting"]
  /\ worker' = [worker EXCEPT ![w].at = "starting"]
  /\ UNCHANGED <<datapath, event, workQueued, syncLock, readyToStop, app, rss, peer, gate,
                 traffic>>

QueueStarted(w, q) ==
  /\ Ok /\ worker[w].at = "starting" /\ life[q] = "starting"
  /\ life' = [life EXCEPT ![q] = "started"] /\ Unlock(w, TRUE)
  /\ UNCHANGED <<datapath, event, workQueued, readyToStop, app, rss, peer, gate, traffic>>

AllStarted(w) ==
  /\ Ok /\ At(w, "Started") /\ \A q \in Queues : ~NeedsCreate(q) /\ ~NeedsStart(q)
  /\ Unlock(w, FALSE)
  /\ UNCHANGED <<datapath, event, workQueued, queues, app, rss, peer, gate, traffic>>

\* Cancel what is started, drop the NBLs of what is created and not started.
CancelQueues(w) ==
  /\ Ok /\ At(w, "Stopping")
  /\ life' = [q \in Queues |-> IF life[q] = "started" THEN "stopping" ELSE life[q]]
  /\ Complete(UNION {In("queued", q) : q \in {t \in TxQueues : life[t] = "created"}})
  /\ Unlock(w, \E q \in Queues : life[q] = "started")
  /\ UNCHANGED <<datapath, event, workQueued, readyToStop, app, rss, peer, txClosed, sender>>

\* NT_FRE_ASSERT(queue->IsStopping()).
NotCancelled(w) ==
  /\ failed = None /\ At(w, "Stopped") /\ \E q \in Queues : life[q] = "started"
  /\ failed' = "IsStopping"
  /\ UNCHANGED <<datapath, event, work, queues, app, rss, peer, gate, traffic>>

\* Stop waits for m_readyToStop with m_workSyncLock held.
StopCancelled(w, q) ==
  /\ Ok /\ At(w, "Stopped") /\ life[q] = "stopping"
  /\ StopQueue(q) /\ worker' = [worker EXCEPT ![w].changed = TRUE]
  /\ UNCHANGED <<datapath, event, workQueued, syncLock, app, rss, peer, gate, traffic>>

NoneStarted(w) ==
  /\ Ok /\ At(w, "Stopped") /\ \A q \in Queues : ~IsStarted(q)
  /\ Unlock(w, worker[w].changed)
  /\ UNCHANGED <<datapath, event, workQueued, queues, app, rss, peer, gate, traffic>>

\* IsDatapathStateSynchronized has no case for Stopping.
Synchronized ==
  CASE datapath = "Started"  -> \A q \in Queues : ~NeedsCreate(q) /\ ~NeedsStart(q)
    [] datapath = "Stopped"  -> \A q \in Queues : ~IsStarted(q)
    [] datapath = "Stopping" -> TRUE

\* m_event.Set releases the app if it waits.
IsDatapathStateSynchronized(w) ==
  /\ Ok /\ worker[w].at = "check"
  /\ \/ /\ Synchronized /\ event' = TRUE
        /\ app' = IF app \in DOMAIN WaitsFor THEN WaitsFor[app] ELSE app
        /\ worker' = [worker EXCEPT ![w].at = "idle"]
     \/ /\ ~Synchronized /\ UNCHANGED <<event, app>>
        /\ worker' = [worker EXCEPT ![w].at = "sync"]
  /\ UNCHANGED <<datapath, workQueued, syncLock, queues, rss, peer, gate, traffic>>

WorkerStep(w) ==
  \/ TakeWork(w) \/ LockSync(w) \/ CreateFails(w) \/ AllStarted(w) \/ CancelQueues(w)
  \/ NotCancelled(w) \/ NoneStarted(w) \/ IsDatapathStateSynchronized(w)
  \/ \E q \in Queues : \/ CreateQueue(w, q) \/ StartQueue(w, q) \/ QueueStarted(w, q)
                       \/ StopCancelled(w, q)

-----------------------------------------------------------------------------
(***************************************************************************)
(* The execution context polls a queue from Start until Stop unregisters   *)
(* it: TransmitNbls, then TransmitNblsStopping.                            *)
(***************************************************************************)
TransmitNbls(q) ==
  /\ Ok /\ IsPolled(q) /\ IsQueuing(q)
  /\ place' = [n \in Nbls |-> IF n \in In("queued", q) THEN "ring" ELSE place[n]]
  /\ UNCHANGED <<datapath, event, work, queues, app, rss, peer, gate, sender, target>>

\* The hardware is done with the packets of some NBLs, and a poll drains them.
DrainCompletions(q) ==
  /\ Ok /\ life[q] \in {"starting", "started", "stopping"}
  /\ In("ring", q) # {}
  /\ \E S \in SUBSET In("ring", q) : S # {} /\ Complete(S)
  /\ UNCHANGED <<datapath, event, work, queues, app, rss, peer, txClosed, sender>>

\* Nothing is left in the rings: drop what is queued.
TransmitNblsStopping(q) ==
  /\ Ok /\ life[q] = "stopping" /\ In("ring", q) = {}
  /\ (~readyToStop[q] \/ IsQueuing(q))
  /\ Complete(In("queued", q)) /\ readyToStop' = [readyToStop EXCEPT ![q] = TRUE]
  /\ UNCHANGED <<datapath, event, work, life, app, rss, peer, txClosed, sender>>

PollStep(q) == TransmitNbls(q) \/ DrainCompletions(q) \/ TransmitNblsStopping(q)

-----------------------------------------------------------------------------
(***************************************************************************)
(* NxNblDatapath::SendNetBufferLists and NxTxXlat::QueueNetBufferList.     *)
(***************************************************************************)
\* The gate's flag is open; what is not accepted, or is for a peer that is gone, is
\* completed at once.
ReadTxClosed(n) ==
  /\ Ok /\ sender[n] = "idle" /\ place[n] = "os" /\ ~txClosed
  /\ sender' = [sender EXCEPT ![n] = "acquire"]
  /\ UNCHANGED <<datapath, event, work, queues, app, rss, peer, gate, place, target>>

Reject(n) ==
  /\ Ok /\ sender[n] = "acquire" /\ rundown.closed
  /\ sender' = [sender EXCEPT ![n] = "idle"]
  /\ UNCHANGED <<datapath, event, work, queues, app, rss, peer, gate, place, target>>

\* TxScaling::SendNetBufferLists picks the queue.
TryAcquire(n, q) ==
  /\ Ok /\ sender[n] = "acquire" /\ ~rundown.closed
  /\ sender' = [sender EXCEPT ![n] = "enqueue"]
  /\ place' = [place EXCEPT ![n] = "held"] /\ target' = [target EXCEPT ![n] = q]
  /\ rundown' = [rundown EXCEPT !.refs = rundown.refs + 1]
  /\ UNCHANGED <<datapath, event, work, queues, app, rss, peer, txClosed>>

Enqueue(n) ==
  /\ Ok /\ sender[n] = "enqueue"
  /\ sender' = [sender EXCEPT ![n] = "look"] /\ place' = [place EXCEPT ![n] = "queued"]
  /\ UNCHANGED <<datapath, event, work, queues, app, rss, peer, gate, target>>

\* The sender leaves.  An NBL that was completed meanwhile is free again.
Leave(n) ==
  /\ sender' = [sender EXCEPT ![n] = "idle"]
  /\ target' = IF place[n] = "os" THEN [target EXCEPT ![n] = NoOne] ELSE target

\* The queue is started: the EC was notified, if it had asked for it.
LookStarted(n) ==
  /\ Ok /\ sender[n] = "look" /\ IsStarted(target[n])
  /\ Leave(n)
  /\ UNCHANGED <<datapath, event, work, queues, app, rss, peer, gate, place>>

LookNotStarted(n) ==
  /\ Ok /\ sender[n] = "look" /\ ~IsStarted(target[n])
  /\ sender' = [sender EXCEPT ![n] = "signal"]
  /\ UNCHANGED <<datapath, event, work, queues, app, rss, peer, gate, place, target>>

SignalQueueStateChange(n) ==
  /\ Ok /\ sender[n] = "signal"
  /\ QueueWork /\ Leave(n)
  /\ UNCHANGED <<datapath, worker, syncLock, queues, app, rss, peer, gate, place>>

Send(n) == ReadTxClosed(n) \/ \E q \in TxQueues : TryAcquire(n, q)
SendOn(n) == \/ Reject(n) \/ Enqueue(n) \/ LookStarted(n) \/ LookNotStarted(n)
             \/ SignalQueueStateChange(n)

-----------------------------------------------------------------------------
Halted == failed # None /\ UNCHANGED vars

Next ==
  \/ AppStep \/ CreateRxScalingQueues \/ SignalRss \/ PeerStep
  \/ \E w \in Workers : WorkerStep(w)
  \/ \E q \in Queues : PollStep(q)
  \/ \E n \in Nbls : Send(n) \/ SendOn(n)
  \/ Halted

\* The system's worker threads run the work item, push locks serve their waiters
\* in order, the EC polls, the hardware completes packets, a thread inside a call
\* goes on, and memory for a queue is found in the end.  Nobody has to send, to
\* start or stop the datapath, or to add or remove queues.
Fairness ==
  /\ WF_vars(AppStep /\ app \notin {"stopped", "started", "destroyed"})
  /\ WF_vars(SignalRss) /\ WF_vars(PeerStop) /\ WF_vars(PeerDestroy)
  /\ \A w \in Workers : WF_vars(WorkerStep(w)) /\ SF_vars(LockSync(w))
                       /\ \A q \in OnDemand : SF_vars(CreateQueue(w, q))
  /\ \A q \in Queues : WF_vars(PollStep(q))
  /\ \A n \in Nbls : WF_vars(SendOn(n))

Spec == Init /\ [][Next]_vars
FairSpec == Spec /\ Fairness
-----------------------------------------------------------------------------
(***************************************************************************)
(* Properties.                                                             *)
(***************************************************************************)
TypeOK ==
  /\ datapath \in {"Started", "Stopping", "Stopped"}
  /\ event \in BOOLEAN /\ workQueued \in BOOLEAN
  /\ worker \in [Workers -> [at : {"idle", "sync", "locked", "starting", "check"},
                             seen : {"Started", "Stopping", "Stopped"}, changed : BOOLEAN]]
  /\ syncLock \in Workers \cup {"peer", NoOne}
  /\ life \in [Queues -> {"absent", "provisioned", "created", "starting", "started",
                          "stopping"}]
  /\ readyToStop \in [Queues -> BOOLEAN]
  /\ app \in {"stopped", "setStarted", "checkStarted", "started", "setStopping",
              "checkStopping", "close", "drain", "setStopped", "checkStopped",
              "destroyed"} \cup DOMAIN WaitsFor
  /\ rss \in {"off", "signal", "on"}
  /\ peer \in [at : {"idle", "stop", "destroy"}, queue : PeerQueues \cup {NoOne}]
  /\ txClosed \in BOOLEAN /\ rundown \in [closed : BOOLEAN, refs : Nat]
  /\ sender \in [Nbls -> {"idle", "acquire", "enqueue", "look", "signal"}]
  /\ place \in [Nbls -> {"os", "held", "queued", "ring"}]
  /\ target \in [Nbls -> TxQueues \cup {NoOne}]
  /\ failed \in {None, "IsQueuing", "IsStopping"}

\* Every NBL the gate let in holds one reference until it is completed, whichever
\* of the poll, the drop at a stop and the drop of a peer's queue completes it.
ReferencesMatchNbls ==
  rundown.refs = Cardinality({n \in Nbls : place[n] # "os"})

\* While the datapath is stopped no NBL is left anywhere and none is let in: the
\* handler and the queues may go away.
EmptyWhenStopped ==
  app \in {"setStopped", "checkStopped", "waitStopped", "stopped", "destroyed"}
    => rundown.closed /\ \A n \in Nbls : place[n] = "os"

\* Nobody is at work on the queues or about to ask for it.
Quiet ==
  /\ ~workQueued /\ \A w \in Workers : worker[w].at = "idle"
  /\ peer.at = "idle" /\ rss # "signal"
  /\ \A n \in Nbls : sender[n] \notin {"look", "signal"}

\* No change of m_state and no signal is lost in the coalescing work item: when
\* it is quiet the queues are what m_state asks for, and m_event says so.
QuietMeansSynchronized ==
  Quiet /\ app \notin {"stopped", "setStarted", "destroyed"} =>
    /\ event /\ Synchronized
    /\ datapath = "Stopping" => \A q \in Queues : life[q] # "started"

\* A wait for m_event ends, although every NBL sent to a queue that is not started
\* clears the event again; and what is queued while the datapath is started goes
\* out, for its queue is created and started on demand.
WaitsEndAndNblsGoOut ==
  /\ app \in DOMAIN WaitsFor ~> app \notin DOMAIN WaitsFor \/ failed # None
  /\ \A q \in TxQueues : datapath = "Started" /\ IsQueuing(q)
                          ~> ~IsQueuing(q) \/ datapath # "Started" \/ failed # None

\* NT_FRE_ASSERT(queue->IsStopping()): StopQueues comes after CancelQueues.
QueuesCancelledBeforeStop == failed # "IsStopping"

\* "For such queues we must drop any currently queued NBLs": StopDatapath, which
\* waits for every NBL, returns.
StopReturns == app = "setStopping" ~> app = "stopped" \/ failed # None
=============================================================================
